--------------------------- MODULE InterviewSession ---------------------------
(***************************************************************************)
(* One interview: the session facade, the workflow graph it drives and the *)
(* attempts and evaluations of its AssessmentAgent.                        *)
(*                                                                         *)
(* The session's lock is held for a whole call, so calls do not interleave;*)
(* within a call every node of the graph is a step, because a node that    *)
(* raises ends the call and leaves the graph's checkpoint before it.  What *)
(* a client knows may be old: it may answer any question asked so far, and *)
(* it may send an event again.  What a judgement, a question or a report   *)
(* says is left out, and so are the interviewer's turns in the transcript. *)
(***************************************************************************)
EXTENDS Integers, Sequences, FiniteSets

CONSTANTS MaxQuestions,    \* max_questions
          MaxDerived,      \* max_derived_turns_per_set
          SilenceLimit,    \* max_events_before_timeout
          TimeoutAction,   \* TimeoutPolicy.action
          Modes,           \* the modes an interview may be held in
          EventId,         \* client_event_id
          NoEventId,       \* no client_event_id was sent
          RetryFirst,      \* a client whose call failed repeats it before anything else
          MaxAnswers       \* bound of the model: answers recorded

ASSUME LimitsAssumption ==
    /\ MaxQuestions \in Nat \ {0} /\ MaxDerived \in Nat
    /\ SilenceLimit \in Nat \ {0} /\ MaxAnswers \in Nat
ASSUME PolicyAssumption == TimeoutAction \in {"end", "pause"} /\ RetryFirst \in BOOLEAN
ASSUME ModesAssumption == Modes \subseteq {"chat", "voice"}
ASSUME EventIdAssumption == NoEventId \notin EventId

VARIABLES state,        \* SessionState, as in the graph's checkpoint
          at,           \* the node the checkpoint goes on with
          running,      \* a call holds the lock and runs the graph
          call,         \* the event of that call, or of the last one that raised
          processed,    \* _processed_client_events
          answers,      \* the candidate's turns in the transcript
          current,      \* AssessmentAgent.current_attempts
          evaluations,  \* AssessmentAgent.evaluations
          asked,        \* StrategyAgent.state.asked_*: all questions but hints
          lastId,       \* questions are numbered in the order they are made
          offTopic      \* history: the answers judged to miss the question

assessment == <<current, evaluations, offTopic>>
vars == <<state, at, running, call, processed, answers, current, evaluations,
          asked, lastId, offTopic>>

DerivedKind == {"follow_up", "challenge", "confirm_positive", "confirm_negative", "trap"}
Kind == DerivedKind \cup {"main", "hint"}

\* main is the question its set opened with: parent_question_id leads there.
Question == [id : Nat, kind : Kind, main : Nat]
NoQuestion == [id |-> 0, kind |-> "main", main |-> 0]

\* What a candidate says or types; a short command counts as one only in voice.
Utterance(mode) == {"answer"} \cup (IF mode = "voice" THEN {"say_end", "say_replay"} ELSE {})
Signal(mode) ==
    {"replay", "end"} \cup
    (IF mode = "voice" THEN {"short_silence", "silence", "timeout"} ELSE {})

AllTypes == {"answer", "say_end", "say_replay", "replay", "end",
             "short_silence", "silence", "timeout"}
Event == [type : AllTypes, question : Nat, id : EventId \cup {NoEventId}]
NoEvent == [type |-> "none", question |-> 0, id |-> NoEventId]

Quality == {"sufficient", "unknown", "bonus_available", "misconception",
            "confirm_positive", "confirm_negative", "trap_available", "off_topic"}

\* The node that makes a derived question, and the kind it makes.
KindOf == [ask_follow_up |-> "follow_up", ask_challenge |-> "challenge",
           ask_confirm_positive |-> "confirm_positive",
           ask_confirm_negative |-> "confirm_negative", ask_trap |-> "trap"]
Node == DOMAIN KindOf \cup
        {"greet", "wait_event", "validate_event", "record_candidate_answer",
         "evaluate_answer", "handle_off_topic", "complete_set", "ask_main",
         "handle_replay", "handle_silence", "handle_timeout", "final_report",
         "finalize", "compose_utterance", "end"}

\* The nodes that call a model or the evidence store.
CanRaise == DOMAIN KindOf \cup {"evaluate_answer", "ask_main", "handle_silence"}

SessionState ==
    [mode : {"chat", "voice"}, question : Question, asked_count : Nat, main : Nat,
     challengeUsed : BOOLEAN, derived : Nat, silence : Nat,
     pending : Event \cup {NoEvent}, report : BOOLEAN, finished : BOOLEAN]

Attempt == [answer : Nat, question : Question]
Evaluation == [main : Nat, about : Question, attempts : Seq(Attempt)]

\* create_session: the call that starts the graph; the session is registered,
\* and known to anybody, only when it has ended well.
Init ==
    /\ \E mode \in Modes :
         state = [mode |-> mode, question |-> NoQuestion, asked_count |-> 0, main |-> 0,
                  challengeUsed |-> FALSE, derived |-> 0, silence |-> 0,
                  pending |-> NoEvent, report |-> FALSE, finished |-> FALSE]
    /\ at = "greet" /\ running = TRUE /\ call = NoEvent /\ processed = {}
    /\ answers = <<>> /\ current = <<>> /\ evaluations = <<>>
    /\ asked = <<>> /\ lastId = 0
    /\ offTopic = {}

---------------------------------------------------------------------------

\* An event a client may send: an answer names a question asked at some time.
Sendable(e) ==
    \/ e.type \in Utterance(state.mode) /\ e.question \in 1..lastId
       /\ Len(answers) < MaxAnswers
    \/ e.type \in Signal(state.mode) /\ e.question = 0

\* submit_event: a finished interview or an event already processed gives what
\* is there and is no step here.  If the last call raised, the graph goes on
\* where that call stopped, and nothing reads the new event.
Submit ==
    \E e \in [type : AllTypes, question : 0..lastId, id : EventId \cup {NoEventId}] :
        /\ ~running /\ ~state.finished
        /\ e.id \notin processed
        /\ Sendable(e)
        /\ at # "wait_event" /\ RetryFirst => e = call
        /\ running' = TRUE /\ call' = e
        /\ \/ /\ at = "wait_event"
              /\ at' = "validate_event"
              /\ state' = [state EXCEPT !.pending = e]
           \/ at # "wait_event" /\ UNCHANGED <<at, state>>
        /\ UNCHANGED <<processed, answers, assessment, asked, lastId>>

\* The graph runs node n, which leads to node m.
Goes(n, m) ==
    /\ running /\ at = n /\ at' = m
    /\ UNCHANGED <<running, call, processed>>

\* What most nodes leave: the event is dealt with.
Handled == [state EXCEPT !.pending = NoEvent]

\* A spoken command becomes the event it asks for.
Interpreted(e) ==
    CASE e.type = "say_end"    -> [e EXCEPT !.type = "end"]
      [] e.type = "say_replay" -> [e EXCEPT !.type = "replay"]
      [] OTHER                 -> e

EventRoute == [answer |-> "record_candidate_answer", replay |-> "handle_replay",
               end |-> "final_report", timeout |-> "handle_timeout",
               silence |-> "handle_silence", short_silence |-> "handle_silence"]

\* Mutant: the question is checked before the command is interpreted.
RefusedAsTyped(e) ==
    state.pending.type \notin Signal("voice") /\ e.question # state.question.id

\* An answer to another question than the current one is refused.
Refused(e) == e.type = "answer" /\ e.question # state.question.id

ValidateEvent ==
    LET e == Interpreted(state.pending)
        refused == Refused(e)
    IN  /\ Goes("validate_event", IF refused THEN "handle_replay" ELSE EventRoute[e.type])
        /\ state' = IF refused THEN state ELSE [state EXCEPT !.pending = e]
        /\ UNCHANGED <<answers, assessment, asked, lastId>>

RecordCandidateAnswer ==
    /\ Goes("record_candidate_answer", "evaluate_answer")
    /\ answers' = Append(answers, [question |-> state.pending.question,
                                   event    |-> state.pending.id])
    /\ state' = [state EXCEPT !.silence = 0]
    /\ UNCHANGED <<assessment, asked, lastId>>

QualityRoute == [sufficient |-> "complete_set", unknown |-> "complete_set",
                 bonus_available |-> "ask_follow_up", misconception |-> "ask_challenge",
                 confirm_positive |-> "ask_confirm_positive",
                 confirm_negative |-> "ask_confirm_negative",
                 trap_available |-> "ask_trap"]

\* Mutant: the limit is passed before it is looked at.
LimitPassed(q) ==
    state.derived > MaxDerived \/ (q = "misconception" /\ state.challengeUsed)

LimitReached(q) ==
    state.derived >= MaxDerived \/ (q = "misconception" /\ state.challengeUsed)

RouteQuality(q) ==
    IF q = "off_topic" THEN "handle_off_topic"
    ELSE IF LimitReached(q) THEN "complete_set" ELSE QualityRoute[q]

NewAttempt == [answer |-> Len(answers), question |-> state.question]

\* Mutant: an answer that misses the question counts as well.
WithOffTopicAttempt(q) == Append(current, NewAttempt)

\* An answer that misses the question is no attempt.
WithAttempt(q) == IF q = "off_topic" THEN current ELSE Append(current, NewAttempt)

EvaluateAnswer ==
    \E q \in Quality :
        /\ Goes("evaluate_answer", RouteQuality(q))
        /\ current' = WithAttempt(q)
        /\ offTopic' = offTopic \cup (IF q = "off_topic" THEN {Len(answers)} ELSE {})
        /\ UNCHANGED <<state, answers, evaluations, asked, lastId>>

HandleOffTopic ==
    /\ Goes("handle_off_topic", "compose_utterance")
    /\ state' = Handled
    /\ UNCHANGED <<answers, assessment, asked, lastId>>

HandleReplay ==
    /\ Goes("handle_replay", "compose_utterance")
    /\ state' = Handled
    /\ UNCHANGED <<answers, assessment, asked, lastId>>

\* Mutant: the question made has no parent.
MadeUnlinked(kind) == [id |-> lastId + 1, kind |-> kind, main |-> lastId + 1]

\* Strategy makes a question about the set that is open.
Made(kind) == [id |-> lastId + 1, kind |-> kind, main |-> state.question.main]

\* ask_follow_up, ask_challenge, ask_confirm_positive, ask_confirm_negative, ask_trap
AskDerived ==
    \E n \in DOMAIN KindOf :
        LET q == Made(KindOf[n])
        IN  /\ Goes(n, "compose_utterance")
            /\ state' = [Handled EXCEPT !.question = q, !.derived = @ + 1,
                                        !.challengeUsed = IF n = "ask_challenge" THEN TRUE ELSE @]
            /\ asked' = Append(asked, q) /\ lastId' = q.id
            /\ UNCHANGED <<answers, assessment>>

\* Mutant: the last answer of the set.
LastAttempt == current[Len(current)]

\* _find_main_attempt: the answer to the main question, or else the first one.
MainAttempt ==
    LET mains == {i \in DOMAIN current : /\ current[i].question.id = state.main
                                         /\ current[i].question.kind = "main"}
    IN  IF mains # {} THEN current[CHOOSE i \in mains : \A j \in mains : i <= j]
                      ELSE current[1]

\* Mutant: one set too many.
AfterCompleteSetLate == IF state.asked_count > MaxQuestions THEN "final_report" ELSE "ask_main"

AfterCompleteSet == IF state.asked_count >= MaxQuestions THEN "final_report" ELSE "ask_main"

\* complete_set and AssessmentAgent.complete_question_set
CompleteSet ==
    /\ Goes("complete_set", AfterCompleteSet)
    /\ \/ current = <<>> /\ UNCHANGED <<current, evaluations>>
       \/ /\ current # <<>>
          /\ evaluations' = Append(evaluations,
                                   [main |-> state.main, about |-> MainAttempt.question,
                                    attempts |-> current])
          /\ current' = <<>>
    /\ state' = [Handled EXCEPT !.challengeUsed = FALSE, !.derived = 0, !.silence = 0]
    /\ UNCHANGED <<answers, asked, lastId, offTopic>>

\* A question that opens a set.
NewMain == [id |-> lastId + 1, kind |-> "main", main |-> lastId + 1]

OpenSet(n) ==
    /\ Goes(n, "compose_utterance")
    /\ asked' = Append(asked, NewMain) /\ lastId' = NewMain.id
    /\ UNCHANGED <<answers, assessment>>

Greet ==
    /\ OpenSet("greet")
    /\ state' = [state EXCEPT !.question = NewMain, !.main = NewMain.id,
                              !.asked_count = 1]

AskMain ==
    /\ OpenSet("ask_main")
    /\ state' = [state EXCEPT !.question = NewMain, !.main = NewMain.id,
                              !.asked_count = @ + 1, !.challengeUsed = FALSE,
                              !.pending = NoEvent]

\* The silence counts from the threshold on: first a hint, which takes the place
\* of the question, then the question again, then the timeout.  Counting beyond
\* the limit makes no difference.
HintDue == state.pending.type = "silence" /\ state.silence = 0 /\ SilenceLimit > 1

HandleSilence ==
    LET long == state.pending.type = "silence"
        count == IF state.silence < SilenceLimit THEN state.silence + 1 ELSE state.silence
    IN  /\ Goes("handle_silence",
                IF ~long THEN "wait_event"
                ELSE IF count >= SilenceLimit THEN "handle_timeout"
                ELSE "compose_utterance")
        /\ state' = [Handled EXCEPT !.silence = IF long THEN count ELSE @,
                                    !.question = IF HintDue THEN Made("hint") ELSE @]
        /\ lastId' = IF HintDue THEN lastId + 1 ELSE lastId
        /\ UNCHANGED <<answers, assessment, asked>>

HandleTimeout ==
    /\ Goes("handle_timeout",
            IF TimeoutAction = "pause" THEN "compose_utterance" ELSE "final_report")
    /\ state' = Handled
    /\ UNCHANGED <<answers, assessment, asked, lastId>>

FinalReport ==
    /\ Goes("final_report", "finalize")
    /\ state' = [state EXCEPT !.report = TRUE]
    /\ UNCHANGED <<answers, assessment, asked, lastId>>

Finalize ==
    /\ Goes("finalize", "compose_utterance")
    /\ state' = [Handled EXCEPT !.finished = TRUE]
    /\ UNCHANGED <<answers, assessment, asked, lastId>>

ComposeUtterance ==
    /\ Goes("compose_utterance", IF state.finished THEN "end" ELSE "wait_event")
    /\ UNCHANGED <<state, answers, assessment, asked, lastId>>

\* Mutant: no id is kept.
RememberedNever(id) == {}

Remembered(id) == {id} \ {NoEventId}

\* The call ends: its result is kept under the event's id.
Return ==
    /\ running /\ at \in {"wait_event", "end"}
    /\ running' = FALSE /\ call' = NoEvent
    /\ processed' = processed \cup Remembered(call.id)
    /\ UNCHANGED <<state, at, answers, assessment, asked, lastId>>

\* A node raises: the checkpoint stays before it and the call raises too.  A
\* session whose first call raises is never registered.
Raise ==
    /\ running /\ at \in CanRaise /\ (at = "handle_silence" => HintDue)
    /\ running' = FALSE
    /\ UNCHANGED <<state, at, call, processed, answers, assessment, asked, lastId>>

RunNode ==
    \/ Greet \/ ValidateEvent \/ RecordCandidateAnswer \/ EvaluateAnswer
    \/ HandleOffTopic \/ HandleReplay \/ AskDerived \/ CompleteSet \/ AskMain
    \/ HandleSilence \/ HandleTimeout \/ FinalReport \/ Finalize \/ ComposeUtterance

Next == Submit \/ RunNode \/ Return \/ Raise

Spec == Init /\ [][Next]_vars

\* A node returns or raises: the model and the store are called with timeouts.
Fairness == WF_vars(RunNode \/ Return \/ Raise)

FairSpec == Spec /\ Fairness

---------------------------------------------------------------------------

\* The variables have their types.
TypeOK ==
    /\ state \in SessionState /\ at \in Node /\ running \in BOOLEAN
    /\ call \in Event \cup {NoEvent} /\ processed \subseteq EventId
    /\ answers \in Seq([question : Nat, event : EventId \cup {NoEventId}])
    /\ current \in Seq(Attempt) /\ evaluations \in Seq(Evaluation)
    /\ asked \in Seq(Question) /\ lastId \in Nat
    /\ offTopic \subseteq DOMAIN answers

\* A set has no more derived questions than allowed and one challenge at most,
\* whatever was silent, off topic or repeated in between.
SetLimits ==
    /\ \A i \in DOMAIN asked :
          Cardinality({j \in DOMAIN asked : asked[j].main = asked[i].main}) <= MaxDerived + 1
    /\ \A i, j \in DOMAIN asked :
          /\ asked[i].kind = "challenge" /\ asked[j].kind = "challenge"
          /\ asked[i].main = asked[j].main
          => i = j

\* The attempts of all sets, the open one last.
AttemptsOf(s) == IF s \in DOMAIN evaluations THEN evaluations[s].attempts ELSE current
Places == UNION {{s} \X DOMAIN AttemptsOf(s) : s \in 1..(Len(evaluations) + 1)}
AttemptAt(p) == AttemptsOf(p[1])[p[2]]

\* Every answer in the transcript but the one being judged was judged, missed
\* the question or is an attempt of one set, once, however often the judge
\* raised; and it was judged as an answer to the question it was given to.
EveryAnswerJudgedOnce ==
    LET judged == DOMAIN answers \ (IF at = "evaluate_answer" THEN {Len(answers)} ELSE {})
    IN  /\ {AttemptAt(p).answer : p \in Places} = judged \ offTopic
        /\ \A p, q \in Places : AttemptAt(p).answer = AttemptAt(q).answer => p = q
        /\ \A p \in Places :
              AttemptAt(p).question.id = answers[AttemptAt(p).answer].question

\* The attempts scored together belong to one set, and every set is scored once.
SetsDoNotMix ==
    /\ \A i \in DOMAIN current : current[i].question.main = state.main
    /\ \A s \in DOMAIN evaluations :
          \A i \in DOMAIN evaluations[s].attempts :
              evaluations[s].attempts[i].question.main = evaluations[s].main
    /\ \A s, t \in DOMAIN evaluations : evaluations[s].main = evaluations[t].main => s = t

\* By text, where no hint takes the place of a question, a set is scored on an answer to
\* its main question, whatever was off topic, stale or raised in between.
MainAnsweredByText ==
    state.mode = "chat" =>
        \A s \in DOMAIN evaluations : evaluations[s].about.id = evaluations[s].main

\* One action of the candidate is recorded once, however often its event comes.
AnswerRecordedOnce ==
    \A i, j \in DOMAIN answers :
        answers[i].event = answers[j].event /\ i # j => answers[i].event = NoEventId

\* A request to end the interview, said or sent, ends it.
EndIsHonoured ==
    (running /\ call.type \in {"end", "say_end"}) ~> state.finished

Outline ==
    INSTANCE InterviewOutline
    WITH Sets <- MaxQuestions, FollowUps <- MaxDerived,
         set <- state.asked_count, followUp <- state.derived,
         scored <- Len(evaluations), over <- state.report

\* The interview is a sequence of scored question sets with an end.
OutlineSpec == Outline!Spec
=============================================================================

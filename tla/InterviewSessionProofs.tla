------------------------ MODULE InterviewSessionProofs ------------------------
(***************************************************************************)
(* Theorems about InterviewSession, for every value of its constants.      *)
(***************************************************************************)
EXTENDS InterviewSession, WellFoundedInduction, FiniteSetTheorems, TLAPS

---------------------------------------------------------------------------
(* What the operators of the module return *)

\* The derived questions and the nodes that make them.
LEMMA Kinds ==
    /\ DOMAIN KindOf = {"ask_follow_up", "ask_challenge", "ask_confirm_positive",
                        "ask_confirm_negative", "ask_trap"}
    /\ \A n \in DOMAIN KindOf : KindOf[n] \in Kind
BY DEF KindOf, Kind, DerivedKind

\* The events that are left once commands are interpreted.
PlainTypes == {"answer", "replay", "end", "timeout", "silence", "short_silence"}

\* A spoken command becomes an event of its own kind, other events stay.
LEMMA InterpretedIsPlain ==
    ASSUME NEW e \in Event
    PROVE  Interpreted(e) \in Event /\ Interpreted(e).type \in PlainTypes
<1>1. CASE e.type = "say_end"
    <2>1. Interpreted(e) = [e EXCEPT !.type = "end"]  BY <1>1 DEF Interpreted
    <2>. QED  BY <2>1 DEF Event, AllTypes, PlainTypes
<1>2. CASE e.type = "say_replay"
    <2>1. Interpreted(e) = [e EXCEPT !.type = "replay"]  BY <1>2 DEF Interpreted
    <2>. QED  BY <2>1 DEF Event, AllTypes, PlainTypes
<1>3. CASE e.type # "say_end" /\ e.type # "say_replay"
    <2>1. Interpreted(e) = e  BY <1>3 DEF Interpreted
    <2>. QED  BY <2>1, <1>3 DEF Event, AllTypes, PlainTypes
<1>. QED  BY <1>1, <1>2, <1>3

\* Where an event leads.
LEMMA EventRouteGoes ==
    ASSUME NEW t \in PlainTypes
    PROVE  EventRoute[t] \in {"record_candidate_answer", "handle_replay", "final_report",
                              "handle_timeout", "handle_silence"}
BY DEF EventRoute, PlainTypes

\* Where a judgement leads.
LEMMA QualityRouteGoes ==
    ASSUME NEW q \in Quality
    PROVE  \/ RouteQuality(q) = "handle_off_topic" /\ q = "off_topic"
           \/ RouteQuality(q) = "complete_set" /\ q # "off_topic"
           \/ RouteQuality(q) \in DOMAIN KindOf /\ q # "off_topic" /\ ~LimitReached(q)
BY Kinds DEF RouteQuality, QualityRoute, Quality

\* Every set of positions that is not empty has a first one.
LEMMA FirstExists ==
    ASSUME NEW S \in SUBSET Nat, S # {}
    PROVE  \E i \in S : \A j \in S : i <= j
<1>. DEFINE Less == {ss \in Nat \X Nat : ss[1] < ss[2]}
<1>1. IsWellFoundedOn(Less, Nat)
    <2>1. OpToRel(<, Nat) = Less  BY DEF OpToRel
    <2>. QED  BY <2>1, NatLessThanWellFounded
<1>2. PICK i \in S : \A j \in S : ~(<<j, i>> \in Less)
    BY <1>1, WFMin
<1>3. ASSUME NEW j \in S, j < i  PROVE <<j, i>> \in Less
    <2>1. <<j, i>> \in Nat \X Nat /\ <<j, i>>[1] = j /\ <<j, i>>[2] = i  OBVIOUS
    <2>. QED  BY <2>1, <1>3
<1>. HIDE DEF Less
<1>4. \A j \in S : ~(j < i)  BY <1>2, <1>3
<1>. QED  BY <1>4

\* A set that has attempts is scored on one of them.
LEMMA MainAttemptIsAttempt ==
    ASSUME current \in Seq(Attempt), current # <<>>
    PROVE  MainAttempt \in Attempt
<1>. DEFINE mains == {i \in DOMAIN current : /\ current[i].question.id = state.main
                                             /\ current[i].question.kind = "main"}
<1>1. DOMAIN current = 1..Len(current) /\ Len(current) \in Nat \ {0}  OBVIOUS
<1>2. \A i \in DOMAIN current : current[i] \in Attempt  OBVIOUS
<1>3. CASE mains # {}
    <2>1. \E i \in mains : \A j \in mains : i <= j
        <3>1. mains \in SUBSET Nat  BY <1>1
        <3>. QED  BY <3>1, <1>3, FirstExists
    <2>2. (CHOOSE i \in mains : \A j \in mains : i <= j) \in mains  BY <2>1
    <2>. QED  BY <2>2, <1>2, <1>3 DEF MainAttempt
<1>4. CASE mains = {}
    <2>1. MainAttempt = current[1]  BY <1>4 DEF MainAttempt
    <2>. QED  BY <2>1, <1>1, <1>2
<1>. QED  BY <1>3, <1>4

---------------------------------------------------------------------------
(* Type correctness *)

\* An event is read while it is pending, and an answer judged once it is in the
\* transcript.
Inputs ==
    /\ at \in {"validate_event", "record_candidate_answer"} => state.pending \in Event
    /\ at = "evaluate_answer" => answers # <<>>

TypeInv == TypeOK /\ Inputs

\* The questions that are made are questions.
LEMMA MadeIsQuestion ==
    ASSUME TypeOK
    PROVE  NewMain \in Question /\ \A k \in Kind : Made(k) \in Question
BY DEF TypeOK, SessionState, NewMain, Made, Question, Kind

\* What most nodes leave is a session state.
LEMMA HandledIsState ==
    ASSUME TypeOK
    PROVE  Handled \in SessionState
BY DEF TypeOK, SessionState, Handled

\* A field may get another value of its type.
LEMMA FieldsUpdate ==
    \A s \in SessionState :
        /\ \A q \in Question : [s EXCEPT !.question = q] \in SessionState
        /\ \A n \in Nat : /\ [s EXCEPT !.derived = n] \in SessionState
                          /\ [s EXCEPT !.main = n] \in SessionState
                          /\ [s EXCEPT !.asked_count = n] \in SessionState
        /\ \A b \in BOOLEAN : [s EXCEPT !.challengeUsed = b] \in SessionState
        /\ [s EXCEPT !.pending = NoEvent] \in SessionState
BY DEF SessionState

\* The first state has the types.
LEMMA TypeInit ==
    Init => TypeInv
<1>1. NoQuestion \in Question  BY DEF NoQuestion, Question, Kind
<1>. QED
    <2>. SUFFICES ASSUME Init PROVE TypeInv  OBVIOUS
    <2>1. PICK mode \in {"chat", "voice"} :
             state = [mode |-> mode, question |-> NoQuestion, asked_count |-> 0, main |-> 0,
                      challengeUsed |-> FALSE, derived |-> 0, silence |-> 0,
                      pending |-> NoEvent,
                      report |-> FALSE, finished |-> FALSE]
        BY ModesAssumption DEF Init
    <2>2. state \in SessionState  BY <1>1, <2>1 DEF SessionState
    <2>3. /\ at \in Node /\ at = "greet" /\ running \in BOOLEAN
          /\ call = NoEvent /\ processed = {} /\ offTopic = {} /\ lastId \in Nat
        BY DEF Init, Node
    <2>4. /\ answers = <<>> /\ current = <<>> /\ evaluations = <<>> /\ asked = <<>>
        BY DEF Init
    <2>. QED  BY <2>2, <2>3, <2>4 DEF TypeInv, TypeOK, Inputs

\* Every step keeps the types.
LEMMA TypeNext ==
    ASSUME TypeInv, [Next]_vars
    PROVE  TypeInv'
<1>. USE DEF TypeInv
<1>0. TypeOK /\ Handled \in SessionState  BY HandledIsState
<1>1. CASE Submit
    <2>1. PICK e \in [type : AllTypes, question : 0..lastId, id : EventId \cup {NoEventId}] :
              /\ at' = IF at = "wait_event" THEN "validate_event" ELSE at
              /\ state' = IF at = "wait_event" THEN [state EXCEPT !.pending = e] ELSE state
              /\ running' = TRUE /\ call' = e
              /\ UNCHANGED <<processed, answers, assessment, asked, lastId>>
        BY <1>1 DEF Submit
    <2>2. e \in Event  BY <2>1 DEF Event, TypeOK
    <2>. QED  BY <2>1, <2>2 DEF TypeOK, Inputs, SessionState, Node, assessment
<1>2. CASE ValidateEvent
    <2>1. state.pending \in Event  BY <1>2 DEF ValidateEvent, Goes, Inputs
    <2>2. /\ Interpreted(state.pending) \in Event
          /\ EventRoute[Interpreted(state.pending).type] \in
                {"record_candidate_answer", "handle_replay", "final_report",
                 "handle_timeout", "handle_silence"}
        BY <2>1, InterpretedIsPlain, EventRouteGoes
    <2>. QED  BY <1>2, <2>1, <2>2
              DEF ValidateEvent, Goes, Refused, TypeOK, Inputs, SessionState, Node, assessment
<1>3. CASE RecordCandidateAnswer
    <2>1. state.pending \in Event  BY <1>3 DEF RecordCandidateAnswer, Goes, Inputs
    <2>. DEFINE a == [question |-> state.pending.question, event |-> state.pending.id]
    <2>2. a \in [question : Nat, event : EventId \cup {NoEventId}]  BY <2>1 DEF Event
    <2>3. answers' = Append(answers, a)  BY <1>3 DEF RecordCandidateAnswer
    <2>4. /\ answers' \in Seq([question : Nat, event : EventId \cup {NoEventId}])
          /\ Len(answers') = Len(answers) + 1 /\ Len(answers) \in Nat
        BY <2>2, <2>3 DEF TypeOK
    <2>5. DOMAIN answers = 1..Len(answers) /\ DOMAIN answers' = 1..Len(answers')
        BY <2>4 DEF TypeOK
    <2>6. DOMAIN answers \subseteq DOMAIN answers' /\ answers' # <<>>
        BY <2>4, <2>5
    <2>. QED  BY <1>3, <2>4, <2>6 DEF RecordCandidateAnswer, Goes, TypeOK, Inputs, SessionState,
                                Node, assessment
<1>4. CASE EvaluateAnswer
    <2>1. PICK q \in Quality : /\ Goes("evaluate_answer", RouteQuality(q))
                               /\ current' = WithAttempt(q)
                               /\ offTopic' = offTopic \cup
                                       (IF q = "off_topic" THEN {Len(answers)} ELSE {})
        BY <1>4 DEF EvaluateAnswer
    <2>2. at' \in Node /\ at' \notin {"validate_event", "record_candidate_answer",
                                      "evaluate_answer"}
        BY <2>1, QualityRouteGoes, Kinds DEF Goes, Node
    <2>3. Len(answers) \in DOMAIN answers  BY <2>1 DEF TypeOK, Inputs, Goes
    <2>4. NewAttempt \in Attempt  BY <2>3 DEF NewAttempt, Attempt, TypeOK, SessionState
    <2>5. current' \in Seq(Attempt)  BY <2>1, <2>4 DEF WithAttempt, TypeOK
    <2>. QED  BY <1>4, <2>1, <2>2, <2>3, <2>5
              DEF EvaluateAnswer, Goes, TypeOK, Inputs, SessionState
<1>5. CASE HandleOffTopic \/ HandleReplay
    BY <1>5, HandledIsState
    DEF HandleOffTopic, HandleReplay, Goes, TypeOK, Inputs, Node, assessment
<1>6. CASE AskDerived
    <2>1. PICK n \in DOMAIN KindOf :
              /\ Goes(n, "compose_utterance")
              /\ state' = [Handled EXCEPT !.question = Made(KindOf[n]), !.derived = @ + 1,
                            !.challengeUsed = IF n = "ask_challenge" THEN TRUE ELSE @]
              /\ asked' = Append(asked, Made(KindOf[n])) /\ lastId' = Made(KindOf[n]).id
              /\ UNCHANGED <<answers, assessment>>
        BY <1>6 DEF AskDerived
    <2>2. Made(KindOf[n]) \in Question  BY Kinds, MadeIsQuestion
    <2>3. state' \in SessionState
        <3>. DEFINE b == IF n = "ask_challenge" THEN TRUE ELSE Handled.challengeUsed
        <3>1. state' = [Handled EXCEPT !.question = Made(KindOf[n]),
                                       !.derived = Handled.derived + 1, !.challengeUsed = b]
            BY <2>1
        <3>2. b \in BOOLEAN  BY HandledIsState DEF SessionState
        <3>. HIDE DEF b
        <3>3. [Handled EXCEPT !.question = Made(KindOf[n])] \in SessionState
            BY <2>2, HandledIsState, FieldsUpdate
        <3>4. Handled.derived + 1 \in Nat  BY HandledIsState DEF SessionState
        <3>5. [Handled EXCEPT !.question = Made(KindOf[n]), !.derived = Handled.derived + 1]
                  \in SessionState
            BY <3>3, <3>4, FieldsUpdate
        <3>. QED  BY <3>1, <3>2, <3>5, FieldsUpdate
    <2>. QED  BY <2>1, <2>2, <2>3 DEF Goes, TypeOK, Inputs, Node, assessment, Question
<1>7. CASE CompleteSet
    <2>1. at' \in {"final_report", "ask_main"}
        BY <1>7 DEF CompleteSet, Goes, AfterCompleteSet
    <2>2. state' \in SessionState
        BY <1>7, HandledIsState DEF CompleteSet, SessionState
    <2>3. current' \in Seq(Attempt) /\ evaluations' \in Seq(Evaluation)
        <3>1. CASE current = <<>>
            BY <1>7, <3>1 DEF CompleteSet, TypeOK
        <3>2. CASE current # <<>>
            <4>. DEFINE e == [main |-> state.main, about |-> MainAttempt.question,
                              attempts |-> current]
            <4>1. evaluations' = Append(evaluations, e) /\ current' = <<>>
                BY <1>7, <3>2 DEF CompleteSet
            <4>2. MainAttempt \in Attempt  BY <3>2, MainAttemptIsAttempt DEF TypeOK
            <4>3. e \in Evaluation
                BY <4>2 DEF Evaluation, Attempt, TypeOK, SessionState
            <4>. QED  BY <4>1, <4>3 DEF TypeOK
        <3>. QED  BY <3>1, <3>2
    <2>. QED  BY <1>7, <2>1, <2>2, <2>3 DEF CompleteSet, Goes, TypeOK, Inputs, Node
<1>8. CASE Greet \/ AskMain
    <2>1. NewMain \in Question  BY MadeIsQuestion
    <2>2. CASE Greet
        <3>1. state' \in SessionState
            BY <2>1, <2>2 DEF Greet, TypeOK, SessionState, Question
        <3>. QED  BY <2>1, <2>2, <3>1
                  DEF Greet, OpenSet, Goes, TypeOK, Inputs, Node, assessment, Question
    <2>3. CASE AskMain
        <3>. DEFINE s1 == [state EXCEPT !.question = NewMain]
                    s2 == [s1 EXCEPT !.main = NewMain.id]
                    s3 == [s2 EXCEPT !.asked_count = state.asked_count + 1]
                    s4 == [s3 EXCEPT !.challengeUsed = FALSE]
        <3>0. /\ state \in SessionState /\ NewMain.id \in Nat
              /\ state.asked_count + 1 \in Nat
            BY <2>1 DEF TypeOK, SessionState, Question
        <3>a. s1 \in SessionState  BY <2>1, <3>0, FieldsUpdate
        <3>b. s2 \in SessionState  BY <3>a, <3>0, FieldsUpdate
        <3>c. s3 \in SessionState  BY <3>b, <3>0, FieldsUpdate
        <3>d. s4 \in SessionState  BY <3>c, FieldsUpdate
        <3>1. state' \in SessionState
            <4>1. state' = [s4 EXCEPT !.pending = NoEvent]  BY <2>3 DEF AskMain
            <4>. HIDE DEF s4
            <4>. QED  BY <3>d, <4>1, FieldsUpdate
        <3>. QED  BY <2>1, <2>3, <3>1
                  DEF AskMain, OpenSet, Goes, TypeOK, Inputs, Node, assessment, Question
    <2>. QED  BY <1>8, <2>2, <2>3
<1>9. CASE HandleSilence
    <2>1. Made("hint") \in Question  BY MadeIsQuestion DEF Kind
    <2>2. \E c \in Nat, q \in Question :
              state' = [Handled EXCEPT !.silence = c, !.question = q]
        <3>. DEFINE count == IF state.silence < SilenceLimit THEN state.silence + 1
                                                           ELSE state.silence
                    c == IF state.pending.type = "silence" THEN count ELSE Handled.silence
                    q == IF HintDue THEN Made("hint") ELSE Handled.question
        <3>1. state' = [Handled EXCEPT !.silence = c, !.question = q]
            BY <1>9 DEF HandleSilence
        <3>2. c \in Nat  BY HandledIsState DEF TypeOK, SessionState
        <3>3. q \in Question  BY <2>1, HandledIsState DEF SessionState
        <3>. HIDE DEF c, q
        <3>. QED  BY <3>1, <3>2, <3>3
    <2>3. state' \in SessionState  BY <2>2, HandledIsState DEF SessionState
    <2>. QED  BY <1>9, <2>3
              DEF HandleSilence, Goes, TypeOK, Inputs, Node, assessment
<1>10. CASE HandleTimeout
    BY <1>10, HandledIsState DEF HandleTimeout, Goes, TypeOK, Inputs, Node, assessment
<1>11. CASE FinalReport \/ ComposeUtterance
    BY <1>11 DEF FinalReport, ComposeUtterance, Goes, TypeOK, Inputs, Node, SessionState,
                 assessment
<1>12. CASE Finalize
    <2>1. state' \in SessionState
        BY <1>12, HandledIsState DEF Finalize, SessionState
    <2>. QED  BY <1>12, <2>1 DEF Finalize, Goes, TypeOK, Inputs, Node, assessment
<1>13. CASE Return
    <2>1. processed' \subseteq EventId
        BY <1>13 DEF Return, Remembered, TypeOK, Event, NoEvent
    <2>. QED  BY <1>13, <2>1 DEF Return, TypeOK, Inputs, assessment
<1>14. CASE Raise
    BY <1>14 DEF Raise, TypeOK, Inputs, assessment
<1>15. CASE UNCHANGED vars
    BY <1>15 DEF vars, TypeOK, Inputs
<1>. QED
    BY <1>1, <1>2, <1>3, <1>4, <1>5, <1>6, <1>7, <1>8, <1>9, <1>10, <1>11, <1>12, <1>13,
       <1>14, <1>15
    DEF Next, RunNode

\* The variables keep their types and inputs are there when they are read.
THEOREM TypeInvariance == Spec => []TypeInv
BY TypeInit, TypeNext, PTL DEF Spec

\* The variables keep their types, with any limits, modes and policies.
THEOREM TypeCorrect == Spec => []TypeOK
<1>1. TypeInv => TypeOK  BY DEF TypeInv
<1>. QED  BY <1>1, TypeInvariance, PTL

---------------------------------------------------------------------------
(* The interview implements InterviewOutline *)

\* A set is open; all sets that were opened are scored.
SetOpen == Len(evaluations) + 1 = state.asked_count
SetScored == Len(evaluations) = state.asked_count

\* The nodes that run while a set is open and the interview is not over.
Within == Node \ {"greet", "ask_main", "final_report", "finalize", "compose_utterance", "end"}

\* What is known of the sets at every node of the graph.
Phases ==
    /\ state.asked_count <= MaxQuestions
    /\ at = "greet" => SetScored /\ state.asked_count = 0
    /\ at = "ask_main" => SetScored /\ state.asked_count < MaxQuestions
    /\ at = "final_report" => SetOpen \/ (SetScored /\ state.asked_count = MaxQuestions)
    /\ at = "compose_utterance" => SetOpen \/ state.report
    /\ at \in Within => SetOpen
    /\ at = "complete_set" => current # <<>>
    /\ at \in DOMAIN KindOf => state.derived < MaxDerived

\* The report is made on the way to the end, and only there.
Ending ==
    /\ state.report => at \in {"finalize", "compose_utterance", "end"}
    /\ at \in {"finalize", "end"} => state.report
    /\ state.finished <=> state.report /\ at # "finalize"

OutlineInv == Phases /\ Ending

\* What most nodes leave differs in the event only.
LEMMA HandledKeeps ==
    ASSUME TypeOK
    PROVE  /\ Handled.question = state.question /\ Handled.main = state.main
           /\ Handled.asked_count = state.asked_count /\ Handled.derived = state.derived
           /\ Handled.report = state.report /\ Handled.finished = state.finished
           /\ Handled.challengeUsed = state.challengeUsed
BY DEF TypeOK, SessionState, Handled

\* The nodes, by what the invariant says of them.
LEMMA Nodes ==
    /\ DOMAIN KindOf \subseteq Within
    /\ {"wait_event", "validate_event", "record_candidate_answer", "evaluate_answer",
        "handle_off_topic", "complete_set", "handle_replay", "handle_silence",
        "handle_timeout"} \subseteq Within
    /\ DOMAIN KindOf \cap {"complete_set", "greet", "ask_main", "final_report", "finalize",
                           "compose_utterance", "end", "handle_off_topic"} = {}
BY Kinds DEF Within, Node

\* The first state is the first state of the outline.
LEMMA OutlineInit ==
    Init => OutlineInv /\ Outline!Init
<1>. SUFFICES ASSUME Init PROVE OutlineInv /\ Outline!Init  OBVIOUS
<1>1. /\ state.asked_count = 0 /\ state.derived = 0
      /\ state.report = FALSE /\ state.finished = FALSE
    BY DEF Init
<1>2. at = "greet" /\ evaluations = <<>> /\ at \notin Within /\ at \notin DOMAIN KindOf
    BY Nodes DEF Init, Within
<1>. QED  BY <1>1, <1>2, LimitsAssumption
          DEF OutlineInv, Phases, Ending, SetScored, Outline!Init

\* A step that keeps the counters of the sets and the report.
Keeps ==
    /\ state'.asked_count = state.asked_count /\ state'.derived = state.derived
    /\ state'.report = state.report /\ evaluations' = evaluations

\* A step that keeps them and stays where the same set is open.
LEMMA KeepsWithin ==
    ASSUME OutlineInv, Keeps, at \in Within, state'.finished = state.finished,
           at' \in Node \ {"greet", "ask_main", "finalize", "end"},
           at' = "complete_set" => current' # <<>>,
           at' \in DOMAIN KindOf => state.derived < MaxDerived
    PROVE  OutlineInv' /\ UNCHANGED Outline!vars
<1>1. SetOpen' = SetOpen /\ SetOpen
    BY DEF SetOpen, Keeps, OutlineInv, Phases
<1>2. ~state.report /\ ~state.finished
    BY DEF OutlineInv, Ending, Within
<1>3. Phases'
    BY <1>1 DEF Phases, OutlineInv, Keeps
<1>4. Ending'
    BY <1>2 DEF Ending, Keeps
<1>. QED  BY <1>3, <1>4 DEF OutlineInv, Keeps, Outline!vars

\* Every step keeps the invariant and is a step of the outline or none.
LEMMA OutlineNext ==
    ASSUME TypeInv, OutlineInv, [Next]_vars
    PROVE  OutlineInv' /\ [Outline!Next]_(Outline!vars)
<1>0. TypeOK /\ state \in SessionState /\ at \in Node /\ Len(evaluations) \in Nat
    BY DEF TypeInv, TypeOK
<1>a. /\ state.asked_count \in Nat /\ state.derived \in Nat
      /\ state.report \in BOOLEAN /\ state.finished \in BOOLEAN
    BY <1>0 DEF SessionState
<1>1. CASE Submit
    <2>1. CASE at = "wait_event"
        <3>1. Keeps /\ at' = "validate_event" /\ state'.finished = state.finished
            BY <1>1, <2>1, <1>0 DEF Submit, Keeps, assessment, SessionState
        <3>. QED  BY <2>1, <3>1, Nodes, Kinds, KeepsWithin DEF Within
    <2>2. CASE at # "wait_event"
        BY <1>1, <2>2 DEF Submit, assessment, OutlineInv, Phases, Ending, SetOpen, SetScored,
                          Outline!vars
    <2>. QED  BY <2>1, <2>2
<1>2. CASE ValidateEvent
    <2>1. Keeps /\ state'.finished = state.finished
        BY <1>2, <1>0 DEF ValidateEvent, Keeps, assessment, SessionState
    <2>2. at = "validate_event"
          /\ at' \in {"record_candidate_answer", "handle_replay", "final_report",
                     "handle_timeout", "handle_silence"}
        <3>1. state.pending \in Event  BY <1>2 DEF ValidateEvent, Goes, TypeInv, Inputs
        <3>2. EventRoute[Interpreted(state.pending).type] \in
                {"record_candidate_answer", "handle_replay", "final_report",
                 "handle_timeout", "handle_silence"}
            BY <3>1, InterpretedIsPlain, EventRouteGoes
        <3>. QED  BY <1>2, <3>2 DEF ValidateEvent, Goes
    <2>3. at' \in Node \ {"greet", "ask_main", "finalize", "end", "complete_set"}
          /\ at' \notin DOMAIN KindOf
        BY <2>2, Kinds DEF Node
    <2>. QED  BY <2>1, <2>2, <2>3, Nodes, KeepsWithin
<1>3. CASE RecordCandidateAnswer
    <2>1. /\ Keeps /\ state'.finished = state.finished
          /\ at = "record_candidate_answer" /\ at' = "evaluate_answer"
        BY <1>3, <1>0 DEF RecordCandidateAnswer, Goes, Keeps, assessment, SessionState
    <2>. QED  BY <2>1, Nodes, Kinds, KeepsWithin DEF Within
<1>4. CASE EvaluateAnswer
    <2>1. PICK q \in Quality : Goes("evaluate_answer", RouteQuality(q))
                               /\ current' = WithAttempt(q)
        BY <1>4 DEF EvaluateAnswer
    <2>2. Keeps /\ state'.finished = state.finished /\ at = "evaluate_answer"
        BY <1>4, <1>0 DEF EvaluateAnswer, Goes, Keeps, SessionState
    <2>3. q # "off_topic" => current' # <<>>
        <3>1. current \in Seq(Attempt)  BY <1>0 DEF TypeOK
        <3>2. q # "off_topic" => current' = Append(current, NewAttempt)
            BY <2>1 DEF WithAttempt
        <3>3. Len(Append(current, NewAttempt)) = Len(current) + 1 /\ Len(current) \in Nat
            BY <3>1
        <3>. QED  BY ONLY <3>2, <3>3, Len(<<>>) = 0
    <2>4. at' \in DOMAIN KindOf => state.derived < MaxDerived
        BY <2>1, <1>a, QualityRouteGoes, Nodes, LimitsAssumption DEF Goes, LimitReached
    <2>5. /\ at' \in Node \ {"greet", "ask_main", "finalize", "end"}
          /\ at' = "complete_set" => q # "off_topic"
        BY <2>1, QualityRouteGoes, Nodes DEF Goes, Within
    <2>. QED  BY <2>2, <2>3, <2>4, <2>5, Nodes, KeepsWithin
<1>5. CASE HandleOffTopic \/ HandleReplay
    <2>1. /\ Keeps /\ state'.finished = state.finished
          /\ at \in {"handle_off_topic", "handle_replay"} /\ at' = "compose_utterance"
        BY <1>5, <1>0, HandledKeeps
        DEF HandleOffTopic, HandleReplay, Goes, Keeps, assessment
    <2>. QED  BY <2>1, Nodes, Kinds, KeepsWithin DEF Node
<1>6. CASE AskDerived
    <2>1. PICK n \in DOMAIN KindOf :
              /\ Goes(n, "compose_utterance")
              /\ state' = [Handled EXCEPT !.question = Made(KindOf[n]), !.derived = @ + 1,
                            !.challengeUsed = IF n = "ask_challenge" THEN TRUE ELSE @]
              /\ UNCHANGED <<answers, assessment>>
        BY <1>6 DEF AskDerived
    <2>2. /\ state'.asked_count = state.asked_count /\ state'.derived = state.derived + 1
          /\ state'.report = state.report /\ state'.finished = state.finished
          /\ evaluations' = evaluations /\ at = n /\ at' = "compose_utterance"
        BY <2>1, <1>0, HandledKeeps, HandledIsState DEF Goes, assessment, SessionState
    <2>3. SetOpen /\ state.derived < MaxDerived /\ ~state.report /\ ~state.finished
        BY <2>2, Nodes DEF OutlineInv, Phases, Ending, Within
    <2>4. OutlineInv'
        BY <2>2, <2>3, Nodes DEF OutlineInv, Phases, Ending, SetOpen, Within
    <2>5. Outline!AskFollowUp
        BY <2>2, <2>3, <1>a, <1>0 DEF Outline!AskFollowUp, SetOpen
    <2>. QED  BY <2>4, <2>5 DEF Outline!Next
<1>7. CASE CompleteSet
    <2>1. /\ at = "complete_set" /\ at' = AfterCompleteSet
          /\ current # <<>> /\ SetOpen /\ ~state.report /\ ~state.finished
        BY <1>7, Nodes DEF CompleteSet, Goes, OutlineInv, Phases, Ending, Within
    <2>2. Len(evaluations') = Len(evaluations) + 1
        BY <1>7, <2>1, <1>0 DEF CompleteSet, TypeOK
    <2>3. /\ state'.asked_count = state.asked_count /\ state'.derived = 0
          /\ state'.report = state.report /\ state'.finished = state.finished
        BY <1>7, <1>0, HandledKeeps, HandledIsState DEF CompleteSet, SessionState
    <2>4. /\ at' \in {"ask_main", "final_report"} /\ SetScored'
          /\ at' = "ask_main" => state.asked_count < MaxQuestions
          /\ at' = "final_report" => state.asked_count = MaxQuestions
          /\ state.asked_count <= MaxQuestions
        BY <2>1, <2>2, <2>3, <1>a, <1>0, LimitsAssumption
        DEF AfterCompleteSet, SetOpen, SetScored, OutlineInv, Phases
    <2>5. OutlineInv'
        BY <2>1, <2>3, <2>4, Nodes DEF OutlineInv, Phases, Ending, Within
    <2>6. Outline!ScoreSet
        BY <2>1, <2>2, <2>3, <2>4, <1>a, <1>0 DEF Outline!ScoreSet, SetOpen, SetScored
    <2>. QED  BY <2>5, <2>6 DEF Outline!Next
<1>8. CASE Greet \/ AskMain
    <2>1. /\ at \in {"greet", "ask_main"} /\ at' = "compose_utterance"
          /\ evaluations' = evaluations
        BY <1>8 DEF Greet, AskMain, OpenSet, Goes, assessment
    <2>2. /\ SetScored /\ state.asked_count < MaxQuestions
          /\ ~state.report /\ ~state.finished
        BY <2>1, LimitsAssumption, <1>a DEF OutlineInv, Phases, Ending
    <2>3. /\ state'.asked_count = state.asked_count + 1 /\ state'.derived = state.derived
          /\ state'.report = state.report /\ state'.finished = state.finished
        <3>1. CASE Greet
            BY <3>1, <1>0 DEF Greet, OpenSet, Goes, SessionState, OutlineInv, Phases
        <3>2. CASE AskMain
            BY <3>2, <1>0 DEF AskMain, SessionState
        <3>. QED  BY <1>8, <3>1, <3>2
    <2>4. OutlineInv'
        BY <2>1, <2>2, <2>3, <1>a, <1>0, LimitsAssumption, Nodes
        DEF OutlineInv, Phases, Ending, SetOpen, SetScored, Within
    <2>5. Outline!OpenSet
        BY <2>1, <2>2, <2>3 DEF Outline!OpenSet, SetScored
    <2>. QED  BY <2>4, <2>5 DEF Outline!Next
<1>9. CASE HandleSilence
    <2>1. /\ Keeps /\ state'.finished = state.finished
        BY <1>9, <1>0, HandledKeeps, HandledIsState
        DEF HandleSilence, Keeps, assessment, SessionState
    <2>2. at = "handle_silence"
          /\ at' \in {"wait_event", "handle_timeout", "compose_utterance"}
        BY <1>9 DEF HandleSilence, Goes
    <2>. QED  BY <2>1, <2>2, Nodes, Kinds, KeepsWithin DEF Node
<1>10. CASE HandleTimeout
    <2>1. /\ Keeps /\ state'.finished = state.finished /\ at = "handle_timeout"
          /\ at' \in {"compose_utterance", "final_report"}
        BY <1>10, <1>0, HandledKeeps DEF HandleTimeout, Goes, Keeps, assessment
    <2>. QED  BY <2>1, Nodes, Kinds, KeepsWithin DEF Node
<1>11. CASE FinalReport
    <2>1. /\ at = "final_report" /\ at' = "finalize" /\ evaluations' = evaluations
          /\ state'.asked_count = state.asked_count /\ state'.derived = state.derived
          /\ state'.report = TRUE /\ state'.finished = state.finished
        BY <1>11, <1>0 DEF FinalReport, Goes, assessment, SessionState
    <2>2. /\ ~state.report /\ ~state.finished /\ state.asked_count <= MaxQuestions
          /\ SetOpen \/ (SetScored /\ state.asked_count = MaxQuestions)
        BY <2>1 DEF OutlineInv, Phases, Ending
    <2>3. OutlineInv'
        BY <2>1, <2>2, Nodes DEF OutlineInv, Phases, Ending, Within
    <2>4. Outline!End
        BY <2>1, <2>2, <1>a, <1>0 DEF Outline!End, SetOpen, SetScored
    <2>. QED  BY <2>3, <2>4 DEF Outline!Next
<1>12. CASE Finalize
    <2>1. /\ Keeps /\ state'.finished = TRUE
          /\ at = "finalize" /\ at' = "compose_utterance"
        BY <1>12, <1>0, HandledKeeps, HandledIsState
        DEF Finalize, Goes, Keeps, assessment, SessionState
    <2>2. state.report /\ state.asked_count <= MaxQuestions
        BY <2>1 DEF OutlineInv, Phases, Ending
    <2>. QED  BY <2>1, <2>2, Nodes
              DEF OutlineInv, Phases, Ending, Within, Keeps, Outline!vars
<1>13. CASE ComposeUtterance
    <2>1. /\ Keeps /\ state'.finished = state.finished /\ at = "compose_utterance"
          /\ at' = IF state.finished THEN "end" ELSE "wait_event"
        BY <1>13, <1>0 DEF ComposeUtterance, Goes, Keeps, assessment, SessionState
    <2>2. OutlineInv'
        <3>1. CASE state.finished
            BY <2>1, <3>1, Nodes DEF OutlineInv, Phases, Ending, Within, Keeps
        <3>2. CASE ~state.finished
            <4>1. ~state.report /\ SetOpen /\ at' = "wait_event"
                BY <2>1, <3>2 DEF OutlineInv, Phases, Ending
            <4>2. at' \notin DOMAIN KindOf  BY <4>1, Kinds
            <4>. QED  BY <2>1, <3>2, <4>1, <4>2
                      DEF OutlineInv, Phases, Ending, Keeps, SetOpen
        <3>. QED  BY <3>1, <3>2
    <2>. QED  BY <2>1, <2>2 DEF Keeps, Outline!vars
<1>14. CASE Return \/ Raise \/ UNCHANGED vars
    BY <1>14 DEF Return, Raise, vars, assessment, OutlineInv, Phases, Ending, SetOpen,
                 SetScored, Outline!vars
<1>. QED
    BY <1>1, <1>2, <1>3, <1>4, <1>5, <1>6, <1>7, <1>8, <1>9, <1>10, <1>11, <1>12, <1>13,
       <1>14
    DEF Next, RunNode

\* Whatever is answered, repeated, silent or raised, the interview is a sequence
\* of question sets, each scored before the next one opens, with limited
\* follow-ups, and nothing changes after its report.
THEOREM InterviewRefinement == Spec => OutlineSpec
<1>. QED  BY TypeInvariance, OutlineInit, OutlineNext, PTL DEF Spec, OutlineSpec, Outline!Spec

---------------------------------------------------------------------------
(* The attempts scored together belong to one set *)

\* Questions lead to the question their set opened with, and the set that is open
\* is none of those that were scored.
SetsApart ==
    /\ at \in {"greet", "ask_main"} => current = <<>>
    /\ at # "greet" => state.question.main = state.main
    /\ state.main <= lastId
    /\ \A s \in DOMAIN evaluations :
          /\ evaluations[s].main <= lastId
          /\ SetOpen => evaluations[s].main # state.main

SetsInv == SetsDoNotMix /\ SetsApart

\* The first state has no sets.
LEMMA SetsInit ==
    Init => SetsInv
BY DEF Init, SetsInv, SetsDoNotMix, SetsApart

\* The sets that were scored are named by questions.
LEMMA ScoredSets ==
    ASSUME TypeOK
    PROVE  /\ \A s \in DOMAIN evaluations : evaluations[s].main \in Nat
           /\ state.main \in Nat /\ state \in SessionState
<1>1. \A s \in DOMAIN evaluations : evaluations[s] \in Evaluation  BY DEF TypeOK
<1>2. \A e \in Evaluation : e.main \in Nat  BY DEF Evaluation
<1>3. state.main \in Nat /\ state \in SessionState  BY DEF TypeOK, SessionState
<1>. QED  BY <1>1, <1>2, <1>3

\* A step that asks no main question and judges and scores nothing keeps the sets
\* apart.
LEMMA SetsKept ==
    ASSUME SetsInv, at' \notin {"greet", "ask_main"} \/ at' = at,
           at # "greet", state'.question.main = state.question.main,
           state'.main = state.main, state'.asked_count = state.asked_count,
           UNCHANGED <<current, evaluations>>, lastId \in Nat, lastId' \in Nat,
           lastId <= lastId', TypeOK
    PROVE  SetsInv'
<1>1. /\ \A s \in DOMAIN evaluations : evaluations[s].main \in Nat
      /\ state.main \in Nat
    BY ScoredSets
<1>2. SetsDoNotMix'  BY DEF SetsInv, SetsDoNotMix
<1>3. SetOpen' = SetOpen  BY DEF SetOpen
<1>4. SetsApart'  BY <1>1, <1>3 DEF SetsInv, SetsApart
<1>. QED  BY <1>2, <1>4 DEF SetsInv

\* Every step keeps the sets apart.
LEMMA SetsNext ==
    ASSUME TypeInv, OutlineInv, SetsInv, [Next]_vars
    PROVE  SetsInv'
<1>0. TypeOK /\ state \in SessionState /\ at \in Node /\ lastId \in Nat
    BY DEF TypeInv, TypeOK
<1>1. CASE Submit
    <2>1. CASE at = "wait_event"
        BY <1>1, <2>1, <1>0, SetsKept DEF Submit, assessment, SessionState
    <2>2. CASE at # "wait_event"
        BY <1>1, <2>2 DEF Submit, assessment, SetsInv, SetsDoNotMix, SetsApart, SetOpen
    <2>. QED  BY <2>1, <2>2
<1>2. CASE ValidateEvent
    <2>1. at = "validate_event" /\ at' \notin {"greet", "ask_main"}
        <3>1. state.pending \in Event  BY <1>2 DEF ValidateEvent, Goes, TypeInv, Inputs
        <3>. QED  BY <1>2, <3>1, InterpretedIsPlain, EventRouteGoes DEF ValidateEvent, Goes
    <2>. QED  BY <1>2, <2>1, <1>0, SetsKept DEF ValidateEvent, assessment, SessionState
<1>3. CASE RecordCandidateAnswer \/ FinalReport \/ ComposeUtterance
    <2>1. /\ at # "greet" /\ at' \notin {"greet", "ask_main"}
          /\ UNCHANGED <<current, evaluations>> /\ lastId' = lastId
        BY <1>3 DEF RecordCandidateAnswer, FinalReport, ComposeUtterance, Goes, assessment
    <2>2. /\ state'.question = state.question /\ state'.main = state.main
          /\ state'.asked_count = state.asked_count
        <3>1. CASE RecordCandidateAnswer
            BY <3>1, <1>0 DEF RecordCandidateAnswer, SessionState
        <3>2. CASE FinalReport
            BY <3>2, <1>0 DEF FinalReport, SessionState
        <3>3. CASE ComposeUtterance
            BY <3>3, <1>0 DEF ComposeUtterance, SessionState
        <3>. QED  BY <1>3, <3>1, <3>2, <3>3
    <2>. QED  BY <2>1, <2>2, <1>0, SetsKept
<1>4. CASE EvaluateAnswer
    <2>1. PICK q \in Quality : Goes("evaluate_answer", RouteQuality(q))
                               /\ current' = WithAttempt(q)
        BY <1>4 DEF EvaluateAnswer
    <2>2. /\ at = "evaluate_answer" /\ at' \notin {"greet", "ask_main"}
          /\ evaluations' = evaluations /\ lastId' = lastId
          /\ state' = state
        BY <1>4, <2>1, QualityRouteGoes, Kinds DEF EvaluateAnswer, Goes
    <2>3. /\ state'.question = state.question /\ state'.main = state.main
          /\ state'.asked_count = state.asked_count
        BY <2>2, <1>0 DEF SessionState
    <2>4. \A i \in DOMAIN current' : current'[i].question.main = state.main
        <3>1. CASE q = "off_topic"
            BY <2>1, <3>1 DEF WithAttempt, SetsInv, SetsDoNotMix
        <3>2. CASE q # "off_topic"
            <4>1. current' = Append(current, NewAttempt) /\ current \in Seq(Attempt)
                BY <2>1, <3>2, <1>0 DEF WithAttempt, TypeOK
            <4>2. NewAttempt.question.main = state.main
                BY <2>2 DEF NewAttempt, SetsInv, SetsApart
            <4>3. \A i \in DOMAIN current : current[i].question.main = state.main
                BY DEF SetsInv, SetsDoNotMix
            <4>. QED  BY <4>1, <4>2, <4>3
        <3>. QED  BY <3>1, <3>2
    <2>5. SetsDoNotMix'
        BY <2>2, <2>3, <2>4 DEF SetsInv, SetsDoNotMix
    <2>6. SetsApart'
        BY <2>2, <2>3 DEF SetsInv, SetsApart, SetOpen
    <2>. QED  BY <2>5, <2>6 DEF SetsInv
<1>5. CASE HandleOffTopic \/ HandleReplay \/ HandleTimeout
    BY <1>5, <1>0, HandledKeeps, SetsKept
    DEF HandleOffTopic, HandleReplay, HandleTimeout, Goes, assessment
<1>6. CASE AskDerived
    <2>1. PICK n \in DOMAIN KindOf :
              /\ Goes(n, "compose_utterance")
              /\ state' = [Handled EXCEPT !.question = Made(KindOf[n]), !.derived = @ + 1,
                            !.challengeUsed = IF n = "ask_challenge" THEN TRUE ELSE @]
              /\ lastId' = Made(KindOf[n]).id
              /\ UNCHANGED <<answers, assessment>>
        BY <1>6 DEF AskDerived
    <2>2. /\ Made(KindOf[n]).main = state.question.main /\ lastId' = lastId + 1
        BY <2>1 DEF Made
    <2>3. /\ state'.question = Made(KindOf[n]) /\ state'.main = state.main
          /\ state'.asked_count = state.asked_count
        BY <2>1, <1>0, HandledKeeps, HandledIsState DEF SessionState
    <2>4. at # "greet" /\ at' = "compose_utterance"  BY <2>1, Nodes DEF Goes
    <2>. QED  BY <2>1, <2>2, <2>3, <2>4, <1>0, SetsKept DEF assessment
<1>7. CASE CompleteSet
    <2>1. /\ at = "complete_set" /\ at' # "greet" /\ current # <<>> /\ SetOpen
          /\ lastId' = lastId
        BY <1>7, Nodes DEF CompleteSet, Goes, AfterCompleteSet, OutlineInv, Phases
    <2>. DEFINE e == [main |-> state.main, about |-> MainAttempt.question,
                      attempts |-> current]
    <2>2. /\ evaluations' = Append(evaluations, e) /\ current' = <<>>
          /\ evaluations \in Seq(Evaluation)
        BY <1>7, <2>1, <1>0 DEF CompleteSet, TypeOK
    <2>3. /\ state'.question = state.question /\ state'.main = state.main
          /\ state'.asked_count = state.asked_count
        BY <1>7, <1>0, HandledKeeps, HandledIsState DEF CompleteSet, SessionState
    <2>4. ~SetOpen'
        BY <2>1, <2>2, <2>3 DEF SetOpen
    <2>5. /\ e.main = state.main /\ e.attempts = current
          /\ \A i \in DOMAIN current : current[i].question.main = state.main
        BY DEF SetsInv, SetsDoNotMix
    <2>6. state.main <= lastId
        BY <2>1 DEF SetsInv, SetsApart
    <2>. HIDE DEF e
    <2>7. SetsDoNotMix'
        BY <2>1, <2>2, <2>3, <2>5 DEF SetsInv, SetsDoNotMix, SetsApart
    <2>8. SetsApart'
        BY <2>1, <2>2, <2>3, <2>4, <2>5, <2>6 DEF SetsInv, SetsApart
    <2>. QED  BY <2>7, <2>8 DEF SetsInv
<1>8. CASE Greet \/ AskMain
    <2>1. /\ current = <<>> /\ UNCHANGED <<current, evaluations>>
          /\ lastId' = lastId + 1 /\ at' = "compose_utterance"
        BY <1>8 DEF Greet, AskMain, OpenSet, Goes, NewMain, assessment, SetsInv, SetsApart
    <2>2. state'.question.main = lastId + 1 /\ state'.main = lastId + 1
        <3>1. CASE Greet
            BY <3>1, <1>0 DEF Greet, NewMain, SessionState
        <3>2. CASE AskMain
            <4>1. state'.question = NewMain /\ state'.main = NewMain.id
                BY <3>2, <1>0 DEF AskMain, SessionState
            <4>. QED  BY <4>1 DEF NewMain
        <3>. QED  BY <1>8, <3>1, <3>2
    <2>3. \A s \in DOMAIN evaluations : /\ evaluations[s].main \in Nat
                                        /\ evaluations[s].main <= lastId
        BY <1>0, ScoredSets DEF SetsInv, SetsApart
    <2>4. SetsDoNotMix'  BY <2>1 DEF SetsInv, SetsDoNotMix
    <2>5. SetsApart'  BY <2>1, <2>2, <2>3, <1>0 DEF SetsApart
    <2>. QED  BY <2>4, <2>5 DEF SetsInv
<1>9. CASE HandleSilence
    <2>1. /\ at = "handle_silence" /\ at' \notin {"greet", "ask_main"}
          /\ UNCHANGED <<current, evaluations>>
          /\ lastId' = lastId \/ lastId' = lastId + 1
        BY <1>9 DEF HandleSilence, Goes, assessment
    <2>2. /\ state'.question.main = state.question.main /\ state'.main = state.main
          /\ state'.asked_count = state.asked_count
        BY <1>9, <1>0, HandledKeeps, HandledIsState DEF HandleSilence, Made, SessionState
    <2>. QED  BY <2>1, <2>2, <1>0, SetsKept
<1>10. CASE Finalize
    BY <1>10, <1>0, HandledKeeps, HandledIsState, SetsKept
    DEF Finalize, Goes, assessment, SessionState
<1>11. CASE Return \/ Raise \/ UNCHANGED vars
    BY <1>11 DEF Return, Raise, vars, assessment, SetsInv, SetsDoNotMix, SetsApart, SetOpen
<1>. QED
    BY <1>1, <1>2, <1>3, <1>4, <1>5, <1>6, <1>7, <1>8, <1>9, <1>10, <1>11
    DEF Next, RunNode

\* What is scored together was answered in one set, and no set is scored twice,
\* whatever calls raised in between.
THEOREM SetsDoNotMixHolds == Spec => []SetsDoNotMix
<1>1. Spec => [](OutlineInv)
    BY TypeInvariance, OutlineInit, OutlineNext, PTL DEF Spec
<1>2. SetsInv => SetsDoNotMix  BY DEF SetsInv
<1>. QED  BY <1>1, <1>2, TypeInvariance, SetsInit, SetsNext, PTL DEF Spec

---------------------------------------------------------------------------
(* The limits of a set *)

\* The questions of set m among those asked.
AskedOf(a, m) == {j \in DOMAIN a : a[j].main = m}

\* A question more counts for its own set.
LEMMA OneMoreAsked ==
    ASSUME NEW a \in Seq(Question), NEW q \in Question, NEW m
    PROVE  /\ Cardinality(AskedOf(a, m)) \in Nat
           /\ Cardinality(AskedOf(Append(a, q), m)) =
                 IF q.main = m THEN Cardinality(AskedOf(a, m)) + 1
                               ELSE Cardinality(AskedOf(a, m))
<1>1. /\ DOMAIN a = 1..Len(a) /\ Len(a) \in Nat
      /\ DOMAIN Append(a, q) = 1..(Len(a) + 1)
      /\ \A j \in 1..Len(a) : Append(a, q)[j] = a[j]
      /\ Append(a, q)[Len(a) + 1] = q
    OBVIOUS
<1>2. IsFiniteSet(AskedOf(a, m)) /\ Cardinality(AskedOf(a, m)) \in Nat
    <2>1. IsFiniteSet(1..Len(a))  BY <1>1, FS_Interval
    <2>2. AskedOf(a, m) \in SUBSET (1..Len(a))  BY <1>1 DEF AskedOf
    <2>. QED  BY <2>1, <2>2, FS_Subset, FS_CardinalityType
<1>3. CASE q.main = m
    <2>1. AskedOf(Append(a, q), m) = AskedOf(a, m) \cup {Len(a) + 1}
        BY <1>1, <1>3 DEF AskedOf
    <2>2. Len(a) + 1 \notin AskedOf(a, m)  BY <1>1 DEF AskedOf
    <2>. QED  BY <1>2, <1>3, <2>1, <2>2, FS_AddElement
<1>4. CASE q.main # m
    <2>1. AskedOf(Append(a, q), m) = AskedOf(a, m)
        BY <1>1, <1>4 DEF AskedOf
    <2>. QED  BY <1>2, <1>4, <2>1
<1>. QED  BY <1>3, <1>4

\* No set has a second challenge.
OneChallenge ==
    \A i, j \in DOMAIN asked :
        /\ asked[i].kind = "challenge" /\ asked[j].kind = "challenge"
        /\ asked[i].main = asked[j].main
        => i = j

\* The counters of the open set bound what was asked in it.
Counted ==
    /\ \A m \in Nat : Cardinality(AskedOf(asked, m)) <= MaxDerived + 1
    /\ \A j \in DOMAIN asked : asked[j].main <= lastId
    /\ SetOpen => Cardinality(AskedOf(asked, state.main)) <= state.derived + 1
    /\ SetOpen /\ ~state.challengeUsed =>
          \A j \in DOMAIN asked :
              asked[j].kind = "challenge" => asked[j].main # state.main
    /\ at = "ask_challenge" => ~state.challengeUsed

LimitsInv == OneChallenge /\ Counted

\* The questions that were asked are questions.
LEMMA AskedQuestions ==
    ASSUME TypeOK
    PROVE  /\ asked \in Seq(Question) /\ lastId \in Nat
           /\ \A j \in DOMAIN asked : asked[j].main \in Nat
           /\ state.main \in Nat /\ state.derived \in Nat
           /\ state.challengeUsed \in BOOLEAN
<1>1. \A j \in DOMAIN asked : asked[j] \in Question  BY DEF TypeOK
<1>2. \A q \in Question : q.main \in Nat  BY DEF Question
<1>. QED  BY <1>1, <1>2 DEF TypeOK, SessionState

\* At first nothing was asked.
LEMMA LimitsInit ==
    Init => LimitsInv
<1>. SUFFICES ASSUME Init PROVE LimitsInv  OBVIOUS
<1>1. /\ asked = <<>> /\ evaluations = <<>> /\ state.asked_count = 0 /\ at = "greet"
    BY DEF Init
<1>2. \A m : AskedOf(asked, m) = {}  BY <1>1 DEF AskedOf
<1>3. \A m : Cardinality(AskedOf(asked, m)) = 0  BY <1>2, FS_EmptySet
<1>. QED  BY <1>1, <1>3, LimitsAssumption DEF LimitsInv, OneChallenge, Counted, SetOpen

\* A step that asks nothing and keeps the counters keeps the limits.
LEMMA LimitsKept ==
    ASSUME TypeOK, LimitsInv, UNCHANGED asked, lastId' \in Nat, lastId <= lastId',
           state'.main = state.main, state'.derived = state.derived,
           state'.challengeUsed = state.challengeUsed,
           state'.asked_count = state.asked_count, UNCHANGED evaluations,
           at' # "ask_challenge" \/ at' = at
    PROVE  LimitsInv'
<1>1. SetOpen' = SetOpen  BY DEF SetOpen
<1>2. OneChallenge'  BY DEF LimitsInv, OneChallenge
<1>3. \A j \in DOMAIN asked : asked[j].main <= lastId'
    BY AskedQuestions DEF LimitsInv, Counted
<1>4. Counted'  BY <1>1, <1>3 DEF LimitsInv, Counted, AskedOf
<1>. QED  BY <1>2, <1>4 DEF LimitsInv

\* Every step keeps the limits.
LEMMA LimitsNext ==
    ASSUME TypeInv, OutlineInv, SetsInv, LimitsInv, [Next]_vars
    PROVE  LimitsInv'
<1>0. TypeOK /\ state \in SessionState /\ lastId \in Nat /\ asked \in Seq(Question)
    BY DEF TypeInv, TypeOK
<1>1. CASE Submit \/ ValidateEvent \/ RecordCandidateAnswer
    <2>1. at' # "ask_challenge" \/ at' = at
        <3>1. CASE ValidateEvent
            <4>1. state.pending \in Event
                BY <3>1 DEF ValidateEvent, Goes, TypeInv, Inputs
            <4>. QED  BY <3>1, <4>1, InterpretedIsPlain, EventRouteGoes
                      DEF ValidateEvent, Goes, assessment
        <3>. QED  BY <1>1, <3>1 DEF Submit, RecordCandidateAnswer, Goes, assessment
    <2>2. UNCHANGED <<asked, lastId, evaluations>>
        BY <1>1 DEF Submit, ValidateEvent, RecordCandidateAnswer, assessment
    <2>3. /\ state'.main = state.main /\ state'.derived = state.derived
          /\ state'.challengeUsed = state.challengeUsed
          /\ state'.asked_count = state.asked_count
        <3>1. CASE Submit  BY <3>1, <1>0 DEF Submit, SessionState
        <3>2. CASE ValidateEvent  BY <3>2, <1>0 DEF ValidateEvent, SessionState
        <3>3. CASE RecordCandidateAnswer
            BY <3>3, <1>0 DEF RecordCandidateAnswer, SessionState
        <3>. QED  BY <1>1, <3>1, <3>2, <3>3
    <2>. QED  BY <2>1, <2>2, <2>3, <1>0, LimitsKept
<1>2. CASE EvaluateAnswer
    <2>1. PICK q \in Quality : Goes("evaluate_answer", RouteQuality(q))
        BY <1>2 DEF EvaluateAnswer
    <2>2. UNCHANGED <<asked, lastId, evaluations>>  BY <1>2 DEF EvaluateAnswer
    <2>3. /\ state'.main = state.main /\ state'.derived = state.derived
          /\ state'.challengeUsed = state.challengeUsed
          /\ state'.asked_count = state.asked_count
        BY <1>2, <1>0 DEF EvaluateAnswer, SessionState
    <2>4. CASE at' # "ask_challenge"
        BY <2>2, <2>3, <2>4, <1>0, LimitsKept
    <2>5. CASE at' = "ask_challenge"
        <3>1. ~state.challengeUsed
            BY <2>1, <2>5 DEF Goes, RouteQuality, QualityRoute, LimitReached, Quality
        <3>. QED  BY <2>2, <2>3, <3>1 DEF LimitsInv, OneChallenge, Counted, SetOpen, AskedOf
    <2>. QED  BY <2>4, <2>5
<1>3. CASE HandleOffTopic \/ HandleReplay \/ HandleTimeout
    <2>1. /\ UNCHANGED <<asked, lastId, evaluations>> /\ at' # "ask_challenge"
          /\ state' = Handled
        BY <1>3 DEF HandleOffTopic, HandleReplay, HandleTimeout, Goes, assessment
    <2>. QED  BY <2>1, <1>0, HandledKeeps, LimitsKept
<1>4. CASE AskDerived
    <2>1. PICK n \in DOMAIN KindOf :
              /\ Goes(n, "compose_utterance")
              /\ state' = [Handled EXCEPT !.question = Made(KindOf[n]), !.derived = @ + 1,
                            !.challengeUsed = IF n = "ask_challenge" THEN TRUE ELSE @]
              /\ asked' = Append(asked, Made(KindOf[n])) /\ lastId' = Made(KindOf[n]).id
              /\ UNCHANGED <<answers, assessment>>
        BY <1>4 DEF AskDerived
    <2>. DEFINE q == Made(KindOf[n])
    <2>2. /\ at = n /\ SetOpen /\ state.derived < MaxDerived
          /\ n = "ask_challenge" => ~state.challengeUsed
        BY <2>1, Nodes DEF Goes, OutlineInv, Phases, LimitsInv, Counted
    <2>3. /\ q \in Question /\ q.main = state.main /\ lastId' = lastId + 1
          /\ q.kind = KindOf[n]
        BY <2>1, <2>2, <1>0, Kinds, MadeIsQuestion DEF Made, SetsInv, SetsApart
    <2>4. KindOf[n] = "challenge" <=> n = "ask_challenge"
        BY DEF KindOf
    <2>5. /\ state'.main = state.main /\ state'.derived = state.derived + 1
          /\ state'.challengeUsed = IF n = "ask_challenge" THEN TRUE ELSE state.challengeUsed
          /\ state'.asked_count = state.asked_count /\ evaluations' = evaluations
        BY <2>1, <1>0, HandledKeeps, HandledIsState DEF SessionState, assessment
    <2>6. SetOpen' = SetOpen  BY <2>5 DEF SetOpen
    <2>. HIDE DEF q
    <2>7. asked' = Append(asked, q) /\ at' = "compose_utterance"
        BY <2>1 DEF q, Goes
    <2>8. OneChallenge'
        BY <2>2, <2>3, <2>4, <2>7, <1>0, AskedQuestions
        DEF LimitsInv, OneChallenge, Counted
    <2>9. \A m \in Nat : Cardinality(AskedOf(asked', m)) <= MaxDerived + 1
        <3>. SUFFICES ASSUME NEW m \in Nat
                      PROVE  Cardinality(AskedOf(asked', m)) <= MaxDerived + 1
            OBVIOUS
        <3>1. CASE m = state.main
            <4>1. Cardinality(AskedOf(asked', m)) = Cardinality(AskedOf(asked, m)) + 1
                BY <2>3, <2>7, <3>1, <1>0, OneMoreAsked
            <4>2. /\ Cardinality(AskedOf(asked, m)) <= state.derived + 1
                  /\ Cardinality(AskedOf(asked, m)) \in Nat
                BY <2>2, <2>3, <3>1, <1>0, OneMoreAsked DEF LimitsInv, Counted
            <4>. QED  BY <4>1, <4>2, <2>2, <1>0, LimitsAssumption, AskedQuestions
        <3>2. CASE m # state.main
            BY <2>3, <2>7, <3>2, <1>0, OneMoreAsked DEF LimitsInv, Counted
        <3>. QED  BY <3>1, <3>2
    <2>10. Cardinality(AskedOf(asked', state'.main)) <= state'.derived + 1
        <3>1. Cardinality(AskedOf(asked', state.main))
                  = Cardinality(AskedOf(asked, state.main)) + 1
            BY <2>3, <2>7, <1>0, OneMoreAsked
        <3>2. /\ Cardinality(AskedOf(asked, state.main)) <= state.derived + 1
              /\ Cardinality(AskedOf(asked, state.main)) \in Nat
            BY <2>2, <2>3, <1>0, OneMoreAsked DEF LimitsInv, Counted
        <3>. QED  BY <3>1, <3>2, <2>5, <1>0, AskedQuestions
    <2>11. \A j \in DOMAIN asked' : asked'[j].main <= lastId'
        <3>1. state.main <= lastId  BY DEF SetsInv, SetsApart
        <3>. QED  BY <3>1, <2>3, <2>7, <1>0, AskedQuestions DEF LimitsInv, Counted
    <2>12. ~state'.challengeUsed =>
              \A j \in DOMAIN asked' :
                  asked'[j].kind = "challenge" => asked'[j].main # state'.main
        BY <2>2, <2>3, <2>4, <2>5, <2>7, <1>0 DEF LimitsInv, Counted
    <2>. QED  BY <2>7, <2>8, <2>9, <2>10, <2>11, <2>12 DEF LimitsInv, Counted, AskedOf
<1>5. CASE CompleteSet
    <2>1. /\ at = "complete_set" /\ at' # "ask_challenge" /\ current # <<>> /\ SetOpen
          /\ UNCHANGED <<asked, lastId>>
        BY <1>5, Nodes DEF CompleteSet, Goes, AfterCompleteSet, OutlineInv, Phases
    <2>2. Len(evaluations') = Len(evaluations) + 1 /\ Len(evaluations) \in Nat
        BY <1>5, <2>1, <1>0 DEF CompleteSet, TypeOK
    <2>3. state'.asked_count = state.asked_count
        BY <1>5, <1>0, HandledKeeps, HandledIsState DEF CompleteSet, SessionState
    <2>4. ~SetOpen'  BY <2>1, <2>2, <2>3 DEF SetOpen
    <2>. QED  BY <2>1, <2>4 DEF LimitsInv, OneChallenge, Counted, AskedOf
<1>6. CASE Greet \/ AskMain
    <2>1. /\ asked' = Append(asked, NewMain) /\ lastId' = lastId + 1
          /\ at' = "compose_utterance"
        BY <1>6 DEF Greet, AskMain, OpenSet, Goes, NewMain
    <2>2. NewMain \in Question /\ NewMain.main = lastId + 1 /\ NewMain.kind = "main"
        BY <1>0, MadeIsQuestion DEF NewMain
    <2>3. state'.main = lastId + 1 /\ state'.derived \in Nat
        <3>1. CASE Greet
            BY <3>1, <1>0 DEF Greet, NewMain, SessionState
        <3>2. CASE AskMain
            <4>1. state'.main = NewMain.id /\ state'.derived = state.derived
                BY <3>2, <1>0 DEF AskMain, SessionState
            <4>. QED  BY <4>1, <1>0, AskedQuestions DEF NewMain
        <3>. QED  BY <1>6, <3>1, <3>2
    <2>4. \A j \in DOMAIN asked : asked[j].main \in Nat /\ asked[j].main <= lastId
        BY <1>0, AskedQuestions DEF LimitsInv, Counted
    <2>5. Cardinality(AskedOf(asked, lastId + 1)) = 0
        <3>1. AskedOf(asked, lastId + 1) = {}  BY <2>4, <1>0 DEF AskedOf
        <3>. QED  BY <3>1, FS_EmptySet
    <2>6. Cardinality(AskedOf(asked', lastId + 1)) = 1
        BY <2>1, <2>2, <2>5, <1>0, OneMoreAsked
    <2>7. \A m \in Nat : Cardinality(AskedOf(asked', m)) <= MaxDerived + 1
        <3>. SUFFICES ASSUME NEW m \in Nat
                      PROVE  Cardinality(AskedOf(asked', m)) <= MaxDerived + 1
            OBVIOUS
        <3>1. CASE m = lastId + 1
            BY <2>6, <3>1, LimitsAssumption
        <3>2. CASE m # lastId + 1
            BY <2>1, <2>2, <3>2, <1>0, OneMoreAsked DEF LimitsInv, Counted
        <3>. QED  BY <3>1, <3>2
    <2>8. OneChallenge'
        BY <2>1, <2>2, <1>0 DEF LimitsInv, OneChallenge
    <2>9. \A j \in DOMAIN asked' :
              /\ asked'[j].main <= lastId'
              /\ asked'[j].kind = "challenge" => asked'[j].main # state'.main
        BY <2>1, <2>2, <2>3, <2>4, <1>0
    <2>10. Cardinality(AskedOf(asked', state'.main)) <= state'.derived + 1
        BY <2>3, <2>6
    <2>11. at' # "ask_challenge"  BY <2>1
    <2>. QED  BY <2>7, <2>8, <2>9, <2>10, <2>11 DEF LimitsInv, Counted, AskedOf
<1>7. CASE HandleSilence
    <2>1. /\ at' # "ask_challenge" /\ UNCHANGED <<asked, evaluations>>
          /\ lastId' = lastId \/ lastId' = lastId + 1
        BY <1>7 DEF HandleSilence, Goes, assessment
    <2>2. /\ state'.main = state.main /\ state'.derived = state.derived
          /\ state'.challengeUsed = state.challengeUsed
          /\ state'.asked_count = state.asked_count
        BY <1>7, <1>0, HandledKeeps, HandledIsState DEF HandleSilence, SessionState
    <2>. QED  BY <2>1, <2>2, <1>0, LimitsKept
<1>8. CASE FinalReport \/ Finalize \/ ComposeUtterance
    <2>1. at' # "ask_challenge" /\ UNCHANGED <<asked, lastId, evaluations>>
        BY <1>8 DEF FinalReport, Finalize, ComposeUtterance, Goes, assessment
    <2>2. /\ state'.main = state.main /\ state'.derived = state.derived
          /\ state'.challengeUsed = state.challengeUsed
          /\ state'.asked_count = state.asked_count
        <3>1. CASE FinalReport  BY <3>1, <1>0 DEF FinalReport, SessionState
        <3>2. CASE Finalize
            BY <3>2, <1>0, HandledKeeps, HandledIsState DEF Finalize, SessionState
        <3>3. CASE ComposeUtterance  BY <3>3, <1>0 DEF ComposeUtterance, SessionState
        <3>. QED  BY <1>8, <3>1, <3>2, <3>3
    <2>. QED  BY <2>1, <2>2, <1>0, LimitsKept
<1>9. CASE Return \/ Raise \/ UNCHANGED vars
    <2>1. UNCHANGED <<state, at, asked, lastId, evaluations>>
        BY <1>9 DEF Return, Raise, vars, assessment
    <2>. QED  BY <2>1, <1>0, LimitsKept
<1>. QED
    BY <1>1, <1>2, <1>3, <1>4, <1>5, <1>6, <1>7, <1>8, <1>9
    DEF Next, RunNode

\* However long an interview lasts and whatever is silent, off topic, repeated or
\* raised in it, no set has more derived questions than allowed or two challenges.
THEOREM SetLimitsHold == Spec => []SetLimits
<1>1. Spec => []OutlineInv
    BY TypeInvariance, OutlineInit, OutlineNext, PTL DEF Spec
<1>2. Spec => []SetsInv
    BY <1>1, TypeInvariance, SetsInit, SetsNext, PTL DEF Spec
<1>3. ASSUME TypeInv, LimitsInv PROVE SetLimits
    <2>1. \A i \in DOMAIN asked : asked[i].main \in Nat
        BY <1>3, AskedQuestions DEF TypeInv
    <2>2. \A i \in DOMAIN asked : Cardinality(AskedOf(asked, asked[i].main)) <= MaxDerived + 1
        BY <1>3, <2>1 DEF LimitsInv, Counted
    <2>. QED  BY <1>3, <2>2 DEF SetLimits, LimitsInv, OneChallenge, AskedOf
<1>. QED  BY <1>1, <1>2, <1>3, TypeInvariance, LimitsInit, LimitsNext, PTL DEF Spec

---------------------------------------------------------------------------
(* Every answer is judged once *)

\* The places of attempts are pairs of a set and a position in it.
LEMMA PlacesArePairs ==
    /\ \A p : p \in Places <=>
          \E s \in 1..(Len(evaluations) + 1) : \E i \in DOMAIN AttemptsOf(s) : p = <<s, i>>
    /\ \A s, i : AttemptAt(<<s, i>>) = AttemptsOf(s)[i]
<1>1. \A s, i : <<s, i>>[1] = s /\ <<s, i>>[2] = i  OBVIOUS
<1>. QED  BY <1>1 DEF Places, AttemptAt

\* So they are after a step.
LEMMA PlacesArePairsThen ==
    /\ \A p : p \in Places' <=>
          \E s \in 1..(Len(evaluations') + 1) : \E i \in DOMAIN (AttemptsOf(s)') : p = <<s, i>>
    /\ \A s, i : AttemptAt(<<s, i>>)' = AttemptsOf(s)'[i]
<1>1. \A s, i : <<s, i>>[1] = s /\ <<s, i>>[2] = i  OBVIOUS
<1>. QED  BY <1>1 DEF Places, AttemptAt

\* The attempts stay where they are when nothing is judged or scored.
LEMMA PlacesKept ==
    ASSUME UNCHANGED <<current, evaluations>>
    PROVE  Places' = Places /\ \A p \in Places : AttemptAt(p)' = AttemptAt(p)
BY DEF Places, AttemptsOf, AttemptAt

\* The attempts of a set that is scored stay where they are as well.
LEMMA PlacesScored ==
    ASSUME TypeOK, NEW e \in Evaluation, e.attempts = current,
           evaluations' = Append(evaluations, e), current' = <<>>
    PROVE  Places' = Places /\ \A p \in Places : AttemptAt(p)' = AttemptAt(p)
<1>. DEFINE L == Len(evaluations)
<1>1. /\ L \in Nat /\ DOMAIN evaluations = 1..L /\ Len(evaluations') = L + 1
      /\ DOMAIN evaluations' = 1..(L + 1)
      /\ \A s \in 1..L : evaluations'[s] = evaluations[s]
      /\ evaluations'[L + 1] = e
    BY DEF TypeOK
<1>2. /\ \A s \in 1..(L + 1) : AttemptsOf(s)' = AttemptsOf(s)
      /\ AttemptsOf(L + 2)' = <<>>
    BY <1>1 DEF AttemptsOf
<1>3. \A p : p \in Places' <=>
          \E s \in 1..(L + 2) : \E i \in DOMAIN (AttemptsOf(s)') : p = <<s, i>>
    BY <1>1, PlacesArePairs, PlacesArePairsThen
<1>4. \A p : p \in Places' <=> p \in Places
    <2>1. ASSUME NEW p, p \in Places' PROVE p \in Places
        <3>1. PICK s \in 1..(L + 2) : \E i \in DOMAIN (AttemptsOf(s)') : p = <<s, i>>
            BY <1>3, <2>1
        <3>2. s # L + 2  BY <3>1, <1>1 DEF AttemptsOf
        <3>3. s \in 1..(L + 1) /\ AttemptsOf(s)' = AttemptsOf(s)  BY <3>2, <1>1, <1>2
        <3>. QED  BY <3>1, <3>3, <1>1, PlacesArePairs
    <2>2. ASSUME NEW p, p \in Places PROVE p \in Places'
        <3>1. PICK s \in 1..(L + 1) : \E i \in DOMAIN AttemptsOf(s) : p = <<s, i>>
            BY <2>2, PlacesArePairs
        <3>2. s \in 1..(L + 2) /\ AttemptsOf(s)' = AttemptsOf(s)  BY <1>1, <1>2
        <3>. QED  BY <3>1, <3>2, <1>3
    <2>. QED  BY <2>1, <2>2
<1>5. ASSUME NEW p \in Places PROVE AttemptAt(p)' = AttemptAt(p)
    BY <1>2, PlacesArePairs, PlacesArePairsThen
<1>. QED  BY <1>4, <1>5

\* An attempt more has a place of its own.
NewPlace == <<Len(evaluations) + 1, Len(current) + 1>>

LEMMA PlaceAdded ==
    ASSUME TypeOK, NEW a \in Attempt, UNCHANGED evaluations, current' = Append(current, a)
    PROVE  /\ NewPlace \notin Places /\ Places' = Places \cup {NewPlace}
           /\ \A new : new = NewPlace => AttemptAt(new)' = a
           /\ \A p \in Places : AttemptAt(p)' = AttemptAt(p)
<1>. DEFINE L == Len(evaluations)
            new == NewPlace
<1>1. /\ L \in Nat /\ DOMAIN evaluations = 1..L
      /\ Len(current) \in Nat /\ DOMAIN current = 1..Len(current)
      /\ DOMAIN current' = 1..(Len(current) + 1)
      /\ \A i \in DOMAIN current : current'[i] = current[i]
      /\ current'[Len(current) + 1] = a
    BY DEF TypeOK
<1>2. /\ \A s \in 1..L : AttemptsOf(s)' = AttemptsOf(s)
      /\ AttemptsOf(L + 1) = current /\ AttemptsOf(L + 1)' = current'
    BY <1>1 DEF AttemptsOf
<1>3. \A p : p \in Places' <=>
          \E s \in 1..(L + 1) : \E i \in DOMAIN (AttemptsOf(s)') : p = <<s, i>>
    BY PlacesArePairs, PlacesArePairsThen
<1>0. new = <<L + 1, Len(current) + 1>>  BY DEF NewPlace
<1>4. new \notin Places
    BY <1>0, <1>1, <1>2, PlacesArePairs
<1>5. \A p : p \in Places' <=> p \in Places \/ p = new
    <2>1. ASSUME NEW p, p \in Places' PROVE p \in Places \/ p = new
        <3>1. PICK s \in 1..(L + 1) : \E i \in DOMAIN (AttemptsOf(s)') : p = <<s, i>>
            BY <1>3, <2>1
        <3>2. PICK i \in DOMAIN (AttemptsOf(s)') : p = <<s, i>>  BY <3>1
        <3>3. CASE s = L + 1
            BY <3>2, <3>3, <1>0, <1>1, <1>2, PlacesArePairs
        <3>4. CASE s \in 1..L
            BY <3>2, <3>4, <1>1, <1>2, PlacesArePairs
        <3>. QED  BY <3>3, <3>4, <1>1
    <2>2. ASSUME NEW p, p \in Places \/ p = new PROVE p \in Places'
        <3>1. CASE p = new
            BY <3>1, <1>0, <1>1, <1>2, <1>3
        <3>2. CASE p \in Places
            <4>1. PICK s \in 1..(L + 1) : \E i \in DOMAIN AttemptsOf(s) : p = <<s, i>>
                BY <3>2, PlacesArePairs
            <4>2. PICK i \in DOMAIN AttemptsOf(s) : p = <<s, i>>  BY <4>1
            <4>3. i \in DOMAIN (AttemptsOf(s)')  BY <4>2, <1>1, <1>2
            <4>. QED  BY <4>2, <4>3, <1>3
        <3>. QED  BY <2>2, <3>1, <3>2
    <2>. QED  BY <2>1, <2>2
<1>6. ASSUME NEW p, p = NewPlace PROVE AttemptAt(p)' = a
    BY <1>1, <1>6 DEF AttemptAt, AttemptsOf, NewPlace
<1>7. ASSUME NEW p \in Places PROVE AttemptAt(p)' = AttemptAt(p)
    <2>0. PICK s \in 1..(L + 1) : \E i \in DOMAIN AttemptsOf(s) : p = <<s, i>>
        BY PlacesArePairs, PlacesArePairsThen
    <2>1. PICK i \in DOMAIN AttemptsOf(s) : p = <<s, i>>
        BY <2>0
    <2>2. AttemptsOf(s)'[i] = AttemptsOf(s)[i]
        BY <1>1, <1>2, <2>1
    <2>. QED  BY <2>1, <2>2, PlacesArePairs, PlacesArePairsThen
<1>8. Places' = Places \cup {new}  BY <1>5
<1>. QED  BY <1>4, <1>6, <1>7, <1>8

\* The answer that stands to be recorded or judged is to the current question.
Standing ==
    /\ at = "record_candidate_answer" => state.pending.question = state.question.id
    /\ at = "evaluate_answer" => /\ answers[Len(answers)].question = state.question.id
                                 /\ Len(answers) \notin offTopic

JudgedInv == EveryAnswerJudgedOnce /\ Standing

\* Most steps leave what was said and what was judged alone.
LEMMA JudgedKept ==
    ASSUME JudgedInv, UNCHANGED <<answers, offTopic>>,
           Places' = Places, \A p \in Places : AttemptAt(p)' = AttemptAt(p),
           \/ at' = at /\ UNCHANGED state
           \/ /\ at # "evaluate_answer"
              /\ at' \notin {"evaluate_answer", "record_candidate_answer"}
    PROVE  JudgedInv'
<1>1. {AttemptAt(p).answer : p \in Places}' = {AttemptAt(p).answer : p \in Places}
    OBVIOUS
<1>2. Standing'  BY DEF JudgedInv, Standing
<1>3. EveryAnswerJudgedOnce'  BY <1>1 DEF JudgedInv, EveryAnswerJudgedOnce
<1>. QED  BY <1>2, <1>3 DEF JudgedInv

\* Every step keeps the count.
LEMMA JudgedNext ==
    ASSUME TypeInv, JudgedInv, [Next]_vars
    PROVE  JudgedInv'
<1>0. TypeOK /\ Inputs  BY DEF TypeInv
<1>1. CASE Submit
    <2>1. UNCHANGED <<answers, offTopic, current, evaluations>>
        BY <1>1 DEF Submit, assessment
    <2>2. \/ at' = at /\ UNCHANGED state
          \/ at = "wait_event" /\ at' = "validate_event"
        BY <1>1 DEF Submit
    <2>. QED  BY <2>1, <2>2, PlacesKept, JudgedKept
<1>2. CASE ValidateEvent
    <2>1. state.pending \in Event /\ at = "validate_event"
        BY <1>2, <1>0 DEF ValidateEvent, Goes, Inputs
    <2>2. UNCHANGED <<answers, offTopic, current, evaluations>>
        BY <1>2 DEF ValidateEvent, assessment
    <2>. DEFINE e == Interpreted(state.pending)
    <2>3. EventRoute[e.type] \in {"record_candidate_answer", "handle_replay", "final_report",
                                  "handle_timeout", "handle_silence"}
        BY <2>1, InterpretedIsPlain, EventRouteGoes
    <2>4. CASE at' # "record_candidate_answer"
        <3>1. at' # "evaluate_answer"  BY <1>2, <2>3 DEF ValidateEvent, Goes
        <3>. QED  BY <2>1, <2>2, <2>4, <3>1, PlacesKept, JudgedKept
    <2>5. CASE at' = "record_candidate_answer"
        <3>1. e.type = "answer"
            BY <1>2, <2>1, <2>5, InterpretedIsPlain
            DEF ValidateEvent, Goes, EventRoute, PlainTypes
        <3>2. ~Refused(e) /\ state' = [state EXCEPT !.pending = e]
            BY <1>2, <2>5 DEF ValidateEvent, Goes
        <3>3. state'.pending.question = state'.question.id
            BY <3>1, <3>2, <1>0 DEF Refused, TypeOK, SessionState
        <3>4. EveryAnswerJudgedOnce'
            <4>1. Places' = Places /\ \A p \in Places : AttemptAt(p)' = AttemptAt(p)
                BY <2>2, PlacesKept
            <4>2. {AttemptAt(p).answer : p \in Places}' = {AttemptAt(p).answer : p \in Places}
                BY <4>1
            <4>. QED  BY <4>1, <4>2, <2>1, <2>2, <2>5 DEF JudgedInv, EveryAnswerJudgedOnce
        <3>. QED  BY <3>3, <3>4, <2>5 DEF JudgedInv, Standing
    <2>. QED  BY <2>4, <2>5
<1>3. CASE RecordCandidateAnswer
    <2>. DEFINE a == [question |-> state.pending.question, event |-> state.pending.id]
    <2>1. /\ at = "record_candidate_answer" /\ at' = "evaluate_answer"
          /\ answers' = Append(answers, a) /\ UNCHANGED <<offTopic, current, evaluations>>
          /\ state'.question = state.question
        BY <1>3, <1>0 DEF RecordCandidateAnswer, Goes, assessment, TypeOK, SessionState
    <2>2. state.pending \in Event  BY <2>1, <1>0 DEF Inputs
    <2>3. a \in [question : Nat, event : EventId \cup {NoEventId}]  BY <2>2 DEF Event
    <2>. HIDE DEF a
    <2>4. /\ Len(answers) \in Nat /\ Len(answers') = Len(answers) + 1
          /\ DOMAIN answers = 1..Len(answers) /\ DOMAIN answers' = 1..(Len(answers) + 1)
          /\ \A i \in DOMAIN answers : answers'[i] = answers[i]
          /\ answers'[Len(answers) + 1] = a
        BY <2>1, <2>3, <1>0 DEF TypeOK
    <2>5. Standing'
        <3>1. Len(answers') \notin offTopic'  BY <2>1, <2>4, <1>0 DEF TypeOK
        <3>2. a.question = state.question.id
            BY <2>1 DEF a, JudgedInv, Standing
        <3>. QED  BY <3>1, <3>2, <2>1, <2>4 DEF Standing
    <2>6. EveryAnswerJudgedOnce'
        <3>1. Places' = Places /\ \A p \in Places : AttemptAt(p)' = AttemptAt(p)
            BY <2>1, PlacesKept
        <3>2. {AttemptAt(p).answer : p \in Places}' = {AttemptAt(p).answer : p \in Places}
            BY <3>1
        <3>3. {AttemptAt(p).answer : p \in Places} = DOMAIN answers \ offTopic
            BY <2>1 DEF JudgedInv, EveryAnswerJudgedOnce
        <3>4. DOMAIN answers' \ {Len(answers')} = DOMAIN answers
            BY <2>4
        <3>5. \A p \in Places : answers'[AttemptAt(p).answer] = answers[AttemptAt(p).answer]
            BY <3>3, <2>4
        <3>. QED  BY <3>1, <3>2, <3>3, <3>4, <3>5, <2>1 DEF JudgedInv, EveryAnswerJudgedOnce
    <2>. QED  BY <2>5, <2>6 DEF JudgedInv
<1>4. CASE EvaluateAnswer
    <2>1. PICK q \in Quality :
              /\ Goes("evaluate_answer", RouteQuality(q)) /\ current' = WithAttempt(q)
              /\ offTopic' = offTopic \cup (IF q = "off_topic" THEN {Len(answers)} ELSE {})
              /\ UNCHANGED <<state, answers, evaluations, asked, lastId>>
        BY <1>4 DEF EvaluateAnswer
    <2>2. at = "evaluate_answer" /\ at' \notin {"evaluate_answer", "record_candidate_answer"}
        BY <2>1, QualityRouteGoes, Kinds DEF Goes
    <2>3. Len(answers) \in DOMAIN answers /\ Len(answers) \in Nat
        BY <2>2, <1>0 DEF TypeOK, Inputs
    <2>4. /\ {AttemptAt(p).answer : p \in Places} = (DOMAIN answers \ {Len(answers)}) \ offTopic
          /\ Len(answers) \notin offTopic
        BY <2>2 DEF JudgedInv, EveryAnswerJudgedOnce, Standing
    <2>5. CASE q = "off_topic"
        <3>1. Places' = Places /\ \A p \in Places : AttemptAt(p)' = AttemptAt(p)
            BY <2>1, <2>5, PlacesKept DEF WithAttempt
        <3>2. {AttemptAt(p).answer : p \in Places}' = {AttemptAt(p).answer : p \in Places}
            BY <3>1
        <3>3. {AttemptAt(p).answer : p \in Places} = DOMAIN answers \ offTopic'
            BY <2>1, <2>4, <2>5
        <3>. QED  BY <3>1, <3>2, <3>3, <2>1, <2>2
                  DEF JudgedInv, EveryAnswerJudgedOnce, Standing
    <2>6. CASE q # "off_topic"
        <3>1. NewAttempt \in Attempt /\ NewAttempt.answer = Len(answers)
              /\ NewAttempt.question.id = answers[Len(answers)].question
            BY <2>2, <2>3, <1>0
            DEF NewAttempt, Attempt, TypeOK, SessionState, JudgedInv, Standing
        <3>2. current' = Append(current, NewAttempt) /\ offTopic' = offTopic
            BY <2>1, <2>6 DEF WithAttempt
        <3>3. /\ NewPlace \notin Places /\ Places' = Places \cup {NewPlace}
              /\ \A new : new = NewPlace => AttemptAt(new)' = NewAttempt
              /\ \A p \in Places : AttemptAt(p)' = AttemptAt(p)
            BY <1>0, <2>1, <3>1, <3>2, PlaceAdded
        <3>4. PICK new : new = NewPlace  OBVIOUS
        <3>5. /\ new \notin Places /\ Places' = Places \cup {new}
              /\ AttemptAt(new)' = NewAttempt
            BY <3>3, <3>4
        <3>6. {AttemptAt(p).answer : p \in Places}'
                  = {AttemptAt(p).answer : p \in Places} \cup {Len(answers)}
            BY <3>1, <3>3, <3>5
        <3>7. {AttemptAt(p).answer : p \in Places} \cup {Len(answers)} = DOMAIN answers \ offTopic
            BY <2>3, <2>4
        <3>8. \A p \in Places : AttemptAt(p).answer # Len(answers)
            BY <2>4
        <3>9. \A p, r \in Places' : AttemptAt(p)'.answer = AttemptAt(r)'.answer => p = r
            BY <3>1, <3>3, <3>5, <3>8 DEF JudgedInv, EveryAnswerJudgedOnce
        <3>10. \A p \in Places' : AttemptAt(p)'.question.id
                                      = answers'[AttemptAt(p)'.answer].question
            BY <2>1, <3>1, <3>3, <3>5 DEF JudgedInv, EveryAnswerJudgedOnce
        <3>. QED  BY <2>1, <2>2, <3>2, <3>6, <3>7, <3>9, <3>10
                  DEF JudgedInv, EveryAnswerJudgedOnce, Standing
    <2>. QED  BY <2>5, <2>6
<1>5. CASE CompleteSet
    <2>1. /\ at = "complete_set" /\ at' \in {"final_report", "ask_main"}
          /\ UNCHANGED <<answers, offTopic>>
        BY <1>5 DEF CompleteSet, Goes, AfterCompleteSet
    <2>2. Places' = Places /\ \A p \in Places : AttemptAt(p)' = AttemptAt(p)
        <3>1. CASE current = <<>>
            BY <1>5, <3>1, PlacesKept DEF CompleteSet
        <3>2. CASE current # <<>>
            <4>. DEFINE e == [main |-> state.main, about |-> MainAttempt.question,
                              attempts |-> current]
            <4>1. evaluations' = Append(evaluations, e) /\ current' = <<>>
                BY <1>5, <3>2 DEF CompleteSet
            <4>2. MainAttempt \in Attempt
                BY <3>2, <1>0, MainAttemptIsAttempt DEF TypeOK
            <4>3. e \in Evaluation /\ e.attempts = current
                BY <4>2, <1>0 DEF Evaluation, Attempt, TypeOK, SessionState
            <4>. HIDE DEF e
            <4>. QED  BY <4>1, <4>3, <1>0, PlacesScored
        <3>. QED  BY <3>1, <3>2
    <2>. QED  BY <2>1, <2>2, JudgedKept
<1>6. CASE \/ HandleOffTopic \/ HandleReplay \/ AskDerived \/ Greet \/ AskMain \/ HandleSilence
           \/ HandleTimeout \/ FinalReport \/ Finalize \/ ComposeUtterance
    <2>1. /\ at \notin {"evaluate_answer", "record_candidate_answer"}
          /\ at' \notin {"evaluate_answer", "record_candidate_answer"}
          /\ UNCHANGED <<answers, offTopic, current, evaluations>>
        BY <1>6, Kinds
        DEF HandleOffTopic, HandleReplay, AskDerived, Greet, AskMain, OpenSet, HandleSilence,
            HandleTimeout, FinalReport, Finalize, ComposeUtterance, Goes, assessment
    <2>. QED  BY <2>1, PlacesKept, JudgedKept
<1>7. CASE Return \/ Raise \/ UNCHANGED vars
    <2>1. UNCHANGED <<at, state, answers, offTopic, current, evaluations>>
        BY <1>7 DEF Return, Raise, vars, assessment
    <2>. QED  BY <2>1, PlacesKept, JudgedKept
<1>. QED
    BY <1>1, <1>2, <1>3, <1>4, <1>5, <1>6, <1>7 DEF Next, RunNode

\* At the start there is nothing to judge.
LEMMA JudgedInit ==
    Init => JudgedInv
<1>. SUFFICES ASSUME Init PROVE JudgedInv  OBVIOUS
<1>1. /\ at = "greet" /\ answers = <<>> /\ current = <<>> /\ evaluations = <<>>
      /\ offTopic = {}
    BY DEF Init
<1>2. Places = {}
    BY <1>1 DEF Places, AttemptsOf
<1>3. DOMAIN answers = {}  BY <1>1
<1>. QED  BY <1>1, <1>2, <1>3 DEF JudgedInv, EveryAnswerJudgedOnce, Standing

\* Whatever raises, is repeated or comes late, every answer in the transcript but the
\* one being judged missed its question or is an attempt of one set, once, and was
\* judged against the question it was given to.
THEOREM AnswersJudgedOnce == Spec => []EveryAnswerJudgedOnce
<1>1. JudgedInv => EveryAnswerJudgedOnce  BY DEF JudgedInv
<1>. QED  BY <1>1, TypeInvariance, JudgedInit, JudgedNext, PTL DEF Spec

---------------------------------------------------------------------------
(* By text, a set is scored on the answer to its main question *)

\* A set whose main question was answered is scored on that answer.
OnMain(q) == q.id = state.main /\ q.kind = "main"

LEMMA MainAttemptOnMain ==
    ASSUME current \in Seq(Attempt), NEW k \in DOMAIN current, OnMain(current[k].question)
    PROVE  MainAttempt.question.id = state.main
<1>. DEFINE mains == {i \in DOMAIN current : /\ current[i].question.id = state.main
                                             /\ current[i].question.kind = "main"}
<1>1. mains # {} /\ mains \in SUBSET Nat
    <2>1. DOMAIN current = 1..Len(current) /\ Len(current) \in Nat  OBVIOUS
    <2>2. k \in mains  BY DEF OnMain
    <2>. QED  BY <2>1, <2>2
<1>2. \E i \in mains : \A j \in mains : i <= j  BY <1>1, FirstExists
<1>. DEFINE first == CHOOSE i \in mains : \A j \in mains : i <= j
<1>3. first \in mains  BY <1>2
<1>4. MainAttempt = current[first]  BY <1>1 DEF MainAttempt
<1>. QED  BY <1>3, <1>4

\* While a set is open the main question stands until it is answered: no hint takes
\* its place, and a derived question is asked on an attempt only.
TextSets ==
    /\ \A s \in DOMAIN evaluations : evaluations[s].about.id = evaluations[s].main
    /\ current # <<>> => \E i \in DOMAIN current : OnMain(current[i].question)
    /\ SetOpen /\ current = <<>> => OnMain(state.question)
    /\ at \in DOMAIN KindOf => current # <<>>

\* Nothing is heard and no silence passes.
TextEvents ==
    /\ at # "handle_silence"
    /\ state.pending.type \in {"none", "answer", "replay", "end"}

TextInv == state.mode = "chat" => TextSets /\ TextEvents

\* At the start there is no set.
LEMMA TextInit ==
    Init => TextInv
<1>. SUFFICES ASSUME Init PROVE TextInv  OBVIOUS
<1>1. /\ at = "greet" /\ evaluations = <<>> /\ current = <<>>
      /\ state.pending = NoEvent /\ state.asked_count = 0
    BY DEF Init
<1>. QED  BY <1>1, Nodes DEF TextInv, TextSets, TextEvents, SetOpen, NoEvent

\* Most steps change neither the sets nor the question.
LEMMA TextKept ==
    ASSUME TextInv, UNCHANGED <<current, evaluations>>,
           state'.mode = state.mode, state'.question = state.question,
           state'.main = state.main, state'.asked_count = state.asked_count,
           at' \in DOMAIN KindOf => at' = at \/ current # <<>>,
           state.mode = "chat" =>
               /\ at' # "handle_silence"
               /\ state'.pending.type \in {"none", "answer", "replay", "end"}
    PROVE  TextInv'
BY DEF TextInv, TextSets, TextEvents, SetOpen, OnMain

\* Every step keeps it.
LEMMA TextNext ==
    ASSUME TypeInv, OutlineInv, SetsInv, TextInv, [Next]_vars
    PROVE  TextInv'
<1>0. TypeOK /\ Inputs /\ state \in SessionState /\ lastId \in Nat
    BY DEF TypeInv, TypeOK
<1>a. /\ Handled \in SessionState /\ Handled.mode = state.mode
      /\ Handled.pending = NoEvent /\ NoEvent.type = "none"
    BY <1>0, HandledIsState DEF Handled, SessionState, NoEvent
<1>1. CASE Submit
    <2>1. PICK e \in [type : AllTypes, question : 0..lastId, id : EventId \cup {NoEventId}] :
              /\ Sendable(e)
              /\ \/ at' = "validate_event" /\ state' = [state EXCEPT !.pending = e]
                 \/ UNCHANGED <<at, state>>
              /\ UNCHANGED <<current, evaluations>>
        BY <1>1 DEF Submit, assessment
    <2>2. state.mode = "chat" => e.type \in {"answer", "replay", "end"}
        BY <2>1 DEF Sendable, Utterance, Signal
    <2>3. "validate_event" \notin DOMAIN KindOf  BY Kinds
    <2>4. CASE at' = "validate_event" /\ state' = [state EXCEPT !.pending = e]
        <3>1. state'.pending = e /\ state'.mode = state.mode /\ state'.question = state.question
              /\ state'.main = state.main /\ state'.asked_count = state.asked_count
            BY <2>4, <1>0 DEF SessionState
        <3>. QED  BY <2>1, <2>2, <2>3, <2>4, <3>1, TextKept
    <2>5. CASE UNCHANGED <<at, state>>
        BY <2>1, <2>5 DEF TextInv, TextSets, TextEvents, SetOpen, OnMain
    <2>. QED  BY <2>1, <2>4, <2>5
<1>2. CASE ValidateEvent
    <2>1. /\ state.pending \in Event /\ at = "validate_event"
          /\ UNCHANGED <<current, evaluations>>
        BY <1>2, <1>0 DEF ValidateEvent, Goes, Inputs, assessment
    <2>. DEFINE e == Interpreted(state.pending)
    <2>2. EventRoute[e.type] \in {"record_candidate_answer", "handle_replay", "final_report",
                                  "handle_timeout", "handle_silence"}
        BY <2>1, InterpretedIsPlain, EventRouteGoes
    <2>3. at' \notin DOMAIN KindOf  BY <1>2, <2>2, Kinds DEF ValidateEvent, Goes
    <2>4. state.mode = "chat" => /\ e = state.pending
                                 /\ EventRoute[e.type] # "handle_silence"
        <3>. SUFFICES ASSUME state.mode = "chat"
                      PROVE  e = state.pending /\ EventRoute[e.type] # "handle_silence"
            OBVIOUS
        <3>1. state.pending.type \in {"answer", "replay", "end"}
            BY <2>1 DEF TextInv, TextEvents, Event, AllTypes
        <3>2. e = state.pending  BY <3>1 DEF Interpreted
        <3>. QED  BY <3>1, <3>2 DEF EventRoute
    <2>5. state' = state \/ state' = [state EXCEPT !.pending = e]
        BY <1>2 DEF ValidateEvent
    <2>6. state'.mode = state.mode /\ state'.question = state.question
          /\ state'.main = state.main /\ state'.asked_count = state.asked_count
          /\ (state'.pending = state.pending \/ state'.pending = e)
        BY <2>5, <1>0 DEF SessionState
    <2>7. state.mode = "chat" => at' # "handle_silence"
        BY <1>2, <2>4 DEF ValidateEvent, Goes
    <2>. QED  BY <2>1, <2>3, <2>4, <2>6, <2>7, TextKept DEF TextInv, TextEvents
<1>3. CASE RecordCandidateAnswer \/ FinalReport \/ ComposeUtterance
    <2>1. /\ at' \notin DOMAIN KindOf /\ at' # "handle_silence"
          /\ UNCHANGED <<current, evaluations>>
        BY <1>3, Kinds DEF RecordCandidateAnswer, FinalReport, ComposeUtterance, Goes, assessment
    <2>2. /\ state'.mode = state.mode /\ state'.question = state.question
          /\ state'.main = state.main /\ state'.asked_count = state.asked_count
          /\ state'.pending = state.pending
        <3>1. CASE RecordCandidateAnswer
            BY <3>1, <1>0 DEF RecordCandidateAnswer, SessionState
        <3>2. CASE FinalReport
            BY <3>2, <1>0 DEF FinalReport, SessionState
        <3>3. CASE ComposeUtterance
            BY <3>3 DEF ComposeUtterance
        <3>. QED  BY <1>3, <3>1, <3>2, <3>3
    <2>. QED  BY <2>1, <2>2, TextKept DEF TextInv, TextEvents
<1>4. CASE EvaluateAnswer
    <2>1. PICK q \in Quality :
              /\ Goes("evaluate_answer", RouteQuality(q)) /\ current' = WithAttempt(q)
              /\ UNCHANGED <<state, evaluations>>
        BY <1>4 DEF EvaluateAnswer
    <2>2. /\ at' # "handle_silence" /\ at = "evaluate_answer"
          /\ at' \in DOMAIN KindOf => q # "off_topic"
        BY <2>1, QualityRouteGoes, Kinds DEF Goes
    <2>3. CASE q = "off_topic"
        <3>1. UNCHANGED <<current, evaluations>>  BY <2>1, <2>3 DEF WithAttempt
        <3>. QED  BY <2>1, <2>2, <2>3, <3>1, TextKept DEF TextInv, TextEvents
    <2>4. CASE q # "off_topic"
        <3>1. current' = Append(current, NewAttempt) /\ current \in Seq(Attempt)
            BY <2>1, <2>4, <1>0 DEF WithAttempt, TypeOK
        <3>2. SetOpen  BY <2>2, Nodes DEF OutlineInv, Phases
        <3>3. NewAttempt.question = state.question  BY DEF NewAttempt
        <3>4. /\ Len(current') = Len(current) + 1 /\ current' # <<>>
              /\ DOMAIN current = 1..Len(current) /\ DOMAIN current' = 1..(Len(current) + 1)
              /\ Len(current) \in Nat
              /\ current'[Len(current) + 1] = NewAttempt
              /\ \A i \in DOMAIN current : current'[i] = current[i]
            BY <3>1
        <3>5. ASSUME state.mode = "chat"
              PROVE  \E i \in DOMAIN current' : OnMain(current'[i].question)
            <4>1. CASE current = <<>>
                <5>1. OnMain(state.question)
                    BY <3>2, <3>5, <4>1 DEF TextInv, TextSets
                <5>2. Len(current) + 1 \in DOMAIN current'  BY <3>4
                <5>. QED  BY <3>3, <3>4, <5>1, <5>2
            <4>2. CASE current # <<>>
                <5>1. PICK i \in DOMAIN current : OnMain(current[i].question)
                    BY <3>5, <4>2 DEF TextInv, TextSets
                <5>2. i \in DOMAIN current' /\ current'[i] = current[i]  BY <3>4
                <5>. QED  BY <5>1, <5>2
            <4>. QED  BY <4>1, <4>2
        <3>6. state.mode = "chat" => TextSets'
            BY <2>1, <3>4, <3>5 DEF TextInv, TextSets, OnMain
        <3>7. state.mode = "chat" => TextEvents'
            BY <2>1, <2>2 DEF TextInv, TextEvents
        <3>. QED  BY <2>1, <3>6, <3>7 DEF TextInv
    <2>. QED  BY <2>3, <2>4
<1>5. CASE HandleOffTopic \/ HandleReplay \/ HandleTimeout \/ Finalize
    <2>1. /\ at' \notin DOMAIN KindOf /\ at' # "handle_silence"
          /\ UNCHANGED <<current, evaluations>>
        BY <1>5, Kinds DEF HandleOffTopic, HandleReplay, HandleTimeout, Finalize, Goes, assessment
    <2>2. state' = Handled \/ state' = [Handled EXCEPT !.finished = TRUE]
        BY <1>5 DEF HandleOffTopic, HandleReplay, HandleTimeout, Finalize
    <2>3. /\ state'.mode = state.mode /\ state'.question = state.question
          /\ state'.main = state.main /\ state'.asked_count = state.asked_count
          /\ state'.pending = NoEvent
        BY <2>2, <1>0, <1>a, HandledKeeps DEF SessionState
    <2>. QED  BY <2>1, <2>3, <1>a, TextKept
<1>6. CASE AskDerived
    <2>1. PICK n \in DOMAIN KindOf :
              /\ Goes(n, "compose_utterance")
              /\ state' = [Handled EXCEPT !.question = Made(KindOf[n]), !.derived = @ + 1,
                            !.challengeUsed = IF n = "ask_challenge" THEN TRUE ELSE @]
              /\ UNCHANGED <<current, evaluations>>
        BY <1>6 DEF AskDerived, assessment
    <2>2. /\ state'.mode = state.mode /\ state'.main = state.main
          /\ state'.asked_count = state.asked_count /\ state'.pending = NoEvent
        BY <2>1, <1>0, <1>a, HandledKeeps DEF SessionState
    <2>3. at' \notin DOMAIN KindOf /\ at' # "handle_silence" /\ at \in DOMAIN KindOf
        BY <2>1, Kinds DEF Goes
    <2>4. state.mode = "chat" => TextSets'
        BY <2>1, <2>2, <2>3 DEF TextInv, TextSets, OnMain
    <2>. QED  BY <2>2, <2>3, <2>4, <1>a DEF TextInv, TextEvents
<1>7. CASE CompleteSet
    <2>1. /\ at = "complete_set" /\ at' \in {"final_report", "ask_main"} /\ current # <<>>
          /\ SetOpen
        BY <1>7, Nodes DEF CompleteSet, Goes, AfterCompleteSet, OutlineInv, Phases
    <2>. DEFINE e == [main |-> state.main, about |-> MainAttempt.question,
                      attempts |-> current]
    <2>2. /\ evaluations' = Append(evaluations, e) /\ current' = <<>>
          /\ evaluations \in Seq(Evaluation) /\ current \in Seq(Attempt)
        BY <1>7, <2>1, <1>0 DEF CompleteSet, TypeOK
    <2>3. /\ state'.mode = state.mode /\ state'.main = state.main
          /\ state'.asked_count = state.asked_count /\ state'.pending = NoEvent
        BY <1>7, <1>0, <1>a, HandledKeeps DEF CompleteSet, SessionState
    <2>4. state.mode = "chat" => e.about.id = e.main
        <3>. SUFFICES ASSUME state.mode = "chat"
                      PROVE  MainAttempt.question.id = state.main
            OBVIOUS
        <3>1. PICK i \in DOMAIN current : OnMain(current[i].question)
            BY <2>1 DEF TextInv, TextSets
        <3>. QED  BY <2>2, <3>1, MainAttemptOnMain
    <2>. HIDE DEF e
    <2>5. Len(evaluations') = Len(evaluations) + 1 /\ Len(evaluations) \in Nat
        BY <2>2
    <2>6. ~SetOpen'  BY <2>1, <2>3, <2>5 DEF SetOpen
    <2>7. at' \notin DOMAIN KindOf /\ at' # "handle_silence"  BY <2>1, Kinds
    <2>8. state.mode = "chat" =>
              \A s \in DOMAIN evaluations' : evaluations'[s].about.id = evaluations'[s].main
        BY <2>2, <2>4 DEF TextInv, TextSets
    <2>9. state.mode = "chat" => TextSets'
        BY <2>2, <2>6, <2>7, <2>8 DEF TextSets
    <2>. QED  BY <2>3, <2>7, <2>9, <1>a DEF TextInv, TextEvents
<1>8. CASE Greet \/ AskMain
    <2>1. /\ UNCHANGED <<current, evaluations>> /\ current = <<>>
          /\ at' = "compose_utterance"
        BY <1>8 DEF Greet, AskMain, OpenSet, Goes, assessment, SetsInv, SetsApart
    <2>2. /\ state'.mode = state.mode /\ state'.question = NewMain
          /\ state'.main = NewMain.id
          /\ state'.pending = state.pending \/ state'.pending = NoEvent
        <3>1. CASE Greet
            <4>. HIDE DEF NewMain
            <4>. QED  BY <3>1, <1>0 DEF Greet, SessionState
        <3>2. CASE AskMain
            <4>. HIDE DEF NewMain
            <4>. QED  BY <3>2, <1>0 DEF AskMain, SessionState
        <3>. QED  BY <1>8, <3>1, <3>2
    <2>3. OnMain(state.question)'  BY <2>2 DEF OnMain, NewMain
    <2>4. at' \notin DOMAIN KindOf /\ at' # "handle_silence"  BY <2>1, Kinds
    <2>5. state.mode = "chat" => TextSets'
        BY <2>1, <2>3, <2>4 DEF TextInv, TextSets
    <2>. QED  BY <2>2, <2>4, <2>5, <1>a DEF TextInv, TextEvents
<1>9. CASE HandleSilence
    <2>1. at = "handle_silence" /\ state.mode # "chat"
        BY <1>9 DEF HandleSilence, Goes, TextInv, TextEvents
    <2>2. state'.mode = state.mode
        BY <1>9, <1>a DEF HandleSilence, SessionState
    <2>. QED  BY <2>1, <2>2 DEF TextInv
<1>10. CASE Return \/ Raise \/ UNCHANGED vars
    <2>1. UNCHANGED <<state, at, current, evaluations>>
        BY <1>10 DEF Return, Raise, vars, assessment
    <2>. QED  BY <2>1, TextKept DEF TextInv, TextEvents
<1>. QED
    BY <1>1, <1>2, <1>3, <1>4, <1>5, <1>6, <1>7, <1>8, <1>9, <1>10
    DEF Next, RunNode

\* By text every set is scored on an answer to its main question, however many
\* questions of a set are answered, off topic or asked again.
THEOREM MainAnsweredHolds == Spec => []MainAnsweredByText
<1>1. Spec => []OutlineInv
    BY TypeInvariance, OutlineInit, OutlineNext, PTL DEF Spec
<1>2. Spec => []SetsInv
    BY <1>1, TypeInvariance, SetsInit, SetsNext, PTL DEF Spec
<1>3. TextInv => MainAnsweredByText  BY DEF TextInv, TextSets, MainAnsweredByText
<1>. QED  BY <1>1, <1>2, <1>3, TypeInvariance, TextInit, TextNext, PTL DEF Spec

---------------------------------------------------------------------------
(* An answer is recorded once *)

\* The events of the answers were processed or are the one being processed: a call
\* that raised still is, when its client repeats it first.
Recorded ==
    /\ \A i \in DOMAIN answers : answers[i].event \in processed \cup {NoEventId, call.id}
    /\ ~running /\ at \in {"wait_event", "end"} => call = NoEvent
    /\ running => call.id \notin processed
    /\ at \in {"validate_event", "record_candidate_answer"} =>
          /\ running /\ state.pending.id = call.id
          /\ \A i \in DOMAIN answers : answers[i].event = call.id => call.id = NoEventId

RecordedInv == Recorded /\ AnswerRecordedOnce

\* At the start nothing is recorded.
LEMMA RecordedInit ==
    Init => RecordedInv
BY DEF Init, RecordedInv, Recorded, AnswerRecordedOnce, NoEvent

\* Most steps record nothing.
LEMMA RecordedKept ==
    ASSUME RecordedInv, UNCHANGED <<answers, processed, running, call>>,
           \/ at' = at /\ UNCHANGED state
           \/ running /\ at' \notin {"validate_event", "record_candidate_answer"}
    PROVE  RecordedInv'
BY DEF RecordedInv, Recorded, AnswerRecordedOnce

\* Every step keeps it.
LEMMA RecordedNext ==
    ASSUME RetryFirst, TypeInv, RecordedInv, [Next]_vars
    PROVE  RecordedInv'
<1>0. TypeOK /\ Inputs /\ state \in SessionState  BY DEF TypeInv, TypeOK
<1>1. CASE Submit
    <2>1. PICK e \in [type : AllTypes, question : 0..lastId, id : EventId \cup {NoEventId}] :
              /\ ~running /\ e.id \notin processed
              /\ at # "wait_event" /\ RetryFirst => e = call
              /\ running' = TRUE /\ call' = e
              /\ \/ /\ at = "wait_event" /\ at' = "validate_event"
                    /\ state' = [state EXCEPT !.pending = e]
                 \/ at # "wait_event" /\ UNCHANGED <<at, state>>
              /\ UNCHANGED <<processed, answers>>
        BY <1>1 DEF Submit
    <2>2. CASE at = "wait_event"
        <3>1. call = NoEvent /\ NoEvent.id = NoEventId
            BY <2>1, <2>2 DEF RecordedInv, Recorded, NoEvent
        <3>2. at' = "validate_event" /\ state'.pending = e
            BY <2>1, <2>2, <1>0 DEF SessionState
        <3>3. \A i \in DOMAIN answers : answers[i].event \in processed \cup {NoEventId}
            BY <3>1 DEF RecordedInv, Recorded
        <3>. QED  BY <2>1, <3>2, <3>3 DEF RecordedInv, Recorded, AnswerRecordedOnce
    <2>3. CASE at # "wait_event"
        <3>1. e = call /\ UNCHANGED <<at, state>>  BY <2>1, <2>3
        <3>. QED  BY <2>1, <3>1 DEF RecordedInv, Recorded, AnswerRecordedOnce
    <2>. QED  BY <2>2, <2>3
<1>2. CASE ValidateEvent
    <2>1. state.pending \in Event /\ at = "validate_event"
        BY <1>2, <1>0 DEF ValidateEvent, Goes, Inputs
    <2>2. Interpreted(state.pending).id = state.pending.id
        BY <2>1 DEF Interpreted, Event
    <2>3. state'.pending.id = state.pending.id
        BY <1>2, <2>2, <1>0 DEF ValidateEvent, SessionState
    <2>4. UNCHANGED <<answers, processed, running, call>>
        BY <1>2 DEF ValidateEvent, Goes
    <2>. QED  BY <2>1, <2>3, <2>4 DEF RecordedInv, Recorded, AnswerRecordedOnce
<1>3. CASE RecordCandidateAnswer
    <2>. DEFINE a == [question |-> state.pending.question, event |-> state.pending.id]
    <2>1. /\ at = "record_candidate_answer" /\ at' = "evaluate_answer"
          /\ answers' = Append(answers, a) /\ UNCHANGED <<processed, running, call>>
        BY <1>3 DEF RecordCandidateAnswer, Goes
    <2>2. /\ running /\ a.event = call.id
          /\ \A i \in DOMAIN answers : answers[i].event = call.id => call.id = NoEventId
        BY <2>1 DEF RecordedInv, Recorded
    <2>. HIDE DEF a
    <2>3. /\ Len(answers) \in Nat /\ DOMAIN answers = 1..Len(answers)
          /\ DOMAIN answers' = 1..(Len(answers) + 1)
          /\ \A i \in DOMAIN answers : answers'[i] = answers[i]
          /\ answers'[Len(answers) + 1] = a
        BY <2>1, <1>0 DEF TypeOK
    <2>4. AnswerRecordedOnce'
        BY <2>2, <2>3 DEF RecordedInv, AnswerRecordedOnce
    <2>5. \A i \in DOMAIN answers' : answers'[i].event \in processed \cup {NoEventId, call.id}
        BY <2>2, <2>3 DEF RecordedInv, Recorded
    <2>. QED  BY <2>1, <2>2, <2>4, <2>5 DEF RecordedInv, Recorded
<1>4. CASE EvaluateAnswer
    <2>1. PICK q \in Quality : Goes("evaluate_answer", RouteQuality(q)) /\ answers' = answers
        BY <1>4 DEF EvaluateAnswer
    <2>2. at' \notin {"validate_event", "record_candidate_answer"}
        BY <2>1, QualityRouteGoes, Kinds DEF Goes
    <2>. QED  BY <2>1, <2>2, RecordedKept DEF Goes
<1>5. CASE \/ HandleOffTopic \/ HandleReplay \/ AskDerived \/ CompleteSet \/ Greet \/ AskMain
           \/ HandleSilence \/ HandleTimeout \/ FinalReport \/ Finalize \/ ComposeUtterance
    <2>1. /\ running /\ at' \notin {"validate_event", "record_candidate_answer"}
          /\ UNCHANGED <<answers, processed, running, call>>
        BY <1>5
        DEF HandleOffTopic, HandleReplay, AskDerived, CompleteSet, AfterCompleteSet, Greet,
            AskMain, OpenSet, HandleSilence, HandleTimeout, FinalReport, Finalize,
            ComposeUtterance, Goes, assessment
    <2>. QED  BY <2>1, RecordedKept
<1>6. CASE Return
    <2>1. /\ running' = FALSE /\ call' = NoEvent /\ at \in {"wait_event", "end"}
          /\ processed' = processed \cup ({call.id} \ {NoEventId})
          /\ UNCHANGED <<state, at, answers>>
        BY <1>6 DEF Return, Remembered
    <2>. QED  BY <2>1 DEF RecordedInv, Recorded, AnswerRecordedOnce, NoEvent
<1>7. CASE Raise
    <2>1. /\ at \notin {"wait_event", "end", "validate_event", "record_candidate_answer"}
          /\ running' = FALSE /\ UNCHANGED <<state, at, call, processed, answers>>
        BY <1>7, Kinds DEF Raise, CanRaise
    <2>. QED  BY <2>1 DEF RecordedInv, Recorded, AnswerRecordedOnce
<1>8. CASE UNCHANGED vars
    BY <1>8, RecordedKept DEF vars
<1>. QED
    BY <1>1, <1>2, <1>3, <1>4, <1>5, <1>6, <1>7, <1>8 DEF Next, RunNode

\* If a client whose call failed repeats it before anything else, one action of the
\* candidate is recorded once, however often its event comes and its call raises.
THEOREM AnswerRecordedOnceHolds == RetryFirst => (Spec => []AnswerRecordedOnce)
<1>. SUFFICES ASSUME RetryFirst PROVE Spec => []AnswerRecordedOnce  OBVIOUS
<1>1. RecordedInv => AnswerRecordedOnce  BY DEF RecordedInv
<1>2. TypeInv /\ RecordedInv /\ [Next]_vars => RecordedInv'  BY RecordedNext
<1>. QED  BY <1>1, <1>2, TypeInvariance, RecordedInit, PTL DEF Spec
=============================================================================

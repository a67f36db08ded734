------------------------ MODULE VoiceTurnCoordinator ------------------------
(***************************************************************************)
(* One question of a voice interview: its registry entry (buffer, lock and *)
(* attached worker), the coordinators of the WebSocket connections that    *)
(* serve it one after another or at once, their timer tasks, the judge,    *)
(* the classifier and the submission to the interview session.             *)
(*                                                                         *)
(* Everything runs on one event loop.  The body of every "async with       *)
(* entry.lock" is synchronous, so the code between two awaits that really  *)
(* suspend (reading the session in a thread, a sleep, the judge, the       *)
(* classifier, the submission) is one step.  Messages to the client are    *)
(* sent within the step that sends them.                                   *)
(*                                                                         *)
(* A message of the client is taken in two steps, because the handler      *)
(* reads the session in between; its contents matter only in the second.   *)
(*                                                                         *)
(* Tasks of a coordinator whose worker is closed find that out when they   *)
(* wake up and return, so only the tasks of the serving connection are     *)
(* represented.                                                            *)
(***************************************************************************)
EXTENDS VoiceTurnBuffer, TurnCompletionWorkerOps

CONSTANTS Conn,        \* WebSocket connections, each used once
          NoConn,      \* Python's None for the entry's worker
          Judgements,  \* the judgements the judge can give
          Overlap,     \* may a connection open while another still is?
          RestMoves    \* may the REST events API move the interview on?

ASSUME NoConnAssumption == NoConn \notin Conn
ASSUME JudgementsAssumption == Judgements \subseteq Decision
\* Confirmation questions are numbered in the order they are asked.
ASSUME ConfirmationIdAssumption == ConfirmationId = 1..MaxConfirmations

VARIABLES owner,       \* the connection whose worker is attached to the entry
          worker,      \* that worker
          timers,      \* the armed tasks of that connection's coordinator
          commit,      \* the commit task once it has started the submission
          link,        \* connection -> new, open, closing or closed
          handler,     \* connection -> what its receive loop is doing
          acceptEqual, \* connection -> _accept_equal_reconnect_snapshot
          question,    \* does the session still ask this question?
          retired,     \* has the registry replaced or removed the entry?
          taken,       \* the revision the session took as the answer
          handedBack   \* was the turn last left to the client by an error?

vars == <<buffer, owner, worker, timers, commit, link, handler, acceptEqual,
          question, retired, taken, handedBack>>

---------------------------------------------------------------------------
(* Timer tasks: each is armed for a revision or a confirmation. *)

NoTimers == [delay |-> NoRevision, ready |-> NoConfirmation,
             response |-> NoConfirmation, stall |-> NoRevision,
             commit |-> NoRevision]

Timers == [delay: Revisions, ready: ConfirmationId \cup {NoConfirmation},
           response: ConfirmationId \cup {NoConfirmation},
           stall: Revisions, commit: Revisions]

CancelConfirmationTimers(t) ==
    [t EXCEPT !.delay = NoRevision, !.ready = NoConfirmation,
              !.response = NoConfirmation]

ScheduleCommit(t, rev) ==
    [CancelConfirmationTimers(t) EXCEPT !.stall = NoRevision, !.commit = rev]

ScheduleConfirmation(t, rev) ==
    [t EXCEPT !.stall = NoRevision, !.delay = rev]

MaybeScheduleStall(t, b) ==
    IF b.state = "listening" /\ b.segmentFinal /\ b.text # Blank
    THEN [t EXCEPT !.stall = b.revision]
    ELSE t

---------------------------------------------------------------------------
(* The policy that turns a judgement into a state *)

CanStartAutoSubmit(b, d) ==
    /\ b.text # Blank /\ ~b.speechActive /\ b.segmentFinal
    /\ d.action = "auto_submit" /\ d.qualified

CanStartConfirmation(b, d) ==
    /\ b.text # Blank /\ ~b.speechActive /\ b.segmentFinal
    /\ d.action = "ask_confirmation" /\ d.qualified
    /\ b.confirmationCount < MaxConfirmations

\* Applied to a listening buffer on which d is recorded.
ApplyPolicy(b, d) ==
    IF CanStartAutoSubmit(b, d) /\ CanMarkCandidate(b, b.revision)
    THEN MarkCompleteCandidate(b, IF d.explicit THEN "explicit_finish"
                                                ELSE "semantic_complete")
    ELSE IF CanStartConfirmation(b, d) /\ CanMarkPending(b, b.revision)
    THEN MarkConfirmationPending(b)
    ELSE b

\* _dispatch_decision_policy: the task for what the policy made of the buffer.
Dispatch(t, b) ==
    CASE b.state = "complete_candidate" -> ScheduleCommit(t, b.revision)
      [] b.state = "confirmation_pending" -> ScheduleConfirmation(t, b.revision)
      [] OTHER -> MaybeScheduleStall(t, b)

\* A defect: the judgement for a stalled answer misses the threshold.
StallDecisionTentative ==
    [action |-> "ask_confirmation", qualified |-> FALSE, explicit |-> FALSE]

\* The judgement a stalled answer is given.
StallDecision == [action |-> "ask_confirmation", qualified |-> TRUE, explicit |-> FALSE]

---------------------------------------------------------------------------
(* Connections *)

Idle == [pc |-> "idle", id |-> NoConfirmation]
Fetching == [pc |-> "fetching", id |-> NoConfirmation]
Classifying(id) == [pc |-> "classifying", id |-> id]

NoCommit == [phase |-> "idle", by |-> NoConn]

Serving(c) == owner = c /\ ~worker.closed

Init ==
    /\ buffer = EmptyBuffer
    /\ owner = NoConn
    /\ worker = Close(NewWorker)
    /\ timers = NoTimers
    /\ commit = NoCommit
    /\ link = [c \in Conn |-> "new"]
    /\ handler = [c \in Conn |-> Idle]
    /\ acceptEqual = [c \in Conn |-> FALSE]
    /\ question = "asked"
    /\ retired = FALSE
    /\ taken = NoRevision
    /\ handedBack = FALSE

\* prepare_connection: whatever the previous connection had in preparation
\* is dropped, the answer itself is kept.
Prepared(b) ==
    LET b1 == CancelConfirmation(b)
    IN  IF \/ b1.state = "complete_candidate"
           \/ b1.state = "listening" /\ (b1.decision # NoDecision \/ b1.reason # NoReason)
        THEN ResumeListening(b1)
        ELSE b1

\* A defect: a connection is let in during a submission.
NeverTurnedAway == FALSE

\* An answer is being submitted: connections are turned away.
TurnedAway == buffer.state = "committing"

\* A connection opens and takes the entry over; the worker attached before is
\* closed.
Connect(c) ==
    /\ link[c] = "new" /\ question = "asked" /\ ~retired
    /\ Overlap \/ \A d \in Conn : link[d] \in {"new", "closed"}
    /\ ~TurnedAway
    /\ buffer' = Prepared(buffer)
    /\ acceptEqual' = [acceptEqual EXCEPT ![c] =
           /\ buffer'.state = "listening"
           /\ buffer'.revision > 0 \/ buffer'.text # Blank]
    /\ owner' = c
    /\ worker' = NewWorker
    /\ timers' = NoTimers
    /\ link' = [link EXCEPT ![c] = "open"]
    /\ handedBack' = FALSE
    /\ UNCHANGED <<commit, handler, question, retired, taken>>

Detached(c) ==
    IF owner = c
    THEN owner' = NoConn /\ worker' = Close(worker)
    ELSE UNCHANGED <<owner, worker>>

\* The receive loop ends (lost, closed by the client or by an error): aclose
\* cancels the coordinator's tasks and the confirmation of the shared buffer,
\* but waits for a submission that is under way.
Disconnect(c) ==
    /\ link[c] = "open" /\ handler[c] = Idle
    /\ buffer' = CancelConfirmation(buffer)
    /\ timers' = IF owner = c THEN NoTimers ELSE timers
    /\ IF commit.by = c /\ commit.phase = "submitting"
       THEN /\ link' = [link EXCEPT ![c] = "closing"]
            /\ UNCHANGED <<owner, worker, commit>>
       ELSE /\ link' = [link EXCEPT ![c] = "closed"]
            /\ Detached(c)
            /\ commit' = IF commit.by = c THEN NoCommit ELSE commit
    /\ UNCHANGED <<handler, acceptEqual, question, retired, taken, handedBack>>

---------------------------------------------------------------------------
(* Messages of the client *)

\* Any message: the worker is available and the session asks this question.
Receive(c) ==
    /\ link[c] = "open" /\ handler[c] = Idle
    /\ Serving(c) /\ question = "asked"
    /\ handler' = [handler EXCEPT ![c] = Fetching]
    /\ UNCHANGED <<buffer, owner, worker, timers, commit, link, acceptEqual,
                   question, retired, taken, handedBack>>

Handling(c) == handler[c].pc = "fetching" /\ handler' = [handler EXCEPT ![c] = Idle]

\* The tasks of a replaced connection are not represented.
SetTimers(c, t) == timers' = IF Serving(c) THEN t ELSE timers

\* An answer being offered that is heard again unchanged.
EquivalentCandidate(text, speech, final) ==
    /\ buffer.state = "complete_candidate"
    /\ buffer.decision.action = "auto_submit"
    /\ buffer.decisionRevision = buffer.revision
    /\ text = buffer.text /\ ~speech /\ final

\* A defect: the tasks of the confirmation survive its cancellation.
InterruptedKeepingTimeouts(t) ==
    [t EXCEPT !.commit = IF buffer.state = "complete_candidate" THEN NoRevision ELSE @]

\* What new words or renewed speech cancel in the state they came in.
Interrupted(t) ==
    [(IF InConfirmation(buffer) THEN CancelConfirmationTimers(t) ELSE t)
        EXCEPT !.commit = IF buffer.state = "complete_candidate" THEN NoRevision ELSE @]

\* A defect: what the transcript interrupts is cancelled last.
TimersAfterTranscriptSwapped(b, carried, accepted) ==
    IF carried THEN Interrupted(Dispatch(timers, b))
    ELSE IF accepted THEN Interrupted([timers EXCEPT !.stall = NoRevision])
    ELSE MaybeScheduleStall(Interrupted(timers), b)

\* The tasks the transcript interrupts are cancelled before new ones start.
TimersAfterTranscript(b, carried, accepted) ==
    LET t == [Interrupted(timers) EXCEPT !.stall = NoRevision]
    IN  CASE carried -> Dispatch(t, b)
          [] accepted /\ ~carried -> t
          [] OTHER -> MaybeScheduleStall(t, b)

\* handle_transcript_updated, with the buffer b and the judgement carried over.
TranscriptTaken(c, b, carried) ==
    LET accepted == Serving(c) /\ Accepts(worker, SnapshotOf(b), b)
    IN  /\ buffer' = b
        /\ worker' = IF accepted THEN Enqueue(worker, SnapshotOf(b)) ELSE worker
        /\ SetTimers(c, TimersAfterTranscript(b, carried, accepted))
        /\ acceptEqual' = [acceptEqual EXCEPT ![c] = FALSE]
        /\ handedBack' = FALSE
        /\ UNCHANGED <<owner, commit, link, question, retired, taken>>

ReceiveTranscript(c) ==
    /\ Handling(c)
    /\ \E rev \in Rev, text \in Answer, speech, final \in BOOLEAN :
        IF acceptEqual[c] /\ rev = buffer.revision
        THEN /\ CanSynchronize(buffer, rev, text)
             /\ TranscriptTaken(c, SynchronizeReconnectSnapshot(buffer, speech, final), FALSE)
        ELSE /\ CanUpdateTranscript(buffer, rev)
             /\ LET carried == EquivalentCandidate(text, speech, final)
                    b == UpdateTranscript(buffer, rev, text, speech, final)
                IN  TranscriptTaken(c, IF carried
                                       THEN ApplyPolicy(RecordDecision(b, rev, buffer.decision),
                                                        buffer.decision)
                                       ELSE b, carried)

\* handle_activity_changed: silence lets a judgement that was held back act.
ReceiveActivity(c) ==
    /\ Handling(c)
    /\ \E rev \in Rev, speech \in BOOLEAN :
        /\ CanUpdateActivity(buffer, rev)
        /\ LET b == UpdateSpeechActivity(buffer, speech)
               held == /\ buffer.speechActive /\ ~speech
                       /\ b.state = "listening" /\ b.segmentFinal
                       /\ b.decisionRevision = rev
                       /\ b.decision.action \in {"auto_submit", "ask_confirmation"}
           IN  /\ buffer' = IF held THEN ApplyPolicy(b, b.decision) ELSE b
               /\ SetTimers(c,
                     CASE speech -> [Interrupted(timers) EXCEPT !.stall = NoRevision]
                       [] held -> Dispatch(timers, buffer')
                       [] OTHER -> MaybeScheduleStall(timers, b))
               /\ handedBack' = (handedBack /\ ~speech)
    /\ UNCHANGED <<owner, worker, commit, link, acceptEqual, question, retired, taken>>

\* handle_confirmation_response_ready: the client has read the question out.
ReceiveResponseReady(c) ==
    /\ Handling(c)
    /\ \E rev \in Rev, id \in ConfirmationId :
        /\ CanMarkResponseReady(buffer, id, rev)
        /\ buffer' = MarkConfirmationResponseReady(buffer)
        /\ SetTimers(c, [timers EXCEPT !.ready = NoConfirmation, !.response = id])
    /\ UNCHANGED <<owner, worker, commit, link, acceptEqual, question, retired,
                   taken, handedBack>>

\* handle_confirmation_response_activity_changed
ReceiveResponseActivity(c) ==
    /\ Handling(c)
    /\ \E rev \in Rev, id \in ConfirmationId, speech \in BOOLEAN :
        /\ CanUpdateResponseActivity(buffer, id, rev, speech)
        /\ buffer' = UpdateConfirmationResponseActivity(buffer, speech)
        /\ SetTimers(c, [timers EXCEPT !.response = IF speech THEN NoConfirmation ELSE id])
    /\ UNCHANGED <<owner, worker, commit, link, acceptEqual, question, retired,
                   taken, handedBack>>

\* handle_confirmation_response up to the classifier: the response timeout is
\* cancelled while the answer to the confirmation is classified.
ReceiveResponse(c) ==
    /\ handler[c].pc = "fetching"
    /\ \E rev \in Rev, id \in ConfirmationId :
        /\ buffer.state = "confirming_end" /\ TargetsConfirmation(buffer, id, rev)
        /\ SetTimers(c, [timers EXCEPT !.response = NoConfirmation])
        /\ handler' = [handler EXCEPT ![c] = Classifying(id)]
    /\ UNCHANGED <<buffer, owner, worker, commit, link, acceptEqual, question,
                   retired, taken, handedBack>>

\* A message refused after the session was read: stale, mistimed or mistaken.
RefuseMessage(c) ==
    /\ Handling(c)
    /\ UNCHANGED <<buffer, owner, worker, timers, commit, link, acceptEqual,
                   question, retired, taken, handedBack>>

\* handle_confirmation_response after the classifier, if the confirmation is
\* still the one that was answered.
Classified(c) ==
    /\ handler[c].pc = "classifying"
    /\ handler' = [handler EXCEPT ![c] = Idle]
    /\ question = "asked"
    /\ \E intent \in Intent, content \in Answer, newRev \in Rev :
        /\ CanApplyIntent(buffer, handler[c].id, buffer.revision, intent, content, newRev)
        /\ buffer' = ApplyConfirmationIntent(buffer, intent, content, newRev)
        /\ LET s == SnapshotOf(buffer')
               accepted == /\ intent = "answer_content"
                           /\ Serving(c) /\ Accepts(worker, s, buffer')
           IN  worker' = IF accepted THEN Enqueue(worker, s) ELSE worker
        /\ SetTimers(c, CASE intent = "finish" -> ScheduleCommit(timers, buffer.revision)
                          [] intent = "answer_content" -> timers
                          [] OTHER -> MaybeScheduleStall(timers, buffer'))
    /\ UNCHANGED <<owner, commit, link, acceptEqual, question, retired, taken, handedBack>>

\* The confirmation is gone, or the interview has moved on.
ClassifiedTooLate(c) ==
    /\ handler[c].pc = "classifying"
    /\ handler' = [handler EXCEPT ![c] = Idle]
    /\ \/ question # "asked"
       \/ buffer.state # "confirming_end" \/ buffer.confirmationId # handler[c].id
    /\ UNCHANGED <<buffer, owner, worker, timers, commit, link, acceptEqual,
                   question, retired, taken, handedBack>>

---------------------------------------------------------------------------
(* The judge *)

JudgeTakes ==
    /\ CanTake(worker)
    /\ worker' = Take(worker)
    /\ UNCHANGED <<buffer, owner, timers, commit, link, handler, acceptEqual,
                   question, retired, taken, handedBack>>

\* The judge answers: recorded and acted on if the answer is still the one
\* judged, dropped otherwise.
JudgeReturns ==
    /\ worker.judging # NoSnapshot
    /\ worker' = Finish(worker)
    /\ IF CanRecordDecision(buffer, worker.judging.revision)
       THEN \E d \in Judgements :
              LET b == RecordDecision(buffer, worker.judging.revision, d)
              IN  IF link[owner] = "open"
                  THEN /\ buffer' = ApplyPolicy(b, d)
                       /\ timers' = Dispatch(timers, buffer')
                  ELSE buffer' = b /\ UNCHANGED timers
       ELSE UNCHANGED <<buffer, timers>>
    /\ UNCHANGED <<owner, commit, link, handler, acceptEqual, question, retired,
                   taken, handedBack>>

---------------------------------------------------------------------------
(* Timers of the serving connection *)

\* _run_stall_timeout: a judgement for submission acts at last, else the
\* candidate is asked, else listening is cut off.
StallFires ==
    LET rev == timers.stall
        t == [timers EXCEPT !.stall = NoRevision]
        b == IF buffer.speechActive THEN UpdateSpeechActivity(buffer, FALSE) ELSE buffer
    IN  /\ rev # NoRevision
        /\ IF /\ question = "asked"
              /\ buffer.revision = rev /\ buffer.text # Blank
              /\ buffer.state = "listening" /\ buffer.segmentFinal
           THEN /\ buffer' =
                     IF CanStartAutoSubmit(b, b.decision) /\ b.decisionRevision = rev
                     THEN ApplyPolicy(b, b.decision)
                     ELSE IF b.confirmationCount < MaxConfirmations
                     THEN ApplyPolicy(RecordDecision(b, rev, StallDecision), StallDecision)
                     ELSE MarkCutoffComplete(b)
                /\ timers' = Dispatch(t, buffer')
           ELSE timers' = t /\ UNCHANGED buffer
        /\ UNCHANGED <<owner, worker, commit, link, handler, acceptEqual, question,
                       retired, taken, handedBack>>

\* _run_confirmation_delay: the confirmation question goes out; if it cannot
\* be sent it is taken back.
ConfirmationDelayFires ==
    LET rev == timers.delay
        t == [timers EXCEPT !.delay = NoRevision]
        id == buffer.confirmationCount + 1
        prompted == BeginConfirmationPrompt(buffer, id)
    IN  /\ rev # NoRevision
        /\ IF /\ CanBeginPrompt(buffer, rev)
              /\ CanStartConfirmation(buffer, buffer.decision)
           THEN \/ /\ buffer' = prompted
                   /\ timers' = [t EXCEPT !.ready = id]
                   /\ UNCHANGED handedBack
                \/ /\ buffer' = CancelConfirmation(prompted)
                   /\ timers' = t
                   /\ handedBack' = TRUE
           ELSE timers' = t /\ UNCHANGED <<buffer, handedBack>>
        /\ UNCHANGED <<owner, worker, commit, link, handler, acceptEqual, question,
                       retired, taken>>

\* _run_confirmation_ready_timeout: the client never read the question out;
\* back to listening, and the stall watch is deliberately left off.
ReadyTimeoutFires ==
    /\ timers.ready # NoConfirmation
    /\ timers' = [timers EXCEPT !.ready = NoConfirmation]
    /\ IF /\ question = "asked"
          /\ buffer.state = "confirmation_prompting" /\ buffer.confirmationId = timers.ready
       THEN buffer' = CancelConfirmation(buffer) /\ handedBack' = TRUE
       ELSE UNCHANGED <<buffer, handedBack>>
    /\ UNCHANGED <<owner, worker, commit, link, handler, acceptEqual, question,
                   retired, taken>>

\* _run_confirmation_response_timeout: no reply; listening is cut off.
ResponseTimeoutFires ==
    LET t == [timers EXCEPT !.response = NoConfirmation]
    IN  /\ timers.response # NoConfirmation
        /\ IF /\ question = "asked"
              /\ buffer.state = "confirming_end" /\ buffer.confirmationId = timers.response
              /\ CanMarkCutoff(buffer, buffer.revision)
           THEN /\ buffer' = MarkCutoffComplete(buffer)
                /\ timers' = ScheduleCommit(t, buffer.revision)
           ELSE timers' = t /\ UNCHANGED buffer
        /\ UNCHANGED <<owner, worker, commit, link, handler, acceptEqual, question,
                       retired, taken, handedBack>>

\* _run_commit_delay after the grace period: the answer is handed to the
\* session, or the offer withdrawn if the session asks something else.
CommitFires ==
    /\ timers.commit # NoRevision
    /\ timers' = [timers EXCEPT !.commit = NoRevision]
    /\ LET current == buffer.state = "complete_candidate" /\ buffer.revision = timers.commit
       IN  IF current /\ question # "asked"
           THEN buffer' = ResumeListening(buffer) /\ UNCHANGED commit
           ELSE IF question = "asked" /\ CanBeginCommit(buffer, timers.commit)
           THEN /\ buffer' = BeginCommit(buffer)
                /\ commit' = [phase |-> "submitting", by |-> owner]
           ELSE UNCHANGED <<buffer, commit>>
    /\ UNCHANGED <<owner, worker, link, handler, acceptEqual, question, retired,
                   taken, handedBack>>

---------------------------------------------------------------------------
(* The submission *)

\* aclose goes on once the submission it waited for is over.
Released(c) ==
    IF link[c] = "closing"
    THEN link' = [link EXCEPT ![c] = "closed"]
         /\ owner' = (IF owner = c THEN NoConn ELSE owner)
    ELSE UNCHANGED <<link, owner>>

\* submit_event returned. The session took the answer if it still asked the
\* question; it may go on asking it (an off-topic answer, a request to repeat).
SubmitSucceeds ==
    /\ commit.phase = "submitting"
    /\ CanEndCommit(buffer, buffer.revision)
    /\ buffer' = MarkCommitted(buffer)
    /\ IF question = "asked"
       THEN taken' = buffer.revision /\ question' \in {"asked", "passed"}
       ELSE UNCHANGED <<taken, question>>
    /\ worker' = Close(worker)
    /\ timers' = NoTimers
    /\ commit' = IF link[commit.by] = "closing" THEN NoCommit
                 ELSE [commit EXCEPT !.phase = "reporting"]
    /\ Released(commit.by)
    /\ UNCHANGED <<handler, acceptEqual, retired, handedBack>>

\* submit_event raised: the answer is given back and the client is told.
SubmitFails ==
    /\ commit.phase = "submitting"
    /\ buffer' = IF CanEndCommit(buffer, buffer.revision) THEN AbortCommit(buffer) ELSE buffer
    /\ worker' = IF link[commit.by] = "closing" THEN Close(worker) ELSE worker
    /\ handedBack' = TRUE
    /\ commit' = NoCommit
    /\ Released(commit.by)
    /\ UNCHANGED <<timers, handler, acceptEqual, question, retired, taken>>

\* on_answer_committed: the client is told and the registry gets an entry for
\* the next question, unless another connection has taken over.
Report ==
    /\ commit.phase = "reporting"
    /\ retired' = (retired \/ owner = commit.by)
    /\ commit' = NoCommit
    /\ UNCHANGED <<buffer, owner, worker, timers, link, handler, acceptEqual,
                   question, taken, handedBack>>

---------------------------------------------------------------------------
(* The REST events API *)

\* An event of the REST API (a typed answer, a silence, an end request) moves
\* the interview on.
InterviewMoves ==
    /\ RestMoves /\ question = "asked"
    /\ question' = "passed"
    /\ UNCHANGED <<buffer, owner, worker, timers, commit, link, handler,
                   acceptEqual, retired, taken, handedBack>>

\* A manual submission, or a connection opened on the next question, replaces
\* the registry's entry and closes its worker.
EntryReplaced ==
    /\ question = "passed" /\ ~retired
    /\ retired' = TRUE
    /\ worker' = Close(worker)
    /\ timers' = NoTimers
    /\ UNCHANGED <<buffer, owner, commit, link, handler, acceptEqual, question,
                   taken, handedBack>>

\* The question is over: nothing more happens to its entry.
TurnOver ==
    /\ \A c \in Conn : link[c] = "closed" \/ link[c] = "new"
    /\ UNCHANGED vars

Handle(c) ==
    \/ ReceiveTranscript(c) \/ ReceiveActivity(c) \/ ReceiveResponseReady(c)
    \/ ReceiveResponseActivity(c) \/ ReceiveResponse(c) \/ RefuseMessage(c)
Classify(c) == Classified(c) \/ ClassifiedTooLate(c)
TimerFires ==
    \/ StallFires \/ ConfirmationDelayFires \/ ReadyTimeoutFires
    \/ ResponseTimeoutFires \/ CommitFires
SubmitReturns == SubmitSucceeds \/ SubmitFails

Next ==
    \/ \E c \in Conn : Connect(c) \/ Disconnect(c) \/ Receive(c) \/ Handle(c) \/ Classify(c)
    \/ JudgeTakes \/ JudgeReturns \/ TimerFires \/ SubmitReturns \/ Report
    \/ InterviewMoves \/ EntryReplaced \/ TurnOver

Spec == Init /\ [][Next]_vars

\* Tasks of the event loop get their turn and what they await answers; the
\* client and the REST API owe nothing.
Fairness ==
    /\ \A c \in Conn : WF_vars(Handle(c)) /\ WF_vars(Classify(c))
    /\ WF_vars(JudgeTakes) /\ WF_vars(JudgeReturns)
    /\ WF_vars(StallFires) /\ WF_vars(ConfirmationDelayFires)
    /\ WF_vars(ReadyTimeoutFires) /\ WF_vars(ResponseTimeoutFires)
    /\ WF_vars(CommitFires) /\ WF_vars(SubmitReturns) /\ WF_vars(Report)

FairSpec == Spec /\ Fairness

---------------------------------------------------------------------------

\* Every variable has its type; only an open connection handles messages and
\* only the connection that submits can be waiting to close.
TypeOK ==
    /\ buffer \in Buffer /\ buffer.revision \in Rev
    /\ owner \in Conn \cup {NoConn}
    /\ worker \in Worker
    /\ timers \in Timers
    /\ commit \in [phase: {"idle", "submitting", "reporting"}, by: Conn \cup {NoConn}]
    /\ link \in [Conn -> {"new", "open", "closing", "closed"}]
    /\ handler \in [Conn -> {Idle, Fetching} \cup {Classifying(id) : id \in ConfirmationId}]
    /\ acceptEqual \in [Conn -> BOOLEAN]
    /\ question \in {"asked", "passed"}
    /\ retired \in BOOLEAN /\ handedBack \in BOOLEAN
    /\ taken \in Rev \cup {NoRevision}
    /\ \A c \in Conn :
        /\ handler[c] # Idle => link[c] = "open"
        /\ link[c] = "closing" => commit = [phase |-> "submitting", by |-> c]

\* Whatever order connections, messages, timers, judgements and submissions
\* come in, the fields of the buffer agree with one another.
BufferSound == Sound(buffer)

\* The connection whose worker is attached, while its socket is open and the
\* turn is not over.
Attended == ~retired /\ question = "asked" /\ owner # NoConn /\ Serving(owner) /\ link[owner] = "open"

\* A state the buffer cannot leave by itself has the task that will take it
\* out: preparing a confirmation its pause, a confirmation being read out or
\* waiting for a reply its timeout (or the classifier at work on the reply,
\* or the reply being spoken), an offer its grace period, a submission the
\* call to the session.  Tasks are started, cancelled and restarted after
\* the buffer's lock is released, in another place than the transition.
NoOrphanState ==
    Attended =>
        /\ buffer.state = "confirmation_pending" => timers.delay = buffer.revision
        /\ buffer.state = "confirmation_prompting" => timers.ready = buffer.confirmationId
        /\ buffer.state = "confirming_end" =>
               \/ timers.response = buffer.confirmationId
               \/ buffer.responseSpeechActive
               \/ handler[owner] = Classifying(buffer.confirmationId)
        /\ buffer.state = "complete_candidate" => timers.commit = buffer.revision
        /\ buffer.state = "committing" => commit.phase = "submitting"

\* A task that is armed fits the state it was armed for, or the revision has
\* moved on: no timer is left to act on a later stage of the same answer.
NoStrayTask ==
    Attended =>
        /\ timers.delay # NoRevision =>
               buffer.state = "confirmation_pending" /\ timers.delay = buffer.revision
        /\ timers.ready # NoConfirmation =>
               buffer.state = "confirmation_prompting" /\ timers.ready = buffer.confirmationId
        /\ timers.response # NoConfirmation =>
               buffer.state = "confirming_end" /\ timers.response = buffer.confirmationId
        /\ timers.commit # NoRevision =>
               buffer.state = "complete_candidate" /\ timers.commit = buffer.revision
        /\ timers.stall # NoRevision =>
               buffer.state = "listening" /\ timers.stall = buffer.revision

\* A submission is under way exactly while the buffer says so, and the
\* connection that made it is the one attached: nobody takes an entry over
\* while its answer is with the session.
SubmitterServes ==
    /\ (buffer.state = "committing") <=> (commit.phase = "submitting")
    /\ commit.phase = "submitting" => owner = commit.by

\* The client says nothing more.
ClientSilent == <>[][\A c \in Conn : ~Receive(c)]_vars

\* Nothing is left for the system to do with the turn of an open connection.
Settled ==
    \/ ~Attended
    \/ buffer.state = "committed"
    \/ handedBack
    \/ acceptEqual[owner]
    \/ buffer.state = "confirming_end" /\ buffer.responseSpeechActive
    \/ buffer.state = "listening" /\ (~buffer.segmentFinal \/ buffer.text = Blank)

\* A candidate who has finished and says nothing more is not left waiting:
\* judge, stall watch, confirmation and cut-off end in the submission of the
\* answer, whichever of them fail to come to a decision.
SilentTurnEnds == ClientSilent => <>[]Settled

---------------------------------------------------------------------------
(* What comments and messages of the code say and its steps do not keep *)

\* An answer marked committed is the one the session took ("the revision that
\* completed its final submission", buffer.py).
CommittedMeansTaken == buffer.state = "committed" => taken = buffer.revision
=============================================================================

--------------------- MODULE TurnCompletionWorkerProofs ---------------------
(***************************************************************************)
(* The worker's safety for every set of words, every minimum length and    *)
(* any number of revisions.                                                *)
(*                                                                         *)
(* None of its invariants is inductive by itself.  That the judge moves    *)
(* forward needs every snapshot it was asked about to be no newer than the *)
(* last accepted one; that a judgement stands beside the words it was made *)
(* about needs every snapshot in flight to be an earlier answer or this    *)
(* very one.                                                               *)
(***************************************************************************)
EXTENDS TurnCompletionWorker, VoiceTurnBufferProofs

\* A snapshot of an earlier answer, or of the one in the buffer.
Known(s) ==
    s.revision <= buffer.revision /\ (s.revision = buffer.revision => s.text = buffer.text)

\* Everything in flight and everything judged is known, and what was accepted
\* last is no newer than the buffer.
AllKnown ==
    /\ worker.pending # NoSnapshot => Known(worker.pending)
    /\ worker.judging # NoSnapshot => Known(worker.judging)
    /\ \A i \in DOMAIN judged : Known(judged[i])

\* What was judged is no newer than what was accepted last, and older than
\* what still waits.
Forward ==
    \A i \in DOMAIN judged :
        /\ judged[i].revision <= worker.acceptedRevision
        /\ worker.pending # NoSnapshot => judged[i].revision < worker.pending.revision

\* The judge was asked about what it is judging.
Asked == worker.judging # NoSnapshot => \E i \in DOMAIN judged : judged[i] = worker.judging

Typed ==
    /\ buffer \in Buffer
    /\ worker \in Worker
    /\ judged \in Seq(Snapshot)

IInv ==
    /\ Typed /\ LatestWins /\ AllKnown
    /\ Forward /\ JudgesForward
    /\ Asked /\ DecisionAboutThisAnswer

\* The worker starts with nothing accepted, waiting or judged.
LEMMA InitIInv == Init => IInv
  <1> SUFFICES ASSUME Init PROVE IInv
    OBVIOUS
  <1> USE DEF Init
  <1>1. Typed
    <2>1. PICK rev \in Rev, text \in Answer, speech \in BOOLEAN, final \in BOOLEAN :
            buffer = [EmptyBuffer EXCEPT !.revision = rev, !.text = text,
                                         !.speechActive = speech, !.segmentFinal = final]
      OBVIOUS
    <2>2. EmptyBuffer \in Buffer
      BY EmptySound DEF Sound
    <2>3. rev \in Nat
      BY MaxRevisionAssumption DEF Rev
    <2>4. buffer \in Buffer
      BY <2>1, <2>2, <2>3 DEF Buffer
    <2>5. worker \in Worker
      BY DEF NewWorker, Worker, NoSnapshot, Revisions, NoRevision, Answer, Blank
    <2> QED BY <2>4, <2>5 DEF Typed
  <1>2. LatestWins /\ AllKnown /\ Forward /\ JudgesForward /\ Asked
    BY DEF NewWorker, LatestWins, RunnerActive, AllKnown, Forward, JudgesForward, Asked
  <1>3. buffer.decision = NoDecision
    BY DEF EmptyBuffer
  <1> QED BY <1>1, <1>2, <1>3 DEF IInv, DecisionAboutThisAnswer

\* A step of the buffer alone that keeps the answer and records no judgement.
LEMMA BufferStep ==
  ASSUME IInv, buffer' \in Buffer, Same(buffer, buffer'),
         buffer'.decision \in {buffer.decision, NoDecision},
         UNCHANGED <<worker, judged>>
  PROVE  IInv'
  BY DEF IInv, Typed, LatestWins, RunnerActive, AllKnown, Known, Forward, JudgesForward,
         Asked, DecisionAboutThisAnswer, Same

\* A newer answer, or the same heard again, is offered to the worker.
LEMMA TranscriptStep ==
  ASSUME IInv, ReceiveTranscript
  PROVE  IInv'
  <1> USE DEF IInv, Typed
  <1>0. buffer.revision \in Nat
    BY DEF Buffer
  <1>1. /\ buffer' \in Buffer /\ buffer'.decision = NoDecision
        /\ buffer'.revision > buffer.revision \/ Same(buffer, buffer')
    <2>1. PICK rev \in Rev, text \in Answer, speech \in BOOLEAN, final \in BOOLEAN :
            \/ /\ CanUpdateTranscript(buffer, rev)
               /\ buffer' = UpdateTranscript(buffer, rev, text, speech, final)
            \/ /\ CanSynchronize(buffer, rev, text)
               /\ buffer' = SynchronizeReconnectSnapshot(buffer, speech, final)
      BY DEF ReceiveTranscript
    <2>2. rev \in Nat
      BY MaxRevisionAssumption DEF Rev
    <2>3. CASE /\ CanUpdateTranscript(buffer, rev)
               /\ buffer' = UpdateTranscript(buffer, rev, text, speech, final)
      BY <2>2, <2>3, ClearedFields DEF CanUpdateTranscript, UpdateTranscript, Buffer
    <2>4. CASE /\ CanSynchronize(buffer, rev, text)
               /\ buffer' = SynchronizeReconnectSnapshot(buffer, speech, final)
      BY <2>4, ClearedFields DEF SynchronizeReconnectSnapshot, Same, Buffer
    <2> QED BY <2>1, <2>3, <2>4
  <1> DEFINE s == SnapshotOf(buffer')
  <1>2. /\ s \in Snapshot /\ s # NoSnapshot /\ s.revision = buffer'.revision
        /\ s.text = buffer'.text /\ buffer'.revision \in Nat
    BY <1>1 DEF SnapshotOf, Snapshot, NoSnapshot, NoRevision, Buffer
  <1>3. UNCHANGED judged
    BY DEF ReceiveTranscript
  <1>4. worker' = worker \/ (s.revision > worker.acceptedRevision /\ worker' = Enqueue(worker, s))
    BY DEF ReceiveTranscript, Offered, Accepts
  <1>5. AllKnown' /\ DecisionAboutThisAnswer'
    <2>1. ASSUME NEW t \in Snapshot, Known(t)
          PROVE  t.revision <= buffer'.revision
                 /\ (t.revision = buffer'.revision => t.text = buffer'.text)
      BY <1>0, <1>1, <1>2, <2>1 DEF Known, Snapshot, Same
    <2>2. \A i \in DOMAIN judged : judged[i] \in Snapshot
      OBVIOUS
    <2>3. worker'.judging = worker.judging /\ worker'.pending \in {worker.pending, s}
      BY <1>4 DEF Enqueue, Worker
    <2> HIDE DEF s
    <2> QED BY <1>1, <1>2, <1>3, <2>1, <2>2, <2>3
         DEF AllKnown, Known, DecisionAboutThisAnswer, Worker
  <1>6. CASE worker' = worker
    BY <1>1, <1>3, <1>5, <1>6
    DEF LatestWins, RunnerActive, Forward, JudgesForward, Asked
  <1>7. CASE s.revision > worker.acceptedRevision /\ worker' = Enqueue(worker, s)
    <2>1. /\ worker'.pending = s /\ worker'.judging = worker.judging
          /\ worker'.acceptedRevision = s.revision /\ worker'.acceptedText = s.text
          /\ worker'.acceptedFinal = s.final
      BY <1>7 DEF Enqueue, Worker
    <2>2. worker' \in Worker
      BY <1>2, <1>7 DEF Enqueue, Worker, Snapshot, Revisions
    <2>3. worker.judging # NoSnapshot => worker.judging.revision <= worker.acceptedRevision
      BY DEF LatestWins, RunnerActive, Worker, Snapshot, Revisions, NoRevision
    <2>4. /\ worker.judging \in Snapshot \cup {NoSnapshot}
          /\ worker.acceptedRevision \in Int
      BY DEF Worker, Revisions, NoRevision
    <2>5. LatestWins'
      BY <1>2, <1>7, <2>1, <2>3, <2>4
      DEF LatestWins, RunnerActive, Snapshot
    <2>6. \A i \in DOMAIN judged : judged[i].revision \in Nat
      <3>1. \A i \in DOMAIN judged : judged[i] \in Snapshot
        OBVIOUS
      <3>2. \A t \in Snapshot : t.revision \in Nat
        BY DEF Snapshot
      <3> QED BY <3>1, <3>2
    <2>7. Forward'
      BY <1>2, <1>3, <1>7, <2>1, <2>4, <2>6 DEF Forward
    <2> QED
      BY <1>1, <1>3, <1>5, <2>1, <2>2, <2>5, <2>7 DEF JudgesForward, Asked
  <1> QED BY <1>4, <1>6, <1>7

\* The judge is asked about the snapshot that waits.
LEMMA TakeStep ==
  ASSUME IInv, JudgeTakes
  PROVE  IInv'
  <1> USE DEF IInv, Typed
  <1> DEFINE s == worker.pending
  <1>1. /\ s \in Snapshot /\ s # NoSnapshot /\ worker.judging = NoSnapshot
        /\ worker' = Take(worker) /\ judged' = Append(judged, s)
        /\ UNCHANGED buffer
    BY DEF JudgeTakes, CanTake, Worker
  <1>2. /\ worker'.pending = NoSnapshot /\ worker'.judging = s
        /\ worker'.acceptedRevision = worker.acceptedRevision
        /\ worker'.acceptedText = worker.acceptedText
        /\ worker'.acceptedFinal = worker.acceptedFinal
        /\ worker' \in Worker
    BY <1>1 DEF Take, Worker
  <1>3. /\ judged' \in Seq(Snapshot) /\ Len(judged) \in Nat
        /\ DOMAIN judged' = DOMAIN judged \cup {Len(judged) + 1}
        /\ \A i \in DOMAIN judged : judged'[i] = judged[i] /\ i < Len(judged) + 1
        /\ judged'[Len(judged) + 1] = s
        /\ \A i \in DOMAIN judged : i \in Nat
    BY <1>1
  <1>4. /\ s.revision = worker.acceptedRevision
        /\ s.text = worker.acceptedText /\ s.final = worker.acceptedFinal
    BY <1>1 DEF LatestWins, RunnerActive
  <1>5. LatestWins' /\ Asked'
    BY <1>1, <1>2, <1>3, <1>4 DEF LatestWins, RunnerActive, Asked
  <1>6. AllKnown' /\ DecisionAboutThisAnswer'
    BY <1>1, <1>2, <1>3 DEF AllKnown, Known, DecisionAboutThisAnswer
  <1>7. Forward'
    BY <1>1, <1>2, <1>3, <1>4 DEF Forward, Snapshot
  <1>8. JudgesForward'
    <2> SUFFICES ASSUME NEW i \in DOMAIN judged', NEW j \in DOMAIN judged', i < j
                 PROVE  judged'[i].revision < judged'[j].revision
      BY DEF JudgesForward
    <2>1. i \in DOMAIN judged
      BY <1>3
    <2>2. CASE j \in DOMAIN judged
      BY <1>3, <2>1, <2>2 DEF JudgesForward
    <2>3. CASE j = Len(judged) + 1
      BY <1>1, <1>3, <2>1, <2>3 DEF Forward
    <2> QED BY <1>3, <2>2, <2>3
  <1> QED BY <1>1, <1>2, <1>3, <1>5, <1>6, <1>7, <1>8

\* The worker gives up what it has in flight, all of it or what is judged.
LEMMA DropStep ==
  ASSUME IInv, worker' \in {Finish(worker), Close(worker)}, UNCHANGED <<buffer, judged>>
  PROVE  IInv'
  <1> USE DEF IInv, Typed
  <1>1. /\ worker'.pending \in {worker.pending, NoSnapshot} /\ worker'.judging = NoSnapshot
        /\ worker'.acceptedRevision = worker.acceptedRevision
        /\ worker'.acceptedText = worker.acceptedText
        /\ worker'.acceptedFinal = worker.acceptedFinal
        /\ worker' \in Worker
    BY DEF Finish, Close, Worker
  <1> QED
    BY <1>1 DEF LatestWins, RunnerActive, AllKnown, Known, Forward, JudgesForward,
                Asked, DecisionAboutThisAnswer

\* The judgement is recorded if the answer is still the one judged.
LEMMA AnswerStep ==
  ASSUME IInv, JudgeAnswers
  PROVE  IInv'
  <1> USE DEF IInv, Typed
  <1> DEFINE rev == worker.judging.revision
  <1>1. worker' = Finish(worker) /\ UNCHANGED judged /\ worker.judging # NoSnapshot
    BY DEF JudgeAnswers
  <1>2. CASE ~CanRecordDecision(buffer, rev)
    <2>1. UNCHANGED buffer
      BY <1>2 DEF JudgeAnswers
    <2> QED BY <1>1, <2>1, DropStep
  <1>3. CASE CanRecordDecision(buffer, rev)
    <2>1. PICK d \in Decision : buffer' = RecordDecision(buffer, rev, d)
      BY <1>3 DEF JudgeAnswers
    <2>2. rev = buffer.revision /\ rev \in Nat
      BY <1>3 DEF CanRecordDecision, Buffer
    <2>3. buffer' \in Buffer /\ Same(buffer, buffer')
      BY <2>1, <2>2, RecordFields
    <2>4. \E i \in DOMAIN judged :
            judged[i].revision = buffer.revision /\ judged[i].text = buffer.text
      BY <1>1, <2>2 DEF Asked, AllKnown, Known
    <2>5. /\ worker'.pending = worker.pending /\ worker'.judging = NoSnapshot
          /\ worker'.acceptedRevision = worker.acceptedRevision
          /\ worker'.acceptedText = worker.acceptedText
          /\ worker'.acceptedFinal = worker.acceptedFinal
          /\ worker' \in Worker
      BY <1>1 DEF Finish, Worker
    <2> QED
      BY <1>1, <2>3, <2>4, <2>5
      DEF LatestWins, RunnerActive, AllKnown, Known, Forward, JudgesForward, Asked,
          DecisionAboutThisAnswer, Same
  <1> QED BY <1>2, <1>3

\* Every step keeps the invariant.
LEMMA NextIInv == IInv /\ [Next]_vars => IInv'
  <1> SUFFICES ASSUME IInv, [Next]_vars PROVE IInv'
    OBVIOUS
  <1>0. buffer \in Buffer /\ buffer.revision \in Nat
    BY DEF IInv, Typed, Buffer
  <1>1. CASE ReceiveTranscript
    BY <1>1, TranscriptStep
  <1>2. CASE ReceiveActivity
    <2>1. PICK speech \in BOOLEAN : buffer' = UpdateSpeechActivity(buffer, speech)
      BY <1>2 DEF ReceiveActivity
    <2>2. buffer' \in Buffer /\ Same(buffer, buffer')
      BY <1>0, <2>1, ActivityFields
    <2>3. buffer'.decision \in {buffer.decision, NoDecision}
      BY <1>0, <2>1, ClearedFields DEF UpdateSpeechActivity, Buffer
    <2> QED BY <1>2, <2>2, <2>3, BufferStep DEF ReceiveActivity
  <1>3. CASE Decide
    <2>1. \/ buffer' = MarkCompleteCandidate(buffer, "semantic_complete")
          \/ buffer' = MarkConfirmationPending(buffer)
      BY <1>3 DEF Decide
    <2>2. /\ buffer' \in Buffer /\ Same(buffer, buffer')
          /\ buffer'.decision = buffer.decision
      BY <1>0, <2>1
      DEF MarkCompleteCandidate, MarkConfirmationPending, Same, Buffer, State, Reason
    <2> QED BY <1>3, <2>2, BufferStep DEF Decide
  <1>4. CASE Resume
    <2>1. /\ buffer' \in Buffer /\ Same(buffer, buffer')
          /\ buffer'.decision = NoDecision
      BY <1>0, <1>4, ClearedFields DEF Resume, ResumeListening, Same
    <2> QED BY <1>4, <2>1, BufferStep DEF Resume
  <1>5. CASE JudgeTakes
    BY <1>5, TakeStep
  <1>6. CASE JudgeAnswers
    BY <1>6, AnswerStep
  <1>7. CASE JudgeFails \/ Cancel
    BY <1>7, DropStep DEF JudgeFails, Cancel
  <1>8. CASE UNCHANGED vars
    BY <1>0, <1>8, BufferStep DEF vars, Same
  <1> QED BY <1>1, <1>2, <1>3, <1>4, <1>5, <1>6, <1>7, <1>8 DEF Next

\* The invariant holds in every behaviour of the worker.
THEOREM WorkerInvariance == Spec => []IInv
  BY InitIInv, NextIInv, PTL DEF Spec

\* What is judged last is the latest snapshot accepted.
THEOREM LatestWinsHolds == Spec => []LatestWins
  <1>1. IInv => LatestWins
    BY DEF IInv
  <1> QED BY <1>1, WorkerInvariance, PTL

\* The judge is asked about ever newer revisions.
THEOREM JudgesForwardHolds == Spec => []JudgesForward
  <1>1. IInv => JudgesForward
    BY DEF IInv
  <1> QED BY <1>1, WorkerInvariance, PTL

\* A judgement on record was made about the very words it stands beside,
\* however long the judge took and whatever was heard meanwhile.
THEOREM DecisionAboutThisAnswerHolds == Spec => []DecisionAboutThisAnswer
  <1>1. IInv => DecisionAboutThisAnswer
    BY DEF IInv
  <1> QED BY <1>1, WorkerInvariance, PTL
=============================================================================

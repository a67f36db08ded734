---------------------- MODULE TurnCompletionWorkerOps ----------------------
(***************************************************************************)
(* The operations of one LatestWinsTurnCompletionWorker                    *)
(* (turn_completion/worker.py), which asks the judge whether an answer is  *)
(* complete.                                                               *)
(*                                                                         *)
(* The runner task is alive exactly while a snapshot waits or is being     *)
(* judged: it is created when a snapshot is accepted and ends, with no     *)
(* await in between, when it finds none.  The code between two awaits runs *)
(* as one step, so neither lock of the worker is ever contended.           *)
(* Waiting for the rate limit only delays Take.                            *)
(***************************************************************************)
EXTENDS VoiceTurnBufferOps, FiniteSets

CONSTANT MinTextLength   \* turn_completion_min_text_length, in words

ASSUME MinTextLengthAssumption == MinTextLength \in Nat \ {0}

Snapshot == [revision: Nat, text: Answer, speech: BOOLEAN, final: BOOLEAN]
NoSnapshot == [revision |-> NoRevision, text |-> Blank, speech |-> FALSE, final |-> FALSE]

Worker == [closed: BOOLEAN,
           pending: Snapshot \cup {NoSnapshot},
           judging: Snapshot \cup {NoSnapshot},
           acceptedRevision: Revisions,
           acceptedText: Answer,
           acceptedFinal: BOOLEAN]

NewWorker == [closed |-> FALSE,
              pending |-> NoSnapshot,
              judging |-> NoSnapshot,
              acceptedRevision |-> NoRevision,
              acceptedText |-> Blank,
              acceptedFinal |-> FALSE]

SnapshotOf(b) == [revision |-> b.revision, text |-> b.text,
                  speech |-> b.speechActive, final |-> b.segmentFinal]

RunnerActive(w) == w.pending # NoSnapshot \/ w.judging # NoSnapshot

\* _is_meaningful_update
Meaningful(w, s) ==
    \/ w.acceptedRevision = NoRevision
    \/ s.final /\ (s.text # w.acceptedText \/ ~w.acceptedFinal)
    \/ ~s.final /\ Cardinality(s.text) - Cardinality(w.acceptedText) >= MinTextLength

\* submit: is the snapshot worth a judgement?
Accepts(w, s, b) ==
    /\ ~w.closed
    /\ b.state = "listening" /\ s = SnapshotOf(b)
    /\ s.text # Blank
    /\ s.final \/ Cardinality(s.text) >= MinTextLength
    /\ s.revision > w.acceptedRevision
    /\ s.text # w.acceptedText \/ s.final # w.acceptedFinal
    /\ RunnerActive(w) \/ Meaningful(w, s)

\* A defect for the mutation runs: the snapshot already waiting stays.
EnqueueBehind(w, s) ==
    [w EXCEPT !.pending = IF w.pending = NoSnapshot THEN s ELSE @,
              !.acceptedRevision = s.revision,
              !.acceptedText = s.text,
              !.acceptedFinal = s.final]

\* submit, once accepted: the snapshot replaces the one waiting.
Enqueue(w, s) == [w EXCEPT !.pending = s,
                           !.acceptedRevision = s.revision,
                           !.acceptedText = s.text,
                           !.acceptedFinal = s.final]

\* The runner calls the judge, one snapshot at a time.
CanTake(w) == ~w.closed /\ w.pending # NoSnapshot /\ w.judging = NoSnapshot

Take(w) == [w EXCEPT !.judging = w.pending, !.pending = NoSnapshot]

\* A defect: what came in during the call is dropped with it.
FinishForgetting(w) == [w EXCEPT !.judging = NoSnapshot, !.pending = NoSnapshot]

\* The judge answered or failed.
Finish(w) == [w EXCEPT !.judging = NoSnapshot]

\* cancel: nothing waits and the runner is cancelled where it awaits.
Close(w) == [w EXCEPT !.closed = TRUE, !.pending = NoSnapshot, !.judging = NoSnapshot]
=============================================================================

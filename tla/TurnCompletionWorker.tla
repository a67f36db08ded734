------------------------ MODULE TurnCompletionWorker ------------------------
(***************************************************************************)
(* One LatestWinsTurnCompletionWorker and the buffer it watches: snapshots *)
(* are submitted as the transcript grows, the judge is asked about the     *)
(* latest only, and its answer counts only if nothing newer was heard.     *)
(* Of what else moves the buffer there is here only what takes it out of   *)
(* listening on a judgement of this worker and back; VoiceTurnCoordinator  *)
(* has the rest.                                                           *)
(***************************************************************************)
EXTENDS VoiceTurnBuffer, TurnCompletionWorkerOps, Sequences

VARIABLES worker,
          acceptEqual,  \* the reconnected client may send its snapshot again
          judged        \* the snapshots the judge was asked about, in order

vars == <<buffer, worker, acceptEqual, judged>>

\* A connection opens on a new question, or on an answer kept from before.
Init ==
    /\ \E rev \in Rev, text \in Answer, speech, final \in BOOLEAN :
         /\ rev = 0 => text = Blank /\ ~speech /\ ~final
         /\ buffer = [EmptyBuffer EXCEPT !.revision = rev, !.text = text,
                                         !.speechActive = speech, !.segmentFinal = final]
    /\ worker = NewWorker
    /\ acceptEqual = (buffer.revision > 0)
    /\ judged = <<>>

\* submit: the snapshot waits for the judge, or is not worth one.
Offered(w, b) == IF Accepts(w, SnapshotOf(b), b) THEN Enqueue(w, SnapshotOf(b)) ELSE w

ReceiveTranscript ==
    \E rev \in Rev, text \in Answer, speech, final \in BOOLEAN :
        /\ \/ /\ CanUpdateTranscript(buffer, rev)
              /\ buffer' = UpdateTranscript(buffer, rev, text, speech, final)
           \/ /\ acceptEqual /\ CanSynchronize(buffer, rev, text)
              /\ buffer' = SynchronizeReconnectSnapshot(buffer, speech, final)
        /\ worker' = Offered(worker, buffer')
        /\ acceptEqual' = FALSE
        /\ UNCHANGED judged

ReceiveActivity ==
    \E rev \in Rev, speech \in BOOLEAN :
        /\ CanUpdateActivity(buffer, rev)
        /\ buffer' = UpdateSpeechActivity(buffer, speech)
        /\ UNCHANGED <<worker, acceptEqual, judged>>

\* A judgement that was recorded takes the buffer out of listening.
Decide ==
    /\ \/ /\ CanMarkCandidate(buffer, buffer.revision)
          /\ buffer' = MarkCompleteCandidate(buffer, "semantic_complete")
       \/ /\ CanMarkPending(buffer, buffer.revision)
          /\ buffer' = MarkConfirmationPending(buffer)
    /\ UNCHANGED <<worker, acceptEqual, judged>>

\* The offer is withdrawn or the confirmation comes to nothing.
Resume ==
    /\ buffer.state # "listening"
    /\ buffer' = ResumeListening(buffer)
    /\ UNCHANGED <<worker, acceptEqual, judged>>

JudgeTakes ==
    /\ CanTake(worker)
    /\ worker' = Take(worker)
    /\ judged' = Append(judged, worker.pending)
    /\ UNCHANGED <<buffer, acceptEqual>>

\* _apply_latest_result
JudgeAnswers ==
    /\ worker.judging # NoSnapshot
    /\ \E d \in Decision :
         buffer' = IF CanRecordDecision(buffer, worker.judging.revision)
                   THEN RecordDecision(buffer, worker.judging.revision, d)
                   ELSE buffer
    /\ worker' = Finish(worker)
    /\ UNCHANGED <<acceptEqual, judged>>

\* The judge raised: the runner goes on with the next snapshot.
JudgeFails ==
    /\ worker.judging # NoSnapshot
    /\ worker' = Finish(worker)
    /\ UNCHANGED <<buffer, acceptEqual, judged>>

Cancel == worker' = Close(worker) /\ UNCHANGED <<buffer, acceptEqual, judged>>

Next ==
    \/ ReceiveTranscript \/ ReceiveActivity
    \/ Decide \/ Resume
    \/ JudgeTakes \/ JudgeAnswers \/ JudgeFails \/ Cancel

Spec == Init /\ [][Next]_vars

\* The runner is scheduled and the judge answers or fails in the end: its call
\* has a timeout.
Fairness == WF_vars(JudgeTakes) /\ WF_vars(JudgeAnswers \/ JudgeFails)

FairSpec == Spec /\ Fairness

---------------------------------------------------------------------------

\* The variables have their types.
TypeOK ==
    /\ buffer \in Buffer /\ buffer.revision \in Rev
    /\ worker \in Worker
    /\ acceptEqual \in BOOLEAN
    /\ judged \in Seq(Snapshot)

\* The snapshot that will be judged last is the latest one accepted: a newer
\* one replaces the one waiting and never the one being judged.
LatestWins ==
    /\ RunnerActive(worker) =>
          LET last == IF worker.pending # NoSnapshot THEN worker.pending
                                                    ELSE worker.judging
          IN  /\ last.revision = worker.acceptedRevision
              /\ last.text = worker.acceptedText /\ last.final = worker.acceptedFinal
    /\ worker.pending # NoSnapshot /\ worker.judging # NoSnapshot =>
          worker.pending.revision > worker.judging.revision

\* The judge is asked about ever newer revisions, never twice about one.
JudgesForward ==
    \A i, j \in DOMAIN judged : i < j => judged[i].revision < judged[j].revision

\* A judgement on record was made about the words it stands beside.
DecisionAboutThisAnswer ==
    buffer.decision # NoDecision =>
        \E i \in DOMAIN judged :
            judged[i].revision = buffer.revision /\ judged[i].text = buffer.text

\* An accepted snapshot is judged unless a newer one is, or the worker closes:
\* calling the judge at intervals and one call at a time loses none.
AcceptedIsJudged ==
    \A rev \in Rev :
        worker.acceptedRevision = rev ~>
            \/ worker.closed
            \/ \E i \in DOMAIN judged : judged[i].revision >= rev
=============================================================================

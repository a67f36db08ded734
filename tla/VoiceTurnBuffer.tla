-------------------------- MODULE VoiceTurnBuffer --------------------------
(***************************************************************************)
(* One VoiceTurnBuffer under every sequence of calls its methods accept.   *)
(* A method may be called with any argument: an event of the client, an    *)
(* answer of the judge or of the classifier, an expired timer.  The calls  *)
(* run one at a time under the lock of the registry entry.                 *)
(***************************************************************************)
EXTENDS VoiceTurnBufferOps

CONSTANTS MaxRevision   \* bound of the model: the highest revision sent

ASSUME MaxRevisionAssumption == MaxRevision \in Nat

VARIABLE buffer   \* the VoiceTurnBuffer of the question asked

Rev == 0..MaxRevision

BufferInit == buffer = EmptyBuffer

HearTranscript ==
    \E rev \in Rev, text \in Answer, speech, final \in BOOLEAN :
        /\ CanUpdateTranscript(buffer, rev)
        /\ buffer' = UpdateTranscript(buffer, rev, text, speech, final)

ReceiveReconnectSnapshot ==
    \E rev \in Rev, text \in Answer, speech, final \in BOOLEAN :
        /\ CanSynchronize(buffer, rev, text)
        /\ buffer' = SynchronizeReconnectSnapshot(buffer, speech, final)

HearActivity ==
    \E rev \in Rev, speech \in BOOLEAN :
        /\ CanUpdateActivity(buffer, rev)
        /\ buffer' = UpdateSpeechActivity(buffer, speech)

RecordJudgement ==
    \E rev \in Rev, d \in Decision :
        /\ CanRecordDecision(buffer, rev)
        /\ buffer' = RecordDecision(buffer, rev, d)

MarkCandidate ==
    \E rev \in Rev, reason \in {"semantic_complete", "explicit_finish"} :
        /\ CanMarkCandidate(buffer, rev)
        /\ buffer' = MarkCompleteCandidate(buffer, reason)

MarkPending ==
    \E rev \in Rev :
        /\ CanMarkPending(buffer, rev)
        /\ buffer' = MarkConfirmationPending(buffer)

MarkCutoff ==
    \E rev \in Rev :
        /\ CanMarkCutoff(buffer, rev)
        /\ buffer' = MarkCutoffComplete(buffer)

BeginPrompt ==
    \E rev \in Rev, id \in ConfirmationId :
        /\ CanBeginPrompt(buffer, rev)
        /\ buffer' = BeginConfirmationPrompt(buffer, id)

HearResponseReady ==
    \E rev \in Rev, id \in ConfirmationId :
        /\ CanMarkResponseReady(buffer, id, rev)
        /\ buffer' = MarkConfirmationResponseReady(buffer)

HearResponseActivity ==
    \E rev \in Rev, id \in ConfirmationId, speech \in BOOLEAN :
        /\ CanUpdateResponseActivity(buffer, id, rev, speech)
        /\ buffer' = UpdateConfirmationResponseActivity(buffer, speech)

ApplyIntent ==
    \E rev, newRev \in Rev, id \in ConfirmationId, intent \in Intent,
       content \in Answer :
        /\ CanApplyIntent(buffer, id, rev, intent, content, newRev)
        /\ buffer' = ApplyConfirmationIntent(buffer, intent, content, newRev)

Drop == buffer' = CancelConfirmation(buffer)

ReturnToListening == buffer.state # "committed" /\ buffer' = ResumeListening(buffer)

StartCommit ==
    \E rev \in Rev :
        /\ CanBeginCommit(buffer, rev)
        /\ buffer' = BeginCommit(buffer)

CommitFails ==
    \E rev \in Rev :
        /\ CanEndCommit(buffer, rev)
        /\ buffer' = AbortCommit(buffer)

CommitSucceeds ==
    \E rev \in Rev :
        /\ CanEndCommit(buffer, rev)
        /\ buffer' = MarkCommitted(buffer)

\* A committed buffer accepts no call: it is kept until the registry
\* replaces its entry.
Retained == buffer.state = "committed" /\ UNCHANGED buffer

BufferNext ==
    \/ HearTranscript \/ ReceiveReconnectSnapshot \/ HearActivity
    \/ RecordJudgement \/ MarkCandidate \/ MarkPending \/ MarkCutoff
    \/ BeginPrompt \/ HearResponseReady \/ HearResponseActivity
    \/ ApplyIntent \/ Drop \/ ReturnToListening
    \/ StartCommit \/ CommitFails \/ CommitSucceeds \/ Retained

BufferSpec == BufferInit /\ [][BufferNext]_buffer

---------------------------------------------------------------------------

\* The buffer's fields have their types, its revision is one the client sent
\* and one question is confirmed at most MaxConfirmations times.
BufferTypeOK ==
    /\ buffer \in Buffer
    /\ buffer.revision \in Rev
    /\ buffer.confirmationCount <= MaxConfirmations

\* After every sequence of calls the fields still agree with one another as
\* the class's validator demands.  The validator does not run on the
\* assignments the methods make, so every method must restore it by itself.
StateConsistency == Consistent(buffer)

\* What is offered or submitted is never blank.
NeverSubmitBlank == NonblankOffer(buffer)

\* A judgement never outlives the revision it was made about, and what the
\* buffer does because of a judgement it does while that judgement is there:
\* an answer offered on a judgement has one for auto_submit, a confirmation
\* in preparation or under way one for ask_confirmation.
JudgementBacksState == JudgementCurrent(buffer)

Submission == INSTANCE AnswerSubmission
    WITH phase <- Phase(buffer.state), revision <- buffer.revision,
         answer <- buffer.text

\* The buffer implements AnswerSubmission, by itself and with connections,
\* timers and judgements at work on it: the answer handed to the interview is
\* the one that was offered, it cannot change while it is under way, a newer
\* transcript withdraws the offer, and nothing follows the submission.
SubmissionSpec == Submission!Spec
=============================================================================

----------------------- MODULE VoiceTurnBufferProofs -----------------------
(***************************************************************************)
(* Every operation of the buffer leaves a Sound buffer Sound.  From this   *)
(* follows that every behaviour of the buffer keeps it Sound and implements*)
(* AnswerSubmission, for any set of words, any number of revisions and any *)
(* number of confirmations.                                                *)
(*                                                                         *)
(* The lemmas of the first part speak of one buffer and of no behaviour:   *)
(* the proofs about the users of the buffer cite them too.                 *)
(***************************************************************************)
EXTENDS VoiceTurnBuffer, TLAPS

\* The buffer of a newly asked question is Sound.
LEMMA EmptySound == Sound(EmptyBuffer)
  BY MaxConfirmationsAssumption, NoConfirmationAssumption
  DEF Sound, EmptyBuffer, Buffer, Consistent, Quiet, NonblankOffer,
      JudgementCurrent, InConfirmation, State, Revisions, NoRevision,
      NoDecision, Decision, NoReason, Reason, Answer, Blank

\* What the return to listening keeps and what it sets.
LEMMA ClearedFields ==
  ASSUME NEW b, b \in Buffer
  PROVE  /\ Cleared(b) \in Buffer
         /\ Cleared(b).revision = b.revision
         /\ Cleared(b).text = b.text
         /\ Cleared(b).speechActive = b.speechActive
         /\ Cleared(b).state = "listening"
         /\ Cleared(b).decision = NoDecision
         /\ Cleared(b).confirmationCount = b.confirmationCount
  BY DEF Cleared, Buffer, State, Revisions, NoRevision, NoDecision, NoReason

\* The same answer.
Same(b, c) == c.revision = b.revision /\ c.text = b.text

\* A change of the speech flag: the answer stays, and unless somebody speaks
\* so does the state.
LEMMA ActivityFields ==
  ASSUME NEW b \in Buffer, NEW speech \in BOOLEAN
  PROVE  /\ UpdateSpeechActivity(b, speech) \in Buffer
         /\ Same(b, UpdateSpeechActivity(b, speech))
         /\ UpdateSpeechActivity(b, speech).state = IF speech THEN "listening" ELSE b.state
  <1>1. CASE speech
    BY <1>1, ClearedFields DEF UpdateSpeechActivity, Same, Buffer
  <1>2. CASE ~speech
    BY <1>2 DEF UpdateSpeechActivity, Same, Buffer
  <1> QED BY <1>1, <1>2

\* A judgement on record changes neither the answer nor the state.
LEMMA RecordFields ==
  ASSUME NEW b \in Buffer, NEW rev \in Nat, NEW d \in Decision
  PROVE  /\ RecordDecision(b, rev, d) \in Buffer
         /\ Same(b, RecordDecision(b, rev, d))
         /\ RecordDecision(b, rev, d).state = b.state
  BY DEF RecordDecision, Same, Buffer, Revisions

\* The tail every return to listening shares keeps any buffer Sound that was
\* not submitted.
LEMMA ClearedSound ==
  ASSUME NEW b, Sound(b), b.state # "committed"
  PROVE  Sound(Cleared(b))
  BY NoConfirmationAssumption
  DEF Sound, Cleared, Buffer, Consistent, Quiet, NonblankOffer, JudgementCurrent,
      InConfirmation, State, Revisions, NoRevision, NoDecision, NoReason

\* In a listening buffer with no judgement the answer may become any other.
LEMMA RewrittenSound ==
  ASSUME NEW b, Sound(b), b.state = "listening", b.decision = NoDecision,
         NEW rev \in Nat, NEW text \in Answer,
         NEW speech \in BOOLEAN, NEW final \in BOOLEAN
  PROVE  Sound([b EXCEPT !.revision = rev, !.text = text,
                         !.speechActive = speech, !.segmentFinal = final])
  <1> DEFINE c == [b EXCEPT !.revision = rev, !.text = text,
                            !.speechActive = speech, !.segmentFinal = final]
  <1>1. c \in Buffer /\ c.confirmationCount <= MaxConfirmations
    BY DEF Sound, Buffer
  <1>2. Consistent(c)
    BY DEF Sound, Consistent, Buffer, NoRevision
  <1>3. Quiet(c) /\ NonblankOffer(c)
    BY DEF Quiet, NonblankOffer, Sound, Buffer
  <1>4. JudgementCurrent(c)
    BY DEF Sound, Consistent, JudgementCurrent, InConfirmation, Buffer, NoReason
  <1> QED BY <1>1, <1>2, <1>3, <1>4 DEF Sound

\* Nor does it matter there what is heard of the candidate.
LEMMA HeardSound ==
  ASSUME NEW b, Sound(b), b.state = "listening", b.decision = NoDecision,
         NEW speech \in BOOLEAN, NEW final \in BOOLEAN
  PROVE  Sound([b EXCEPT !.speechActive = speech, !.segmentFinal = final])
  <1> DEFINE c == [b EXCEPT !.speechActive = speech, !.segmentFinal = final]
  <1>1. c \in Buffer /\ c.confirmationCount <= MaxConfirmations
    BY DEF Sound, Buffer
  <1>2. Consistent(c)
    BY DEF Sound, Consistent, Buffer, NoRevision
  <1>3. Quiet(c) /\ NonblankOffer(c)
    BY DEF Quiet, NonblankOffer, Sound, Buffer
  <1>4. JudgementCurrent(c)
    BY DEF Sound, Consistent, JudgementCurrent, InConfirmation, Buffer, NoReason
  <1> QED BY <1>1, <1>2, <1>3, <1>4 DEF Sound

---------------------------------------------------------------------------

\* A newer transcript keeps the buffer Sound.
LEMMA UpdateTranscriptSound ==
  ASSUME NEW b, Sound(b), NEW rev \in Nat, NEW text \in Answer,
         NEW speech \in BOOLEAN, NEW final \in BOOLEAN,
         CanUpdateTranscript(b, rev)
  PROVE  Sound(UpdateTranscript(b, rev, text, speech, final))
  <1>1. Sound(Cleared(b))
    BY ClearedSound DEF CanUpdateTranscript, Submitted
  <1> QED
    BY <1>1, RewrittenSound, ClearedFields DEF UpdateTranscript, Sound

\* So does the snapshot a reconnected client sends again.
LEMMA SynchronizeSound ==
  ASSUME NEW b, Sound(b), NEW rev \in Nat, NEW text \in Answer,
         NEW speech \in BOOLEAN, NEW final \in BOOLEAN,
         CanSynchronize(b, rev, text)
  PROVE  Sound(SynchronizeReconnectSnapshot(b, speech, final))
  <1>1. Sound(Cleared(b))
    BY ClearedSound DEF CanSynchronize, Submitted
  <1> QED
    BY <1>1, HeardSound, ClearedFields DEF SynchronizeReconnectSnapshot, Sound

\* Hearing the candidate start or stop speaking keeps the buffer Sound.
LEMMA UpdateActivitySound ==
  ASSUME NEW b, Sound(b), NEW rev \in Nat, NEW speech \in BOOLEAN,
         CanUpdateActivity(b, rev)
  PROVE  Sound(UpdateSpeechActivity(b, speech))
  <1>1. CASE speech
    <2>1. Sound(Cleared(b))
      BY ClearedSound DEF CanUpdateActivity, Submitted
    <2> QED
      BY <1>1, <2>1, HeardSound, ClearedFields DEF UpdateSpeechActivity, Sound
  <1>2. CASE ~speech
    BY <1>2 DEF UpdateSpeechActivity, Sound, Buffer, Consistent, Quiet,
                NonblankOffer, JudgementCurrent, InConfirmation
  <1> QED BY <1>1, <1>2

\* Recording a judgement of the current revision keeps the buffer Sound.
LEMMA RecordDecisionSound ==
  ASSUME NEW b, Sound(b), NEW rev \in Nat, NEW d \in Decision,
         CanRecordDecision(b, rev)
  PROVE  Sound(RecordDecision(b, rev, d))
  <1> DEFINE c == RecordDecision(b, rev, d)
  <1> USE DEF RecordDecision, CanRecordDecision, Sound
  <1>1. c \in Buffer /\ c.confirmationCount <= MaxConfirmations
    BY DEF Buffer, Revisions
  <1>2. Consistent(c)
    BY DEF Consistent, Buffer, NoRevision, Decision, NoDecision, Action
  <1>3. Quiet(c) /\ NonblankOffer(c)
    BY DEF Quiet, NonblankOffer, Buffer
  <1>4. JudgementCurrent(c)
    BY DEF Consistent, JudgementCurrent, InConfirmation, Buffer, NoReason
  <1> QED BY <1>1, <1>2, <1>3, <1>4

\* Offering the answer on a judgement keeps the buffer Sound.
LEMMA MarkCandidateSound ==
  ASSUME NEW b, Sound(b), NEW rev \in Nat,
         NEW reason \in {"semantic_complete", "explicit_finish"},
         CanMarkCandidate(b, rev)
  PROVE  Sound(MarkCompleteCandidate(b, reason))
  BY DEF CanMarkCandidate, MarkCompleteCandidate, Actionable, Sound, Buffer,
         Consistent, Quiet, NonblankOffer, JudgementCurrent, InConfirmation,
         State, NoReason, Reason

\* Preparing a confirmation on a judgement keeps the buffer Sound.
LEMMA MarkPendingSound ==
  ASSUME NEW b, Sound(b), NEW rev \in Nat, CanMarkPending(b, rev)
  PROVE  Sound(MarkConfirmationPending(b))
  BY DEF CanMarkPending, MarkConfirmationPending, Actionable, Sound, Buffer,
         Consistent, Quiet, NonblankOffer, JudgementCurrent, InConfirmation,
         State, NoReason, Reason

\* Cutting listening off keeps the buffer Sound.
LEMMA MarkCutoffSound ==
  ASSUME NEW b, Sound(b), NEW rev \in Nat, CanMarkCutoff(b, rev)
  PROVE  Sound(MarkCutoffComplete(b))
  BY DEF CanMarkCutoff, MarkCutoffComplete, Sound, Buffer,
         Consistent, Quiet, NonblankOffer, JudgementCurrent, InConfirmation,
         State, NoReason, Reason, NoRevision, Revisions

\* Asking the confirmation question keeps the buffer Sound.
LEMMA BeginPromptSound ==
  ASSUME NEW b, Sound(b), NEW rev \in Nat, NEW id \in ConfirmationId,
         CanBeginPrompt(b, rev)
  PROVE  Sound(BeginConfirmationPrompt(b, id))
  <1> DEFINE c == BeginConfirmationPrompt(b, id)
  <1>1. /\ b \in Buffer
        /\ b.confirmationCount + 1 \in Nat
        /\ b.confirmationCount + 1 <= MaxConfirmations
    BY MaxConfirmationsAssumption DEF Sound, CanBeginPrompt, Buffer
  <1>2. c \in Buffer /\ c.confirmationCount <= MaxConfirmations
    BY <1>1 DEF BeginConfirmationPrompt, Buffer, Revisions, State
  <1>3. Consistent(c)
    BY NoConfirmationAssumption
    DEF BeginConfirmationPrompt, CanBeginPrompt, Sound, Consistent, Buffer, NoRevision
  <1>4. Quiet(c) /\ NonblankOffer(c) /\ JudgementCurrent(c)
    BY DEF BeginConfirmationPrompt, CanBeginPrompt, Sound, Quiet, NonblankOffer,
           JudgementCurrent, InConfirmation, Buffer
  <1> QED BY <1>2, <1>3, <1>4 DEF Sound

\* Waiting for the reply keeps the buffer Sound.
LEMMA ResponseReadySound ==
  ASSUME NEW b, Sound(b), NEW id, NEW rev, CanMarkResponseReady(b, id, rev)
  PROVE  Sound(MarkConfirmationResponseReady(b))
  BY DEF CanMarkResponseReady, MarkConfirmationResponseReady, Sound, Buffer,
         Consistent, Quiet, NonblankOffer, JudgementCurrent, InConfirmation, State

\* Hearing the reply begin or end keeps the buffer Sound.
LEMMA ResponseActivitySound ==
  ASSUME NEW b, Sound(b), NEW id, NEW rev, NEW speech \in BOOLEAN,
         CanUpdateResponseActivity(b, id, rev, speech)
  PROVE  Sound(UpdateConfirmationResponseActivity(b, speech))
  BY DEF CanUpdateResponseActivity, UpdateConfirmationResponseActivity, Sound,
         Buffer, Consistent, Quiet, NonblankOffer, JudgementCurrent, InConfirmation

\* Offering an answer the candidate confirmed keeps the buffer Sound.
LEMMA UserConfirmedSound ==
  ASSUME NEW b, Sound(b), CanMarkUserConfirmed(b)
  PROVE  Sound(MarkUserConfirmedComplete(b))
  BY DEF CanMarkUserConfirmed, MarkUserConfirmedComplete, Sound, Buffer,
         Consistent, Quiet, NonblankOffer, JudgementCurrent, InConfirmation,
         State, NoReason, Reason, NoRevision, Revisions

\* Whatever the reply to the confirmation meant, the buffer stays Sound.
LEMMA ApplyIntentSound ==
  ASSUME NEW b, Sound(b), NEW id, NEW rev, NEW intent \in Intent,
         NEW content \in Answer, NEW newRev \in Nat,
         CanApplyIntent(b, id, rev, intent, content, newRev)
  PROVE  Sound(ApplyConfirmationIntent(b, intent, content, newRev))
  <1>1. CASE intent = "finish"
    BY <1>1, UserConfirmedSound DEF CanApplyIntent, ApplyConfirmationIntent
  <1>2. CASE intent = "answer_content"
    <2>1. Sound(Cleared(b))
      BY ClearedSound DEF CanApplyIntent
    <2>2. b.text \cup content \in Answer
      BY DEF Sound, Buffer, Answer
    <2>3. newRev \in Nat /\ FALSE \in BOOLEAN
      OBVIOUS
    <2>4. Sound(AppendAnswer(b, content, newRev))
      BY <2>1, <2>2, <2>3, RewrittenSound, ClearedFields DEF AppendAnswer, Sound
    <2> QED
      BY <1>2, <2>4 DEF ApplyConfirmationIntent
  <1>3. CASE intent \notin {"finish", "answer_content"}
    BY <1>3, ClearedSound
    DEF CanApplyIntent, ApplyConfirmationIntent, ResumeListening
  <1> QED BY <1>1, <1>2, <1>3

\* Cancelling a confirmation, if there is one, keeps the buffer Sound.
LEMMA CancelSound ==
  ASSUME NEW b, Sound(b)
  PROVE  Sound(CancelConfirmation(b))
  BY ClearedSound DEF CancelConfirmation, ResumeListening, InConfirmation

\* Starting the submission keeps the buffer Sound.
LEMMA BeginCommitSound ==
  ASSUME NEW b, Sound(b), NEW rev, CanBeginCommit(b, rev)
  PROVE  Sound(BeginCommit(b))
  BY DEF CanBeginCommit, BeginCommit, Sound, Buffer, Consistent, Quiet,
         NonblankOffer, JudgementCurrent, InConfirmation, State

\* Ending the submission keeps the buffer Sound.
LEMMA MarkCommittedSound ==
  ASSUME NEW b, Sound(b), NEW rev, CanEndCommit(b, rev)
  PROVE  Sound(MarkCommitted(b))
  <1> DEFINE c == MarkCommitted(b)
  <1> USE DEF CanEndCommit, MarkCommitted, Sound
  <1>1. c \in Buffer
    BY DEF Buffer, Revisions, NoRevision, State
  <1>2. c.confirmationCount <= MaxConfirmations
    BY DEF Buffer
  <1>3. Consistent(c)
    BY DEF Consistent, Buffer, NoRevision
  <1>4. Quiet(c) /\ NonblankOffer(c) /\ JudgementCurrent(c)
    BY DEF Quiet, NonblankOffer, JudgementCurrent, InConfirmation, Buffer, NoReason
  <1> QED BY <1>1, <1>2, <1>3, <1>4

---------------------------------------------------------------------------
(* The buffer alone, under every sequence of calls. *)

\* The inductive invariant.
BufferInv == Sound(buffer) /\ buffer.revision \in Rev

\* A new buffer satisfies the invariant.
LEMMA InitInv == BufferInit => BufferInv
  BY EmptySound, MaxRevisionAssumption DEF BufferInit, BufferInv, EmptyBuffer, Rev

\* Dropping the confirmation or the offer keeps the invariant.
LEMMA ClearedInv ==
  ASSUME BufferInv, buffer.state # "committed", buffer' = Cleared(buffer)
  PROVE  BufferInv'
  <1>1. Cleared(buffer).revision = buffer.revision
    BY ClearedFields DEF BufferInv, Sound
  <1> QED BY <1>1, ClearedSound DEF BufferInv

\* Every call the buffer accepts keeps the invariant.
LEMMA NextInv == BufferInv /\ [BufferNext]_buffer => BufferInv'
  <1> SUFFICES ASSUME BufferInv, [BufferNext]_buffer PROVE BufferInv'
    OBVIOUS
  <1>0. /\ Sound(buffer) /\ buffer \in Buffer
        /\ buffer.revision \in Rev
        /\ Rev \subseteq Nat
    BY MaxRevisionAssumption DEF BufferInv, Sound, Rev
  <1>1. CASE HearTranscript
    <2>1. PICK rev \in Rev, text \in Answer, speech \in BOOLEAN, final \in BOOLEAN :
            /\ CanUpdateTranscript(buffer, rev)
            /\ buffer' = UpdateTranscript(buffer, rev, text, speech, final)
      BY <1>1 DEF HearTranscript
    <2>2. Sound(buffer')
      BY <1>0, <2>1, UpdateTranscriptSound
    <2>3. buffer'.revision = rev
      BY <1>0, <2>1, ClearedFields DEF UpdateTranscript, Buffer
    <2> QED BY <2>2, <2>3 DEF BufferInv
  <1>2. CASE ReceiveReconnectSnapshot
    <2>1. PICK rev \in Rev, text \in Answer, speech \in BOOLEAN, final \in BOOLEAN :
            /\ CanSynchronize(buffer, rev, text)
            /\ buffer' = SynchronizeReconnectSnapshot(buffer, speech, final)
      BY <1>2 DEF ReceiveReconnectSnapshot
    <2>2. Sound(buffer')
      BY <1>0, <2>1, SynchronizeSound
    <2>3. buffer'.revision = buffer.revision
      BY <1>0, <2>1, ClearedFields DEF SynchronizeReconnectSnapshot, Buffer
    <2> QED BY <1>0, <2>2, <2>3 DEF BufferInv
  <1>3. CASE HearActivity
    <2>1. PICK rev \in Rev, speech \in BOOLEAN :
            /\ CanUpdateActivity(buffer, rev)
            /\ buffer' = UpdateSpeechActivity(buffer, speech)
      BY <1>3 DEF HearActivity
    <2>2. Sound(buffer')
      BY <1>0, <2>1, UpdateActivitySound
    <2>3. buffer'.revision = buffer.revision
      BY <1>0, <2>1, ClearedFields DEF UpdateSpeechActivity, Buffer
    <2> QED BY <1>0, <2>2, <2>3 DEF BufferInv
  <1>4. CASE RecordJudgement
    <2>1. PICK rev \in Rev, d \in Decision :
            /\ CanRecordDecision(buffer, rev)
            /\ buffer' = RecordDecision(buffer, rev, d)
      BY <1>4 DEF RecordJudgement
    <2>2. Sound(buffer')
      BY <1>0, <2>1, RecordDecisionSound
    <2>3. buffer'.revision = buffer.revision
      BY <1>0, <2>1 DEF RecordDecision, Buffer
    <2> QED BY <1>0, <2>2, <2>3 DEF BufferInv
  <1>5. CASE MarkCandidate
    <2>1. PICK rev \in Rev, reason \in {"semantic_complete", "explicit_finish"} :
            /\ CanMarkCandidate(buffer, rev)
            /\ buffer' = MarkCompleteCandidate(buffer, reason)
      BY <1>5 DEF MarkCandidate
    <2>2. Sound(buffer')
      BY <1>0, <2>1, MarkCandidateSound
    <2>3. buffer'.revision = buffer.revision
      BY <1>0, <2>1 DEF MarkCompleteCandidate, Buffer
    <2> QED BY <1>0, <2>2, <2>3 DEF BufferInv
  <1>6. CASE MarkPending
    <2>1. PICK rev \in Rev :
            /\ CanMarkPending(buffer, rev)
            /\ buffer' = MarkConfirmationPending(buffer)
      BY <1>6 DEF MarkPending
    <2>2. Sound(buffer')
      BY <1>0, <2>1, MarkPendingSound
    <2>3. buffer'.revision = buffer.revision
      BY <1>0, <2>1 DEF MarkConfirmationPending, Buffer
    <2> QED BY <1>0, <2>2, <2>3 DEF BufferInv
  <1>7. CASE MarkCutoff
    <2>1. PICK rev \in Rev :
            /\ CanMarkCutoff(buffer, rev)
            /\ buffer' = MarkCutoffComplete(buffer)
      BY <1>7 DEF MarkCutoff
    <2>2. Sound(buffer')
      BY <1>0, <2>1, MarkCutoffSound
    <2>3. buffer'.revision = buffer.revision
      BY <1>0, <2>1 DEF MarkCutoffComplete, Buffer
    <2> QED BY <1>0, <2>2, <2>3 DEF BufferInv
  <1>8. CASE BeginPrompt
    <2>1. PICK rev \in Rev, id \in ConfirmationId :
            /\ CanBeginPrompt(buffer, rev)
            /\ buffer' = BeginConfirmationPrompt(buffer, id)
      BY <1>8 DEF BeginPrompt
    <2>2. Sound(buffer')
      BY <1>0, <2>1, BeginPromptSound
    <2>3. buffer'.revision = buffer.revision
      BY <1>0, <2>1 DEF BeginConfirmationPrompt, Buffer
    <2> QED BY <1>0, <2>2, <2>3 DEF BufferInv
  <1>9. CASE HearResponseReady
    <2>1. PICK rev \in Rev, id \in ConfirmationId :
            /\ CanMarkResponseReady(buffer, id, rev)
            /\ buffer' = MarkConfirmationResponseReady(buffer)
      BY <1>9 DEF HearResponseReady
    <2>2. Sound(buffer')
      BY <1>0, <2>1, ResponseReadySound
    <2>3. buffer'.revision = buffer.revision
      BY <1>0, <2>1 DEF MarkConfirmationResponseReady, Buffer
    <2> QED BY <1>0, <2>2, <2>3 DEF BufferInv
  <1>10. CASE HearResponseActivity
    <2>1. PICK rev \in Rev, id \in ConfirmationId, speech \in BOOLEAN :
            /\ CanUpdateResponseActivity(buffer, id, rev, speech)
            /\ buffer' = UpdateConfirmationResponseActivity(buffer, speech)
      BY <1>10 DEF HearResponseActivity
    <2>2. Sound(buffer')
      BY <1>0, <2>1, ResponseActivitySound
    <2>3. buffer'.revision = buffer.revision
      BY <1>0, <2>1 DEF UpdateConfirmationResponseActivity, Buffer
    <2> QED BY <1>0, <2>2, <2>3 DEF BufferInv
  <1>11. CASE ApplyIntent
    <2>1. PICK rev \in Rev, newRev \in Rev, id \in ConfirmationId,
               intent \in Intent, content \in Answer :
            /\ CanApplyIntent(buffer, id, rev, intent, content, newRev)
            /\ buffer' = ApplyConfirmationIntent(buffer, intent, content, newRev)
      BY <1>11 DEF ApplyIntent
    <2>2. Sound(buffer')
      BY <1>0, <2>1, ApplyIntentSound
    <2>3. MarkUserConfirmedComplete(buffer).revision = buffer.revision
      BY <1>0 DEF MarkUserConfirmedComplete, Buffer
    <2>4. AppendAnswer(buffer, content, newRev).revision = newRev
      BY <1>0, ClearedFields DEF AppendAnswer, Buffer
    <2>5. buffer'.revision \in {buffer.revision, newRev}
      BY <1>0, <2>1, <2>3, <2>4, ClearedFields
      DEF ApplyConfirmationIntent, ResumeListening, Intent
    <2> QED BY <1>0, <2>2, <2>5 DEF BufferInv
  <1>12. CASE Drop
    BY <1>12, ClearedInv
    DEF Drop, CancelConfirmation, ResumeListening, InConfirmation, BufferInv
  <1>13. CASE ReturnToListening
    BY <1>13, ClearedInv DEF ReturnToListening, ResumeListening
  <1>14. CASE StartCommit
    <2>1. PICK rev \in Rev : CanBeginCommit(buffer, rev) /\ buffer' = BeginCommit(buffer)
      BY <1>14 DEF StartCommit
    <2>2. Sound(buffer')
      BY <1>0, <2>1, BeginCommitSound
    <2>3. buffer'.revision = buffer.revision
      BY <1>0, <2>1 DEF BeginCommit, Buffer
    <2> QED BY <1>0, <2>2, <2>3 DEF BufferInv
  <1>15. CASE CommitFails
    BY <1>15, ClearedInv DEF CommitFails, CanEndCommit, AbortCommit, ResumeListening
  <1>16. CASE CommitSucceeds
    <2>1. PICK rev \in Rev : CanEndCommit(buffer, rev) /\ buffer' = MarkCommitted(buffer)
      BY <1>16 DEF CommitSucceeds
    <2>2. Sound(buffer')
      BY <1>0, <2>1, MarkCommittedSound
    <2>3. buffer'.revision = buffer.revision
      BY <1>0, <2>1 DEF MarkCommitted, Buffer
    <2> QED BY <1>0, <2>2, <2>3 DEF BufferInv
  <1>17. CASE Retained \/ UNCHANGED buffer
    BY <1>17 DEF Retained, BufferInv
  <1> QED
    BY <1>1, <1>2, <1>3, <1>4, <1>5, <1>6, <1>7, <1>8, <1>9, <1>10, <1>11,
       <1>12, <1>13, <1>14, <1>15, <1>16, <1>17 DEF BufferNext

\* The buffer is Sound in every behaviour.
THEOREM Invariance == BufferSpec => []BufferInv
  BY InitInv, NextInv, PTL DEF BufferSpec

\* Whatever the client, the judge, the classifier and the timers do in
\* whatever order, the fields of the buffer agree as validate_state_consistency
\* demands, though it never runs again after the buffer is built.
THEOREM StateConsistencyHolds == BufferSpec => []StateConsistency
  <1>1. BufferInv => StateConsistency
    BY DEF BufferInv, Sound, StateConsistency
  <1> QED BY <1>1, Invariance, PTL

\* A judgement about an older revision is never there to be acted on, and an
\* offer or a confirmation rests on a judgement of the present revision.
THEOREM JudgementBacksStateHolds == BufferSpec => []JudgementBacksState
  <1>1. BufferInv => JudgementBacksState
    BY DEF BufferInv, Sound, JudgementBacksState
  <1> QED BY <1>1, Invariance, PTL

\* No blank answer is ever offered or submitted.
THEOREM NeverSubmitBlankHolds == BufferSpec => []NeverSubmitBlank
  <1>1. BufferInv => NeverSubmitBlank
    BY DEF BufferInv, Sound, NeverSubmitBlank
  <1> QED BY <1>1, Invariance, PTL

---------------------------------------------------------------------------
(* The buffer implements AnswerSubmission. *)

\* Going back to listening withdraws the offer, gives the answer back, or is
\* not seen from outside.
LEMMA ClearedRefines ==
  ASSUME BufferInv, buffer.state # "committed", buffer' = Cleared(buffer)
  PROVE  [Submission!Next]_(Submission!vars)
  <1>1. /\ buffer'.state = "listening"
        /\ buffer'.revision = buffer.revision
        /\ buffer'.text = buffer.text
    BY ClearedFields DEF BufferInv, Sound
  <1>2. buffer.state \in State
    BY DEF BufferInv, Sound, Buffer
  <1> QED
    BY <1>1, <1>2 DEF Phase, State, Submission!Next, Submission!vars,
                      Submission!Withdraw, Submission!Reject

\* Every call maps to a step of AnswerSubmission or to none.
LEMMA NextRefines ==
  BufferInv /\ [BufferNext]_buffer => [Submission!Next]_(Submission!vars)
  <1> SUFFICES ASSUME BufferInv, [BufferNext]_buffer
               PROVE  [Submission!Next]_(Submission!vars)
    OBVIOUS
  <1>0. /\ Sound(buffer) /\ buffer \in Buffer /\ buffer.state \in State
        /\ buffer.text \in Answer /\ buffer.revision \in Nat
        /\ Rev \subseteq Nat
    BY MaxRevisionAssumption DEF BufferInv, Sound, Rev, Buffer
  <1> DEFINE Kept == buffer'.revision = buffer.revision /\ buffer'.text = buffer.text
  <1>a. ASSUME Kept, Phase(buffer'.state) = Phase(buffer.state)
        PROVE  UNCHANGED Submission!vars
    BY <1>a DEF Submission!vars
  <1>b. ASSUME Kept, Phase(buffer.state) = "collecting", buffer.text # Blank,
               buffer'.state = "complete_candidate"
        PROVE  Submission!Offer
    BY <1>b DEF Submission!Offer, Phase, Blank
  <1>c. ASSUME buffer'.state = "listening", ~Submitted(buffer),
               buffer'.revision \in Nat, buffer'.revision > buffer.revision,
               buffer'.text \in Answer
        PROVE  Submission!Revise
    BY <1>0, <1>c DEF Submission!Revise, Phase, Submitted, State
  <1>1. CASE HearTranscript
    <2>1. PICK rev \in Rev, text \in Answer, speech \in BOOLEAN, final \in BOOLEAN :
            /\ CanUpdateTranscript(buffer, rev)
            /\ buffer' = UpdateTranscript(buffer, rev, text, speech, final)
      BY <1>1 DEF HearTranscript
    <2>2. /\ buffer'.revision = rev /\ buffer'.text = text
          /\ buffer'.state = "listening"
      BY <1>0, <2>1, ClearedFields DEF UpdateTranscript, Buffer
    <2>3. Submission!Revise
      BY <1>0, <1>c, <2>1, <2>2 DEF CanUpdateTranscript
    <2> QED BY <2>3 DEF Submission!Next
  <1>2. CASE ReceiveReconnectSnapshot
    <2>1. PICK rev \in Rev, text \in Answer, speech \in BOOLEAN, final \in BOOLEAN :
            /\ CanSynchronize(buffer, rev, text)
            /\ buffer' = SynchronizeReconnectSnapshot(buffer, speech, final)
      BY <1>2 DEF ReceiveReconnectSnapshot
    <2>2. Kept /\ buffer'.state = "listening"
      BY <1>0, <2>1, ClearedFields DEF SynchronizeReconnectSnapshot, Buffer
    <2> QED
      BY <1>0, <2>1, <2>2 DEF CanSynchronize, Submitted, Phase, State,
         Submission!Next, Submission!vars, Submission!Withdraw
  <1>3. CASE HearActivity
    <2>1. PICK rev \in Rev, speech \in BOOLEAN :
            /\ CanUpdateActivity(buffer, rev)
            /\ buffer' = UpdateSpeechActivity(buffer, speech)
      BY <1>3 DEF HearActivity
    <2>2. Kept /\ buffer'.state \in {buffer.state, "listening"}
      BY <1>0, <2>1, ClearedFields DEF UpdateSpeechActivity, Buffer
    <2> QED
      BY <1>0, <2>1, <2>2 DEF CanUpdateActivity, Submitted, Phase, State,
         Submission!Next, Submission!vars, Submission!Withdraw
  <1>4. CASE RecordJudgement
    <2>1. Kept /\ buffer'.state = buffer.state
      BY <1>0, <1>4 DEF RecordJudgement, RecordDecision, Buffer
    <2> QED BY <1>a, <2>1
  <1>5. CASE MarkCandidate
    <2>1. Kept /\ buffer'.state = "complete_candidate"
      BY <1>0, <1>5 DEF MarkCandidate, MarkCompleteCandidate, Buffer
    <2>2. buffer.state = "listening" /\ buffer.text # Blank
      BY <1>5 DEF MarkCandidate, CanMarkCandidate
    <2> QED BY <1>b, <2>1, <2>2 DEF Phase, Submission!Next
  <1>6. CASE MarkPending
    <2>1. Kept /\ buffer'.state = "confirmation_pending"
      BY <1>0, <1>6 DEF MarkPending, MarkConfirmationPending, Buffer
    <2>2. buffer.state = "listening"
      BY <1>6 DEF MarkPending, CanMarkPending
    <2> QED BY <1>a, <2>1, <2>2 DEF Phase
  <1>7. CASE MarkCutoff
    <2>1. Kept /\ buffer'.state = "complete_candidate"
      BY <1>0, <1>7 DEF MarkCutoff, MarkCutoffComplete, Buffer
    <2>2. buffer.state \in {"listening", "confirming_end"} /\ buffer.text # Blank
      BY <1>7 DEF MarkCutoff, CanMarkCutoff
    <2> QED BY <1>b, <2>1, <2>2 DEF Phase, Submission!Next
  <1>8. CASE BeginPrompt
    <2>1. Kept /\ buffer'.state = "confirmation_prompting"
      BY <1>0, <1>8 DEF BeginPrompt, BeginConfirmationPrompt, Buffer
    <2>2. buffer.state = "confirmation_pending"
      BY <1>8 DEF BeginPrompt, CanBeginPrompt
    <2> QED BY <1>a, <2>1, <2>2 DEF Phase
  <1>9. CASE HearResponseReady
    <2>1. Kept /\ buffer'.state = "confirming_end"
      BY <1>0, <1>9 DEF HearResponseReady, MarkConfirmationResponseReady, Buffer
    <2>2. buffer.state = "confirmation_prompting"
      BY <1>9 DEF HearResponseReady, CanMarkResponseReady
    <2> QED BY <1>a, <2>1, <2>2 DEF Phase
  <1>10. CASE HearResponseActivity
    <2>1. Kept /\ buffer'.state = buffer.state
      BY <1>0, <1>10
      DEF HearResponseActivity, UpdateConfirmationResponseActivity, Buffer
    <2> QED BY <1>a, <2>1
  <1>11. CASE ApplyIntent
    <2>1. PICK rev \in Rev, newRev \in Rev, id \in ConfirmationId,
               intent \in Intent, content \in Answer :
            /\ CanApplyIntent(buffer, id, rev, intent, content, newRev)
            /\ buffer' = ApplyConfirmationIntent(buffer, intent, content, newRev)
      BY <1>11 DEF ApplyIntent
    <2>2. buffer.state = "confirming_end"
      BY <2>1 DEF CanApplyIntent
    <2>3. CASE intent = "finish"
      <3>1. buffer' = MarkUserConfirmedComplete(buffer) /\ buffer.text # Blank
        BY <2>1, <2>3
        DEF ApplyConfirmationIntent, CanApplyIntent, CanMarkUserConfirmed
      <3>2. Kept /\ buffer'.state = "complete_candidate"
        BY <1>0, <3>1 DEF MarkUserConfirmedComplete, Buffer
      <3> QED BY <1>b, <2>2, <3>1, <3>2 DEF Phase, Submission!Next
    <2>4. CASE intent = "answer_content"
      <3>1. buffer' = AppendAnswer(buffer, content, newRev) /\ newRev > buffer.revision
        BY <2>1, <2>4 DEF ApplyConfirmationIntent, CanApplyIntent
      <3>2. /\ buffer'.revision = newRev
            /\ buffer'.text = buffer.text \cup content
            /\ buffer'.state = "listening"
        BY <1>0, <3>1, ClearedFields DEF AppendAnswer, Buffer
      <3>3. buffer.text \cup content \in Answer
        BY <1>0 DEF Answer
      <3>4. Submission!Revise
        BY <1>0, <1>c, <2>2, <3>1, <3>2, <3>3 DEF Submitted
      <3> QED BY <3>4 DEF Submission!Next
    <2>5. CASE intent \notin {"finish", "answer_content"}
      BY <2>1, <2>2, <2>5, ClearedRefines
      DEF ApplyConfirmationIntent, ResumeListening
    <2> QED BY <2>3, <2>4, <2>5
  <1>12. CASE Drop
    <2>1. CASE InConfirmation(buffer)
      BY <1>12, <2>1, ClearedRefines
      DEF Drop, CancelConfirmation, ResumeListening, InConfirmation
    <2>2. CASE ~InConfirmation(buffer)
      BY <1>12, <2>2, <1>a DEF Drop, CancelConfirmation
    <2> QED BY <2>1, <2>2
  <1>13. CASE ReturnToListening
    BY <1>13, ClearedRefines DEF ReturnToListening, ResumeListening
  <1>14. CASE StartCommit
    <2>1. Kept /\ buffer'.state = "committing"
      BY <1>0, <1>14 DEF StartCommit, BeginCommit, Buffer
    <2>2. buffer.state = "complete_candidate"
      BY <1>14 DEF StartCommit, CanBeginCommit
    <2> QED BY <2>1, <2>2 DEF Phase, Submission!Next, Submission!Submit
  <1>15. CASE CommitFails
    BY <1>15, ClearedRefines
    DEF CommitFails, CanEndCommit, AbortCommit, ResumeListening
  <1>16. CASE CommitSucceeds
    <2>1. Kept /\ buffer'.state = "committed"
      BY <1>0, <1>16 DEF CommitSucceeds, MarkCommitted, Buffer
    <2>2. buffer.state = "committing"
      BY <1>16 DEF CommitSucceeds, CanEndCommit
    <2> QED BY <2>1, <2>2 DEF Phase, Submission!Next, Submission!Accept
  <1>17. CASE Retained \/ UNCHANGED buffer
    BY <1>17, <1>a DEF Retained
  <1> QED
    BY <1>1, <1>2, <1>3, <1>4, <1>5, <1>6, <1>7, <1>8, <1>9, <1>10, <1>11,
       <1>12, <1>13, <1>14, <1>15, <1>16, <1>17 DEF BufferNext

\* The buffer implements AnswerSubmission: what reaches the interview is the
\* answer that was offered, frozen from the hand-over on and handed over once.
THEOREM Refinement == BufferSpec => SubmissionSpec
  <1>1. BufferInit => Submission!Init
    BY DEF BufferInit, EmptyBuffer, Phase, Blank, Submission!Init
  <1> QED
    BY <1>1, NextRefines, Invariance, PTL DEF BufferSpec, SubmissionSpec, Submission!Spec
=============================================================================

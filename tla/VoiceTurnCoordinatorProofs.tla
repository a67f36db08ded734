--------------------- MODULE VoiceTurnCoordinatorProofs ---------------------
(***************************************************************************)
(* What holds however connections, messages, timers, judgements and        *)
(* submissions interleave, for any number of connections and revisions.    *)
(*                                                                         *)
(* The buffer they share stays Sound.  Sound is inductive by itself: what  *)
(* a step does to the buffer is a composition of the buffer's operations,  *)
(* each called where its guard holds, and VoiceTurnBufferProofs has a      *)
(* lemma for each of them.                                                 *)
(*                                                                         *)
(* The turn implements AnswerSubmission, and the connection that submits   *)
(* stays attached: every step but those of the submission only Collects.   *)
(*                                                                         *)
(* The variables keep their types.                                         *)
(*                                                                         *)
(* If connections do not overlap, the armed tasks are exactly those the    *)
(* buffer's state needs (TasksFit).  That is inductive together with       *)
(* Ready (a confirmation that was prepared can still be started, so the    *)
(* end of its pause is not lost) and Solo (one connection is live).        *)
(***************************************************************************)
EXTENDS VoiceTurnCoordinator, VoiceTurnBufferProofs

\* Acting on a judgement just recorded keeps the buffer Sound.
LEMMA ApplyPolicySound ==
  ASSUME NEW b, Sound(b), NEW d
  PROVE  Sound(ApplyPolicy(b, d))
  <1>1. b.revision \in Nat
    BY DEF Sound, Buffer
  <1> DEFINE auto == CanStartAutoSubmit(b, d) /\ CanMarkCandidate(b, b.revision)
             reason == IF d.explicit THEN "explicit_finish" ELSE "semantic_complete"
             ask == CanStartConfirmation(b, d) /\ CanMarkPending(b, b.revision)
  <1>2. CASE auto
    <2>1. reason \in {"semantic_complete", "explicit_finish"}
      OBVIOUS
    <2>2. Sound(MarkCompleteCandidate(b, reason))
      BY <1>1, <1>2, <2>1, MarkCandidateSound
    <2> QED BY <1>2, <2>2 DEF ApplyPolicy
  <1>3. CASE ~auto /\ ask
    <2>1. Sound(MarkConfirmationPending(b))
      BY <1>1, <1>3, MarkPendingSound
    <2> QED BY <1>3, <2>1 DEF ApplyPolicy
  <1>4. CASE ~auto /\ ~ask
    BY <1>4 DEF ApplyPolicy
  <1> QED BY <1>2, <1>3, <1>4

\* Dropping what a previous connection had in preparation keeps the buffer
\* Sound.
LEMMA PreparedSound ==
  ASSUME NEW b, Sound(b)
  PROVE  Sound(Prepared(b))
  <1>1. Sound(CancelConfirmation(b))
    BY CancelSound
  <1>2. ASSUME NEW c, Sound(c), c.state \in {"complete_candidate", "listening"}
        PROVE  Sound(ResumeListening(c))
    BY <1>2, ClearedSound DEF ResumeListening
  <1> QED BY <1>1, <1>2 DEF Prepared

\* A transcript keeps the buffer Sound, also when the judgement of the offer it
\* repeats is carried over.
LEMMA TranscriptSound ==
  ASSUME Sound(buffer), NEW c \in Conn, ReceiveTranscript(c)
  PROVE  Sound(buffer')
  <1>1. PICK rev \in Rev, text \in Answer, speech \in BOOLEAN, final \in BOOLEAN :
          IF acceptEqual[c] /\ rev = buffer.revision
          THEN /\ CanSynchronize(buffer, rev, text)
               /\ TranscriptTaken(c, SynchronizeReconnectSnapshot(buffer, speech, final), FALSE)
          ELSE /\ CanUpdateTranscript(buffer, rev)
               /\ LET carried == EquivalentCandidate(text, speech, final)
                      b == UpdateTranscript(buffer, rev, text, speech, final)
                  IN  TranscriptTaken(c, IF carried
                                         THEN ApplyPolicy(RecordDecision(b, rev, buffer.decision),
                                                          buffer.decision)
                                         ELSE b, carried)
    BY DEF ReceiveTranscript
  <1>2. rev \in Nat
    BY MaxRevisionAssumption DEF Rev
  <1>3. CASE acceptEqual[c] /\ rev = buffer.revision
    BY <1>1, <1>2, <1>3, SynchronizeSound DEF TranscriptTaken
  <1>4. CASE ~(acceptEqual[c] /\ rev = buffer.revision)
    <2> DEFINE b == UpdateTranscript(buffer, rev, text, speech, final)
               carried == EquivalentCandidate(text, speech, final)
    <2>0. CanUpdateTranscript(buffer, rev)
      BY <1>1, <1>4
    <2>1. Sound(b)
      BY <1>2, <2>0, UpdateTranscriptSound
    <2>2. CASE ~carried
      BY <1>1, <1>4, <2>1, <2>2 DEF TranscriptTaken
    <2>3. CASE carried
      <3>1. buffer.decision \in Decision
        BY <2>3 DEF EquivalentCandidate, Sound, Buffer, NoDecision
      <3>2. CanRecordDecision(b, rev)
        BY ClearedFields DEF CanRecordDecision, UpdateTranscript, Sound, Buffer
      <3>3. Sound(RecordDecision(b, rev, buffer.decision))
        BY <1>2, <2>1, <3>1, <3>2, RecordDecisionSound
      <3>4. Sound(ApplyPolicy(RecordDecision(b, rev, buffer.decision), buffer.decision))
        BY <3>3, ApplyPolicySound
      <3> QED BY <1>1, <1>4, <2>3, <3>4 DEF TranscriptTaken
    <2> QED BY <2>2, <2>3
  <1> QED BY <1>3, <1>4

\* The stall watch keeps the buffer Sound.
LEMMA StallSound ==
  ASSUME Sound(buffer), StallFires
  PROVE  Sound(buffer')
  <1> DEFINE rev == timers.stall
             fires == /\ question = "asked"
                      /\ buffer.revision = rev /\ buffer.text # Blank
                      /\ buffer.state = "listening" /\ buffer.segmentFinal
             b == IF buffer.speechActive THEN UpdateSpeechActivity(buffer, FALSE) ELSE buffer
             s == RecordDecision(b, rev, StallDecision)
  <1>1. CASE ~fires
    BY <1>1 DEF StallFires
  <1>2. CASE fires
    <2>1. /\ buffer.revision = rev /\ rev \in Nat
          /\ buffer.state = "listening" /\ buffer.text # Blank
      BY <1>2 DEF Sound, Buffer
    <2>2. Sound(b)
      <3>1. CanUpdateActivity(buffer, rev) /\ FALSE \in BOOLEAN
        BY <2>1 DEF CanUpdateActivity, Submitted
      <3> QED BY <2>1, <3>1, UpdateActivitySound
    <2>3. /\ b.state = "listening" /\ b.revision = rev /\ b.text # Blank
          /\ ~b.speechActive
      BY <2>1 DEF UpdateSpeechActivity, Sound, Buffer
    <2>4. Sound(ApplyPolicy(b, b.decision))
      BY <2>2, ApplyPolicySound
    <2>5. Sound(ApplyPolicy(s, StallDecision))
      <3>1. StallDecision \in Decision
        BY DEF StallDecision, Decision, Action
      <3>2. Sound(s)
        BY <2>1, <2>2, <2>3, <3>1, RecordDecisionSound DEF CanRecordDecision
      <3> QED BY <3>2, ApplyPolicySound
    <2>6. Sound(MarkCutoffComplete(b))
      <3>1. ~b.responseSpeechActive
        BY <2>2, <2>3 DEF Sound, Consistent, Buffer
      <3> QED BY <2>1, <2>2, <2>3, <3>1, MarkCutoffSound DEF CanMarkCutoff
    <2>7. buffer' \in {ApplyPolicy(b, b.decision), ApplyPolicy(s, StallDecision),
                       MarkCutoffComplete(b)}
      BY <1>2 DEF StallFires
    <2> QED BY <2>4, <2>5, <2>6, <2>7
  <1> QED BY <1>1, <1>2

\* Every step of the system keeps the buffer Sound.
LEMMA NextSound == BufferSound /\ [Next]_vars => BufferSound'
  <1> SUFFICES ASSUME Sound(buffer), [Next]_vars PROVE Sound(buffer')
    BY DEF BufferSound
  <1> USE MaxRevisionAssumption DEF Rev
  <1>0. buffer \in Buffer /\ buffer.revision \in Nat
    BY DEF Sound, Buffer
  <1>1. ASSUME NEW c \in Conn, Connect(c) PROVE Sound(buffer')
    BY <1>1, PreparedSound DEF Connect
  <1>2. ASSUME NEW c \in Conn, Disconnect(c) PROVE Sound(buffer')
    BY <1>2, CancelSound DEF Disconnect
  <1>3. ASSUME NEW c \in Conn, Receive(c) PROVE Sound(buffer')
    BY <1>3 DEF Receive
  <1>4. ASSUME NEW c \in Conn, Handle(c) PROVE Sound(buffer')
    <2>1. CASE ReceiveTranscript(c)
      BY <2>1, TranscriptSound
    <2>2. CASE ReceiveActivity(c)
      <3>1. PICK rev \in Rev, speech \in BOOLEAN :
              /\ CanUpdateActivity(buffer, rev)
              /\ LET b == UpdateSpeechActivity(buffer, speech)
                 IN  buffer' = b \/ buffer' = ApplyPolicy(b, b.decision)
        BY <2>2 DEF ReceiveActivity
      <3>2. Sound(UpdateSpeechActivity(buffer, speech))
        BY <3>1, UpdateActivitySound
      <3> QED BY <3>1, <3>2, ApplyPolicySound
    <2>3. CASE ReceiveResponseReady(c)
      <3>1. PICK rev \in Rev, id \in ConfirmationId :
              /\ CanMarkResponseReady(buffer, id, rev)
              /\ buffer' = MarkConfirmationResponseReady(buffer)
        BY <2>3 DEF ReceiveResponseReady
      <3> QED BY <3>1, ResponseReadySound
    <2>4. CASE ReceiveResponseActivity(c)
      <3>1. PICK rev \in Rev, id \in ConfirmationId, speech \in BOOLEAN :
              /\ CanUpdateResponseActivity(buffer, id, rev, speech)
              /\ buffer' = UpdateConfirmationResponseActivity(buffer, speech)
        BY <2>4 DEF ReceiveResponseActivity
      <3> QED BY <3>1, ResponseActivitySound
    <2>5. CASE ReceiveResponse(c)
      BY <2>5 DEF ReceiveResponse
    <2>6. CASE RefuseMessage(c)
      BY <2>6 DEF RefuseMessage
    <2> QED BY <1>4, <2>1, <2>2, <2>3, <2>4, <2>5, <2>6 DEF Handle
  <1>5. ASSUME NEW c \in Conn, Classify(c) PROVE Sound(buffer')
    <2>1. CASE Classified(c)
      <3>1. PICK intent \in Intent, content \in Answer, newRev \in Rev :
              /\ CanApplyIntent(buffer, handler[c].id, buffer.revision, intent, content, newRev)
              /\ buffer' = ApplyConfirmationIntent(buffer, intent, content, newRev)
        BY <2>1 DEF Classified
      <3>2. newRev \in Nat
        OBVIOUS
      <3> QED BY <3>1, <3>2, ApplyIntentSound
    <2>2. CASE ClassifiedTooLate(c)
      BY <2>2 DEF ClassifiedTooLate
    <2> QED BY <1>5, <2>1, <2>2 DEF Classify
  <1>6. CASE JudgeTakes
    BY <1>6 DEF JudgeTakes
  <1>7. CASE JudgeReturns
    <2> DEFINE rev == worker.judging.revision
    <2>1. CASE ~CanRecordDecision(buffer, rev)
      BY <1>7, <2>1 DEF JudgeReturns
    <2>2. CASE CanRecordDecision(buffer, rev)
      <3>1. PICK d \in Judgements :
              LET b == RecordDecision(buffer, rev, d)
              IN  buffer' = b \/ buffer' = ApplyPolicy(b, d)
        BY <1>7, <2>2 DEF JudgeReturns
      <3>2. d \in Decision /\ rev \in Nat
        BY <1>0, <2>2, JudgementsAssumption DEF CanRecordDecision
      <3>3. Sound(RecordDecision(buffer, rev, d))
        BY <2>2, <3>2, RecordDecisionSound
      <3> QED BY <3>1, <3>3, ApplyPolicySound
    <2> QED BY <2>1, <2>2
  <1>8. CASE TimerFires
    <2>1. CASE StallFires
      BY <2>1, StallSound
    <2>2. CASE ConfirmationDelayFires
      <3> DEFINE id == buffer.confirmationCount + 1
                 prompted == BeginConfirmationPrompt(buffer, id)
      <3>1. CASE ~CanBeginPrompt(buffer, timers.delay)
        BY <2>2, <3>1 DEF ConfirmationDelayFires
      <3>2. CASE CanBeginPrompt(buffer, timers.delay)
        <4>1. timers.delay \in Nat
          BY <1>0, <3>2 DEF CanBeginPrompt
        <4>2. id \in ConfirmationId
          BY <1>0, <3>2, ConfirmationIdAssumption, MaxConfirmationsAssumption
          DEF CanBeginPrompt, Buffer
        <4>3. Sound(prompted)
          BY <3>2, <4>1, <4>2, BeginPromptSound
        <4>4. Sound(CancelConfirmation(prompted))
          BY <4>3, CancelSound
        <4> QED BY <2>2, <4>3, <4>4 DEF ConfirmationDelayFires
      <3> QED BY <3>1, <3>2
    <2>3. CASE ReadyTimeoutFires
      BY <2>3, CancelSound DEF ReadyTimeoutFires
    <2>4. CASE ResponseTimeoutFires
      <3>1. CASE ~CanMarkCutoff(buffer, buffer.revision)
        BY <2>4, <3>1 DEF ResponseTimeoutFires
      <3>2. CASE CanMarkCutoff(buffer, buffer.revision)
        BY <1>0, <2>4, <3>2, MarkCutoffSound DEF ResponseTimeoutFires
      <3> QED BY <3>1, <3>2
    <2>5. CASE CommitFires
      <3>1. CASE buffer.state = "complete_candidate"
        <4>1. Sound(ResumeListening(buffer))
          BY <3>1, ClearedSound DEF ResumeListening
        <4>2. CanBeginCommit(buffer, timers.commit) => Sound(BeginCommit(buffer))
          BY BeginCommitSound
        <4> QED BY <2>5, <4>1, <4>2 DEF CommitFires
      <3>2. CASE buffer.state # "complete_candidate"
        BY <2>5, <3>2 DEF CommitFires, CanBeginCommit
      <3> QED BY <3>1, <3>2
    <2> QED BY <1>8, <2>1, <2>2, <2>3, <2>4, <2>5 DEF TimerFires
  <1>9. CASE SubmitReturns
    <2>1. CASE SubmitSucceeds
      BY <2>1, MarkCommittedSound DEF SubmitSucceeds
    <2>2. CASE SubmitFails
      <3>1. CanEndCommit(buffer, buffer.revision) => Sound(AbortCommit(buffer))
        BY ClearedSound DEF CanEndCommit, AbortCommit, ResumeListening
      <3> QED BY <2>2, <3>1 DEF SubmitFails
    <2> QED BY <1>9, <2>1, <2>2 DEF SubmitReturns
  <1>10. CASE Report \/ InterviewMoves \/ EntryReplaced
    BY <1>10 DEF Report, InterviewMoves, EntryReplaced
  <1>11. CASE TurnOver \/ UNCHANGED vars
    BY <1>11 DEF TurnOver, vars
  <1> QED
    BY <1>1, <1>2, <1>3, <1>4, <1>5, <1>6, <1>7, <1>8, <1>9, <1>10, <1>11 DEF Next

\* In every behaviour of the voice turn the fields of the buffer agree with one
\* another, nobody is heard outside listening, no blank answer is offered and
\* no judgement outlives its revision.
THEOREM BufferSoundHolds == Spec => []BufferSound
  <1>1. Init => BufferSound
    BY EmptySound DEF Init, BufferSound
  <1> QED BY <1>1, NextSound, PTL DEF Spec

---------------------------------------------------------------------------
(* An answer is handed to the interview as it was offered and by the       *)
(* connection that is attached: the turn implements AnswerSubmission and   *)
(* keeps SubmitterServes.                                                  *)
(*                                                                         *)
(* Both rest on one fact.  Only CommitFires, SubmitSucceeds and            *)
(* SubmitFails touch a submission; every other step only Collects: it      *)
(* revises, offers, repeats or withdraws an answer that has not been       *)
(* handed over, or leaves it as it is.                                     *)

Collecting == {"listening", "confirmation_pending", "confirmation_prompting",
               "confirming_end"}

\* From buffer b to buffer c the answer is at most revised, offered, repeated
\* or withdrawn.
Collects(b, c) ==
    \/ Same(b, c) /\ c.state = b.state
    \/ Same(b, c) /\ b.state \in Collecting /\ c.state \in Collecting
    \/ /\ Same(b, c) /\ b.state \in Collecting /\ b.text # Blank
       /\ c.state = "complete_candidate"
    \/ Same(b, c) /\ b.state = "complete_candidate" /\ c.state \in Collecting
    \/ /\ ~Submitted(b) /\ c.state \in Collecting
       /\ c.revision \in Rev /\ c.revision > b.revision /\ c.text \in Answer
    \/ /\ b.state = "complete_candidate" /\ c.state = "complete_candidate"
       /\ c.revision \in Rev /\ c.revision > b.revision /\ c.text = b.text

\* A step that only collects is a step of AnswerSubmission or none.
LEMMA CollectsRefines ==
  ASSUME buffer \in Buffer, Collects(buffer, buffer')
  PROVE  [Submission!Next]_(Submission!vars)
  <1>0. buffer.state \in State
    BY DEF Buffer
  <1> USE DEF Same, Collecting, Phase, Submission!vars
  <1>1. CASE Same(buffer, buffer') /\ buffer'.state = buffer.state
    BY <1>1
  <1>2. CASE Same(buffer, buffer') /\ buffer.state \in Collecting /\ buffer'.state \in Collecting
    BY <1>2
  <1>3. CASE /\ Same(buffer, buffer') /\ buffer.state \in Collecting /\ buffer.text # Blank
             /\ buffer'.state = "complete_candidate"
    BY <1>3 DEF Submission!Next, Submission!Offer, Blank
  <1>4. CASE /\ Same(buffer, buffer') /\ buffer.state = "complete_candidate"
             /\ buffer'.state \in Collecting
    BY <1>4 DEF Submission!Next, Submission!Withdraw
  <1>5. CASE /\ ~Submitted(buffer) /\ buffer'.state \in Collecting
             /\ buffer'.revision \in Rev /\ buffer'.revision > buffer.revision
             /\ buffer'.text \in Answer
    BY <1>0, <1>5, MaxRevisionAssumption DEF Rev, Submission!Next, Submission!Revise, Submitted, State
  <1>6. CASE /\ buffer.state = "complete_candidate" /\ buffer'.state = "complete_candidate"
             /\ buffer'.revision \in Rev /\ buffer'.revision > buffer.revision
             /\ buffer'.text = buffer.text
    BY <1>6, MaxRevisionAssumption DEF Rev, Submission!Next, Submission!Repeat
  <1> QED BY <1>1, <1>2, <1>3, <1>4, <1>5, <1>6 DEF Collects

---------------------------------------------------------------------------
(* The compositions of operations the coordinator makes *)

\* Going back to listening collects, unless the answer was handed over.
LEMMA ClearedCollects ==
  ASSUME NEW b \in Buffer, ~Submitted(b)
  PROVE  Collects(b, Cleared(b))
  BY ClearedFields DEF Collects, Same, Collecting, Submitted, Buffer, State

\* Cancelling a confirmation collects.
LEMMA CancelCollects ==
  ASSUME NEW b \in Buffer
  PROVE  Collects(b, CancelConfirmation(b))
  BY ClearedCollects
  DEF CancelConfirmation, ResumeListening, InConfirmation, Submitted, Collects, Same

\* What a judgement makes of a listening buffer: the answer stays as it is and
\* only a nonblank one is offered.
LEMMA PolicyFields ==
  ASSUME NEW b \in Buffer, b.state = "listening", NEW d
  PROVE  /\ Same(b, ApplyPolicy(b, d))
         /\ \/ ApplyPolicy(b, d).state \in Collecting
            \/ ApplyPolicy(b, d).state = "complete_candidate" /\ b.text # Blank
  BY DEF ApplyPolicy, MarkCompleteCandidate, MarkConfirmationPending,
         CanMarkCandidate, Same, Collecting, Buffer

\* Acting on a judgement of a listening buffer collects.
LEMMA PolicyCollects ==
  ASSUME NEW b \in Buffer, b.state = "listening", NEW d
  PROVE  Collects(b, ApplyPolicy(b, d))
  BY PolicyFields DEF Collects, Collecting

\* Preparing a connection collects, since none is prepared on a submission.
LEMMA PreparedCollects ==
  ASSUME NEW b \in Buffer
  PROVE  Collects(b, Prepared(b))
  <1>1. CASE InConfirmation(b)
    <2>1. CancelConfirmation(b) = Cleared(b)
      BY <1>1 DEF CancelConfirmation, ResumeListening
    <2>2. Same(b, Prepared(b)) /\ Prepared(b).state = "listening"
      BY <2>1, ClearedFields DEF Prepared, ResumeListening, Same
    <2> QED BY <1>1, <2>2 DEF InConfirmation, Collects, Collecting
  <1>2. CASE ~InConfirmation(b)
    <2>1. CancelConfirmation(b) = b
      BY <1>2 DEF CancelConfirmation
    <2>2. \/ Prepared(b) = b
          \/ Prepared(b) = Cleared(b) /\ ~Submitted(b)
      BY <2>1 DEF Prepared, ResumeListening, Submitted
    <2> QED BY <2>2, ClearedCollects DEF Collects, Same
  <1> QED BY <1>1, <1>2

---------------------------------------------------------------------------
(* Every step that does not touch a submission collects. *)

\* A transcript revises the answer, or repeats the one on offer.
LEMMA TranscriptCollects ==
  ASSUME Sound(buffer), NEW c \in Conn, ReceiveTranscript(c)
  PROVE  Collects(buffer, buffer')
  <1>0. buffer \in Buffer /\ buffer.revision \in Nat
    BY DEF Sound, Buffer
  <1>1. PICK rev \in Rev, text \in Answer, speech \in BOOLEAN, final \in BOOLEAN :
          IF acceptEqual[c] /\ rev = buffer.revision
          THEN /\ CanSynchronize(buffer, rev, text)
               /\ TranscriptTaken(c, SynchronizeReconnectSnapshot(buffer, speech, final), FALSE)
          ELSE /\ CanUpdateTranscript(buffer, rev)
               /\ LET carried == EquivalentCandidate(text, speech, final)
                      b == UpdateTranscript(buffer, rev, text, speech, final)
                  IN  TranscriptTaken(c, IF carried
                                         THEN ApplyPolicy(RecordDecision(b, rev, buffer.decision),
                                                          buffer.decision)
                                         ELSE b, carried)
    BY DEF ReceiveTranscript
  <1>2. rev \in Nat
    BY MaxRevisionAssumption DEF Rev
  <1>3. CASE acceptEqual[c] /\ rev = buffer.revision
    <2>1. /\ buffer' = SynchronizeReconnectSnapshot(buffer, speech, final)
          /\ ~Submitted(buffer)
      BY <1>1, <1>3 DEF TranscriptTaken, CanSynchronize
    <2>2. Same(buffer, buffer') /\ buffer'.state = "listening"
      BY <1>0, <2>1, ClearedFields DEF SynchronizeReconnectSnapshot, Same, Buffer
    <2> QED
      BY <1>0, <2>1, <2>2 DEF Collects, Collecting, Submitted, Buffer, State
  <1>4. CASE ~(acceptEqual[c] /\ rev = buffer.revision)
    <2> DEFINE b == UpdateTranscript(buffer, rev, text, speech, final)
               carried == EquivalentCandidate(text, speech, final)
               r == RecordDecision(b, rev, buffer.decision)
    <2>1. rev > buffer.revision /\ ~Submitted(buffer)
      BY <1>1, <1>4 DEF CanUpdateTranscript
    <2>2. b \in Buffer /\ b.revision = rev /\ b.text = text /\ b.state = "listening"
      BY <1>0, <1>2, ClearedFields DEF UpdateTranscript, Buffer
    <2>3. CASE ~carried
      <3>1. buffer' = b
        BY <1>1, <1>4, <2>3 DEF TranscriptTaken
      <3> QED BY <1>2, <2>1, <2>2, <3>1 DEF Collects, Collecting
    <2>4. CASE carried
      <3>1. /\ buffer.state = "complete_candidate" /\ text = buffer.text
            /\ buffer.decision \in Decision
        BY <1>0, <2>4 DEF EquivalentCandidate, Buffer, NoDecision
      <3>2. r \in Buffer /\ r.revision = rev /\ r.text = text /\ r.state = "listening"
        BY <1>2, <2>2, <3>1, RecordFields DEF Same
      <3>3. buffer' = ApplyPolicy(r, buffer.decision)
        BY <1>1, <1>4, <2>4 DEF TranscriptTaken
      <3>4. /\ buffer'.revision = rev /\ buffer'.text = text
            /\ buffer'.state \in Collecting \cup {"complete_candidate"}
        BY <3>2, <3>3, PolicyFields DEF Same
      <3> QED BY <1>2, <2>1, <3>1, <3>4 DEF Collects
    <2> QED BY <2>3, <2>4
  <1> QED BY <1>3, <1>4

\* The stall watch offers the answer, asks for confirmation or does nothing.
LEMMA StallCollects ==
  ASSUME Sound(buffer), StallFires
  PROVE  Collects(buffer, buffer')
  <1> DEFINE rev == timers.stall
             fires == /\ question = "asked"
                      /\ buffer.revision = rev /\ buffer.text # Blank
                      /\ buffer.state = "listening" /\ buffer.segmentFinal
             b == IF buffer.speechActive THEN UpdateSpeechActivity(buffer, FALSE) ELSE buffer
             s == RecordDecision(b, rev, StallDecision)
  <1>0. buffer \in Buffer
    BY DEF Sound
  <1>1. CASE ~fires
    BY <1>1 DEF StallFires, Collects, Same
  <1>2. CASE fires
    <2>1. /\ buffer.state = "listening" /\ buffer.text # Blank /\ rev \in Nat
      BY <1>0, <1>2 DEF Buffer
    <2>2. b \in Buffer /\ Same(buffer, b) /\ b.state = "listening"
      BY <1>0, <2>1, ActivityFields DEF Same
    <2>3. s \in Buffer /\ Same(buffer, s) /\ s.state = "listening"
      <3>1. StallDecision \in Decision
        BY DEF StallDecision, Decision, Action
      <3> QED BY <2>1, <2>2, <3>1, RecordFields DEF Same
    <2>4. Same(b, MarkCutoffComplete(b)) /\ MarkCutoffComplete(b).state = "complete_candidate"
      BY <2>2 DEF MarkCutoffComplete, Same, Buffer
    <2>5. buffer' \in {ApplyPolicy(b, b.decision), ApplyPolicy(s, StallDecision),
                       MarkCutoffComplete(b)}
      BY <1>2 DEF StallFires
    <2>6. /\ Same(buffer, buffer')
          /\ buffer'.state \in Collecting \cup {"complete_candidate"}
      <3>1. /\ Same(b, ApplyPolicy(b, b.decision))
            /\ ApplyPolicy(b, b.decision).state \in Collecting \cup {"complete_candidate"}
        BY <2>2, PolicyFields
      <3>2. /\ Same(s, ApplyPolicy(s, StallDecision))
            /\ ApplyPolicy(s, StallDecision).state \in Collecting \cup {"complete_candidate"}
        BY <2>3, PolicyFields
      <3> HIDE DEF b, s
      <3> QED BY <2>2, <2>3, <2>4, <2>5, <3>1, <3>2 DEF Same
    <2> QED BY <2>1, <2>6 DEF Collects, Collecting
  <1> QED BY <1>1, <1>2

\* The reply to a confirmation offers the answer, adds to it or withdraws
\* nothing that was handed over.
LEMMA IntentCollects ==
  ASSUME Sound(buffer), NEW c \in Conn, Classified(c)
  PROVE  Collects(buffer, buffer')
  <1>0. buffer \in Buffer /\ buffer.text \in Answer
    BY DEF Sound, Buffer
  <1>1. PICK intent \in Intent, content \in Answer, newRev \in Rev :
          /\ CanApplyIntent(buffer, handler[c].id, buffer.revision, intent, content, newRev)
          /\ buffer' = ApplyConfirmationIntent(buffer, intent, content, newRev)
    BY DEF Classified
  <1>2. newRev \in Nat
    BY MaxRevisionAssumption DEF Rev
  <1>3. buffer.state = "confirming_end"
    BY <1>1 DEF CanApplyIntent
  <1>4. CASE intent = "finish"
    <2>1. buffer' = MarkUserConfirmedComplete(buffer) /\ buffer.text # Blank
      BY <1>1, <1>4 DEF ApplyConfirmationIntent, CanApplyIntent, CanMarkUserConfirmed
    <2>2. Same(buffer, buffer') /\ buffer'.state = "complete_candidate"
      BY <1>0, <2>1 DEF MarkUserConfirmedComplete, Same, Buffer
    <2> QED BY <1>3, <2>1, <2>2 DEF Collects, Collecting
  <1>5. CASE intent = "answer_content"
    <2>1. buffer' = AppendAnswer(buffer, content, newRev) /\ newRev > buffer.revision
      BY <1>1, <1>5 DEF ApplyConfirmationIntent, CanApplyIntent
    <2>2. /\ buffer'.revision = newRev /\ buffer'.state = "listening"
          /\ buffer'.text = buffer.text \cup content
      BY <1>0, <2>1, ClearedFields DEF AppendAnswer, Buffer
    <2>3. buffer.text \cup content \in Answer
      BY <1>0 DEF Answer
    <2> QED
      BY <1>2, <1>3, <2>1, <2>2, <2>3 DEF Collects, Collecting, Submitted
  <1>6. CASE intent \notin {"finish", "answer_content"}
    <2>1. buffer' = Cleared(buffer)
      BY <1>1, <1>6 DEF ApplyConfirmationIntent, ResumeListening
    <2> QED BY <1>0, <1>3, <2>1, ClearedCollects DEF Submitted
  <1> QED BY <1>4, <1>5, <1>6

\* A message of the client collects.
LEMMA HandleCollects ==
  ASSUME Sound(buffer), NEW c \in Conn, Handle(c)
  PROVE  Collects(buffer, buffer')
  <1>0. buffer \in Buffer
    BY DEF Sound
  <1>1. CASE ReceiveTranscript(c)
    BY <1>1, TranscriptCollects
  <1>2. CASE ReceiveActivity(c)
    <2>1. PICK rev \in Rev, speech \in BOOLEAN :
            /\ CanUpdateActivity(buffer, rev)
            /\ LET b == UpdateSpeechActivity(buffer, speech)
               IN  \/ buffer' = b
                   \/ b.state = "listening" /\ buffer' = ApplyPolicy(b, b.decision)
      BY <1>2 DEF ReceiveActivity
    <2> DEFINE b == UpdateSpeechActivity(buffer, speech)
    <2>2. /\ b \in Buffer /\ Same(buffer, b)
          /\ b.state = IF speech THEN "listening" ELSE buffer.state
      BY <1>0, <2>1, ActivityFields
    <2>3. ~Submitted(buffer)
      BY <2>1 DEF CanUpdateActivity
    <2>4. CASE buffer' = b
      BY <1>0, <2>2, <2>3, <2>4 DEF Collects, Collecting, Submitted, Buffer, State
    <2>5. CASE b.state = "listening" /\ buffer' = ApplyPolicy(b, b.decision)
      <3>1. /\ Same(b, buffer')
            /\ \/ buffer'.state \in Collecting
               \/ buffer'.state = "complete_candidate" /\ b.text # Blank
        BY <2>2, <2>5, PolicyFields
      <3>2. Same(buffer, buffer')
        BY <2>2, <3>1 DEF Same
      <3> QED
        BY <1>0, <2>2, <2>3, <3>1, <3>2
        DEF Collects, Collecting, Same, Submitted, Buffer, State
    <2> QED BY <2>1, <2>4, <2>5
  <1>3. CASE ReceiveResponseReady(c)
    BY <1>0, <1>3
    DEF ReceiveResponseReady, CanMarkResponseReady, MarkConfirmationResponseReady,
        Collects, Collecting, Same, Buffer
  <1>4. CASE ReceiveResponseActivity(c)
    BY <1>0, <1>4
    DEF ReceiveResponseActivity, UpdateConfirmationResponseActivity, Collects, Same, Buffer
  <1>5. CASE ReceiveResponse(c) \/ RefuseMessage(c)
    BY <1>5 DEF ReceiveResponse, RefuseMessage, Collects, Same
  <1> QED BY <1>1, <1>2, <1>3, <1>4, <1>5 DEF Handle

\* A judgement collects.
LEMMA JudgeCollects ==
  ASSUME Sound(buffer), JudgeReturns
  PROVE  Collects(buffer, buffer')
  <1> DEFINE rev == worker.judging.revision
  <1>1. CASE ~CanRecordDecision(buffer, rev)
    BY <1>1 DEF JudgeReturns, Collects, Same
  <1>2. CASE CanRecordDecision(buffer, rev)
    <2>1. PICK d \in Judgements :
            LET b == RecordDecision(buffer, rev, d)
            IN  buffer' = b \/ buffer' = ApplyPolicy(b, d)
      BY <1>2 DEF JudgeReturns
    <2> DEFINE b == RecordDecision(buffer, rev, d)
    <2>2. /\ d \in Decision /\ rev \in Nat /\ buffer \in Buffer
          /\ buffer.state = "listening"
      BY <1>2, JudgementsAssumption DEF CanRecordDecision, Sound, Buffer
    <2>3. b \in Buffer /\ Same(buffer, b) /\ b.state = "listening"
      BY <2>2, RecordFields
    <2>4. CASE buffer' = b
      BY <2>2, <2>3, <2>4 DEF Collects
    <2>5. CASE buffer' = ApplyPolicy(b, d)
      BY <2>2, <2>3, <2>5, PolicyFields DEF Collects, Collecting, Same
    <2> QED BY <2>1, <2>4, <2>5
  <1> QED BY <1>1, <1>2

\* The timers before the submission collect.
LEMMA TimersCollect ==
  ASSUME Sound(buffer),
         StallFires \/ ConfirmationDelayFires \/ ReadyTimeoutFires \/ ResponseTimeoutFires
  PROVE  Collects(buffer, buffer')
  <1>0. buffer \in Buffer
    BY DEF Sound
  <1>1. CASE StallFires
    BY <1>1, StallCollects
  <1>2. CASE ConfirmationDelayFires
    <2> DEFINE prompted == BeginConfirmationPrompt(buffer, buffer.confirmationCount + 1)
    <2>1. CASE buffer' = buffer
      BY <2>1 DEF Collects, Same
    <2>2. CASE /\ CanBeginPrompt(buffer, timers.delay)
               /\ buffer' = prompted \/ buffer' = CancelConfirmation(prompted)
      <3>1. prompted \in Buffer
        <4>1. timers.delay \in Nat /\ buffer.confirmationCount + 1 \in ConfirmationId
          BY <1>0, <2>2, ConfirmationIdAssumption, MaxConfirmationsAssumption
          DEF CanBeginPrompt, Buffer
        <4>2. Sound(prompted)
          BY <2>2, <4>1, BeginPromptSound
        <4> QED BY <4>2 DEF Sound
      <3>2. Same(buffer, prompted) /\ prompted.state = "confirmation_prompting"
        BY <1>0 DEF BeginConfirmationPrompt, Same, Buffer
      <3>3. CancelConfirmation(prompted) = Cleared(prompted)
        BY <3>2 DEF CancelConfirmation, InConfirmation, ResumeListening
      <3>4. Same(buffer, buffer') /\ buffer'.state \in Collecting
        BY <2>2, <3>1, <3>2, <3>3, ClearedFields DEF Same, Collecting
      <3> QED BY <2>2, <3>4 DEF CanBeginPrompt, Collects, Collecting
    <2> QED BY <1>2, <2>1, <2>2 DEF ConfirmationDelayFires
  <1>3. CASE ReadyTimeoutFires
    <2>1. buffer' = buffer \/ buffer' = CancelConfirmation(buffer)
      BY <1>3 DEF ReadyTimeoutFires
    <2> QED BY <1>0, <2>1, CancelCollects DEF Collects, Same
  <1>4. CASE ResponseTimeoutFires
    <2>1. CASE buffer' = buffer
      BY <2>1 DEF Collects, Same
    <2>2. CASE CanMarkCutoff(buffer, buffer.revision) /\ buffer' = MarkCutoffComplete(buffer)
      <3>1. Same(buffer, buffer') /\ buffer'.state = "complete_candidate"
        BY <1>0, <2>2 DEF MarkCutoffComplete, Same, Buffer
      <3> QED BY <2>2, <3>1 DEF CanMarkCutoff, Collects, Collecting
    <2> QED BY <1>4, <2>1, <2>2 DEF ResponseTimeoutFires
  <1> QED BY <1>1, <1>2, <1>3, <1>4
---------------------------------------------------------------------------
(* The theorems *)

\* A step of the system collects, or it starts or ends a submission.
LEMMA NextCollects ==
  ASSUME Sound(buffer), [Next]_vars
  PROVE  Collects(buffer, buffer') \/ CommitFires \/ SubmitReturns
  <1>0. buffer \in Buffer
    BY DEF Sound
  <1>a. ASSUME buffer' = buffer PROVE Collects(buffer, buffer')
    BY <1>a DEF Collects, Same
  <1>1. ASSUME NEW c \in Conn, Connect(c) PROVE Collects(buffer, buffer')
    BY <1>0, <1>1, PreparedCollects DEF Connect
  <1>2. ASSUME NEW c \in Conn, Disconnect(c) PROVE Collects(buffer, buffer')
    BY <1>0, <1>2, CancelCollects DEF Disconnect
  <1>3. ASSUME NEW c \in Conn, Receive(c) PROVE Collects(buffer, buffer')
    BY <1>3, <1>a DEF Receive
  <1>4. ASSUME NEW c \in Conn, Handle(c) PROVE Collects(buffer, buffer')
    BY <1>4, HandleCollects
  <1>5. ASSUME NEW c \in Conn, Classify(c) PROVE Collects(buffer, buffer')
    BY <1>5, <1>a, IntentCollects DEF Classify, ClassifiedTooLate
  <1>6. CASE JudgeReturns
    BY <1>6, JudgeCollects
  <1>7. CASE TimerFires
    BY <1>7, TimersCollect DEF TimerFires
  <1>8. CASE JudgeTakes \/ Report \/ InterviewMoves \/ EntryReplaced
    BY <1>8, <1>a DEF JudgeTakes, Report, InterviewMoves, EntryReplaced
  <1>9. CASE TurnOver \/ UNCHANGED vars
    BY <1>9, <1>a DEF TurnOver, vars
  <1> QED BY <1>1, <1>2, <1>3, <1>4, <1>5, <1>6, <1>7, <1>8, <1>9 DEF Next

\* The grace period ends in the hand-over of the answer, its withdrawal or
\* nothing.
LEMMA CommitRefines ==
  ASSUME Sound(buffer), CommitFires
  PROVE  [Submission!Next]_(Submission!vars)
  <1>0. buffer \in Buffer
    BY DEF Sound
  <1>1. CASE buffer' = BeginCommit(buffer) /\ CanBeginCommit(buffer, timers.commit)
    <2>1. /\ Same(buffer, buffer') /\ buffer'.state = "committing"
          /\ buffer.state = "complete_candidate"
      BY <1>0, <1>1 DEF BeginCommit, CanBeginCommit, Same, Buffer
    <2> QED BY <2>1 DEF Phase, Same, Submission!Next, Submission!Submit
  <1>2. CASE buffer' = ResumeListening(buffer) /\ buffer.state = "complete_candidate"
    <2>1. Collects(buffer, buffer')
      BY <1>0, <1>2, ClearedCollects DEF ResumeListening, Submitted
    <2> QED BY <1>0, <2>1, CollectsRefines
  <1>3. CASE buffer' = buffer
    BY <1>3 DEF Submission!vars
  <1> QED BY <1>1, <1>2, <1>3 DEF CommitFires

\* The end of a submission accepts the answer or gives it back.
LEMMA SubmitRefines ==
  ASSUME Sound(buffer), SubmitReturns
  PROVE  [Submission!Next]_(Submission!vars)
  <1>0. buffer \in Buffer
    BY DEF Sound
  <1>1. CASE SubmitSucceeds
    <2>1. /\ Same(buffer, buffer') /\ buffer'.state = "committed"
          /\ buffer.state = "committing"
      BY <1>0, <1>1 DEF SubmitSucceeds, CanEndCommit, MarkCommitted, Same, Buffer
    <2> QED BY <2>1 DEF Phase, Same, Submission!Next, Submission!Accept
  <1>2. CASE SubmitFails /\ CanEndCommit(buffer, buffer.revision)
    <2>1. /\ Same(buffer, buffer') /\ buffer'.state = "listening"
          /\ buffer.state = "committing"
      BY <1>0, <1>2, ClearedFields
      DEF SubmitFails, CanEndCommit, AbortCommit, ResumeListening, Same
    <2> QED BY <2>1 DEF Phase, Same, Submission!Next, Submission!Reject
  <1>3. CASE SubmitFails /\ ~CanEndCommit(buffer, buffer.revision)
    BY <1>3 DEF SubmitFails, Submission!vars
  <1> QED BY <1>1, <1>2, <1>3 DEF SubmitReturns

\* With any number of connections and timers, judgements and messages at any
\* moment, the answer the interview gets is the one that was offered, frozen
\* from the hand-over on and handed over once.
THEOREM TurnRefinement == Spec => SubmissionSpec
  <1>1. Init => Submission!Init
    BY DEF Init, EmptyBuffer, Phase, Blank, Submission!Init
  <1>2. BufferSound /\ [Next]_vars => [Submission!Next]_(Submission!vars)
    <2> SUFFICES ASSUME Sound(buffer), [Next]_vars
                 PROVE  [Submission!Next]_(Submission!vars)
      BY DEF BufferSound
    <2>1. buffer \in Buffer
      BY DEF Sound
    <2> QED BY <2>1, NextCollects, CollectsRefines, CommitRefines, SubmitRefines
  <1> QED
    BY <1>1, <1>2, BufferSoundHolds, PTL DEF Spec, SubmissionSpec, Submission!Spec

\* A step that only collects neither enters nor leaves a submission.
LEMMA CollectsKeepsCommitting ==
  ASSUME NEW b, NEW c, Collects(b, c)
  PROVE  (c.state = "committing") <=> (b.state = "committing")
  BY DEF Collects, Collecting, Submitted

\* Whoever submits an answer is the connection attached to the entry: nobody
\* takes it over until the session has answered.
THEOREM SubmitterServesHolds == Spec => []SubmitterServes
  <1>1. Init => SubmitterServes
    BY DEF Init, EmptyBuffer, NoCommit, SubmitterServes
  <1>2. BufferSound /\ SubmitterServes /\ [Next]_vars => SubmitterServes'
    <2> SUFFICES ASSUME Sound(buffer), SubmitterServes, [Next]_vars
                 PROVE  SubmitterServes'
      BY DEF BufferSound
    <2> USE DEF SubmitterServes
    <2>0. buffer \in Buffer
      BY DEF Sound
    <2>1. ASSUME NEW c \in Conn, Connect(c) PROVE SubmitterServes'
      <3>1. buffer.state # "committing" /\ buffer'.state # "committing"
        BY <2>0, <2>1, PreparedCollects, CollectsKeepsCommitting DEF Connect, TurnedAway
      <3> QED BY <2>1, <3>1 DEF Connect
    <2>2. ASSUME NEW c \in Conn, Disconnect(c) PROVE SubmitterServes'
      <3>1. (buffer'.state = "committing") <=> (buffer.state = "committing")
        BY <2>0, <2>2, CancelCollects, CollectsKeepsCommitting DEF Disconnect
      <3>2. CASE commit.phase = "submitting"
        BY <2>2, <3>1, <3>2 DEF Disconnect, Detached
      <3>3. CASE commit.phase # "submitting"
        BY <2>2, <3>1, <3>3 DEF Disconnect, NoCommit
      <3> QED BY <3>2, <3>3
    <2>3. CASE CommitFires
      <3>1. CASE buffer' = BeginCommit(buffer) /\ commit' = [phase |-> "submitting", by |-> owner]
        <4>1. buffer'.state = "committing"
          BY <2>0, <3>1 DEF BeginCommit, Buffer
        <4> QED BY <2>3, <3>1, <4>1 DEF CommitFires
      <3>2. CASE /\ buffer' = ResumeListening(buffer) /\ UNCHANGED commit
                 /\ buffer.state = "complete_candidate"
        <4>1. buffer'.state = "listening"
          BY <2>0, <3>2, ClearedFields DEF ResumeListening
        <4> QED BY <2>3, <3>2, <4>1 DEF CommitFires
      <3>3. CASE UNCHANGED <<buffer, commit>>
        BY <2>3, <3>3 DEF CommitFires
      <3> QED BY <2>3, <3>1, <3>2, <3>3 DEF CommitFires
    <2>4. CASE SubmitSucceeds
      <3>1. buffer'.state = "committed"
        BY <2>0, <2>4 DEF SubmitSucceeds, MarkCommitted, Buffer
      <3>2. commit'.phase # "submitting"
        BY <2>4 DEF SubmitSucceeds, NoCommit
      <3> QED BY <3>1, <3>2
    <2>5. CASE SubmitFails
      <3>1. buffer'.state = "listening"
        <4>1. CanEndCommit(buffer, buffer.revision)
          BY <2>5 DEF SubmitFails, CanEndCommit
        <4> QED
          BY <2>0, <2>5, <4>1, ClearedFields DEF SubmitFails, AbortCommit, ResumeListening
      <3> QED BY <2>5, <3>1 DEF SubmitFails, NoCommit
    <2>6. CASE Report
      BY <2>6 DEF Report, NoCommit
    <2>7. ASSUME Collects(buffer, buffer'), UNCHANGED <<commit, owner>>
          PROVE  SubmitterServes'
      BY <2>7, CollectsKeepsCommitting
    <2>8. ASSUME NEW c \in Conn, Receive(c) \/ Handle(c) \/ Classify(c)
          PROVE  UNCHANGED <<commit, owner>>
      <3>1. CASE Receive(c)
        BY <3>1 DEF Receive
      <3>2. CASE ReceiveTranscript(c)
        <4>1. \E b, carried : TranscriptTaken(c, b, carried)
          BY <3>2 DEF ReceiveTranscript
        <4> QED BY <4>1 DEF TranscriptTaken
      <3>3. CASE ReceiveActivity(c)
        BY <3>3 DEF ReceiveActivity
      <3>4. CASE ReceiveResponseReady(c) \/ ReceiveResponseActivity(c)
        BY <3>4 DEF ReceiveResponseReady, ReceiveResponseActivity
      <3>5. CASE ReceiveResponse(c) \/ RefuseMessage(c)
        BY <3>5 DEF ReceiveResponse, RefuseMessage
      <3>6. CASE Classified(c) \/ ClassifiedTooLate(c)
        BY <3>6 DEF Classified, ClassifiedTooLate
      <3> QED BY <2>8, <3>1, <3>2, <3>3, <3>4, <3>5, <3>6 DEF Handle, Classify
    <2>9. CASE JudgeTakes \/ JudgeReturns \/ StallFires \/ ConfirmationDelayFires
               \/ ReadyTimeoutFires \/ ResponseTimeoutFires
               \/ InterviewMoves \/ EntryReplaced \/ TurnOver \/ UNCHANGED vars
      <3>1. UNCHANGED <<commit, owner>>
        BY <2>9 DEF JudgeTakes, JudgeReturns, StallFires, ConfirmationDelayFires,
           ReadyTimeoutFires, ResponseTimeoutFires, InterviewMoves, EntryReplaced,
           TurnOver, vars
      <3> QED
        BY <2>3, <2>4, <2>5, <2>7, <3>1, NextCollects DEF SubmitReturns
    <2>10. ASSUME NEW c \in Conn, Receive(c) \/ Handle(c) \/ Classify(c)
           PROVE  SubmitterServes'
      BY <2>3, <2>4, <2>5, <2>7, <2>8, <2>10, NextCollects DEF SubmitReturns
    <2> QED
      BY <2>1, <2>2, <2>3, <2>4, <2>5, <2>6, <2>9, <2>10
      DEF Next, TimerFires, SubmitReturns
  <1> QED BY <1>1, <1>2, BufferSoundHolds, PTL DEF Spec

---------------------------------------------------------------------------
(* The types of the variables, and who is where. *)

\* What scheduling a task or cancelling it makes of the tasks is a set of tasks.
LEMMA TasksTyped ==
  ASSUME NEW t \in Timers, NEW b \in Buffer
  PROVE  /\ [t EXCEPT !.stall = NoRevision] \in Timers
         /\ Interrupted(t) \in Timers
         /\ MaybeScheduleStall(t, b) \in Timers
         /\ ScheduleCommit(t, b.revision) \in Timers
         /\ Dispatch(t, b) \in Timers
  <1>0. /\ NoRevision \in Revisions /\ b.revision \in Revisions
        /\ CancelConfirmationTimers(t) \in Timers
    BY DEF Revisions, Buffer, Timers, CancelConfirmationTimers
  <1>1. [t EXCEPT !.stall = NoRevision] \in Timers
    BY <1>0 DEF Timers
  <1>2. Interrupted(t) \in Timers
    <2> DEFINE i == IF InConfirmation(buffer) THEN CancelConfirmationTimers(t) ELSE t
    <2>1. i \in Timers
      BY <1>0
    <2> HIDE DEF i
    <2>2. [i EXCEPT !.commit = IF buffer.state = "complete_candidate" THEN NoRevision ELSE @]
             \in Timers
      BY <1>0, <2>1 DEF Timers
    <2> QED BY <2>2 DEF Interrupted, i
  <1>3. MaybeScheduleStall(t, b) \in Timers
    BY <1>0 DEF MaybeScheduleStall, Timers
  <1>4. ScheduleCommit(t, b.revision) \in Timers
    BY <1>0 DEF ScheduleCommit, Timers
  <1>5. ScheduleConfirmation(t, b.revision) \in Timers
    BY <1>0 DEF ScheduleConfirmation, Timers
  <1> QED BY <1>1, <1>2, <1>3, <1>4, <1>5 DEF Dispatch

\* Also what a transcript makes of them.
LEMMA TranscriptTasksTyped ==
  ASSUME timers \in Timers, NEW b \in Buffer, NEW carried, NEW accepted
  PROVE  TimersAfterTranscript(b, carried, accepted) \in Timers
  <1> DEFINE t == [Interrupted(timers) EXCEPT !.stall = NoRevision]
  <1>1. t \in Timers
    BY TasksTyped
  <1>2. Dispatch(t, b) \in Timers /\ MaybeScheduleStall(t, b) \in Timers
    BY <1>1, TasksTyped
  <1> HIDE DEF t
  <1> QED BY <1>1, <1>2 DEF TimersAfterTranscript, t

\* The operations of the worker: only closing it closes it.
LEMMA WorkerTyped ==
  ASSUME NEW w \in Worker
  PROVE  /\ \A b \in Buffer : /\ Enqueue(w, SnapshotOf(b)) \in Worker
                              /\ Enqueue(w, SnapshotOf(b)).closed = w.closed
         /\ Take(w) \in Worker /\ Take(w).closed = w.closed
         /\ Finish(w) \in Worker /\ Finish(w).closed = w.closed
         /\ Close(w) \in Worker /\ Close(w).closed
         /\ NewWorker \in Worker
  <1>1. ASSUME NEW b \in Buffer
        PROVE  /\ Enqueue(w, SnapshotOf(b)) \in Worker
               /\ Enqueue(w, SnapshotOf(b)).closed = w.closed
    <2>1. SnapshotOf(b) \in Snapshot /\ SnapshotOf(b).revision \in Revisions
      BY DEF SnapshotOf, Snapshot, Buffer, Revisions
    <2> HIDE DEF SnapshotOf
    <2> QED BY <2>1 DEF Enqueue, Worker, Snapshot
  <1>2. /\ Take(w) \in Worker /\ Take(w).closed = w.closed
        /\ Finish(w) \in Worker /\ Finish(w).closed = w.closed
        /\ Close(w) \in Worker /\ Close(w).closed
    BY DEF Take, Finish, Close, Worker
  <1>3. NewWorker \in Worker
    BY DEF NewWorker, Worker, Revisions, Answer, Blank
  <1> QED BY <1>1, <1>2, <1>3

\* A handler is somewhere.
Handler == {Idle, Fetching} \cup {Classifying(id) : id \in ConfirmationId}

\* Only an open connection handles messages and only the connection that submits
\* can be waiting to close.
Linked ==
    \A c \in Conn :
        /\ handler[c] # Idle => link[c] = "open"
        /\ link[c] = "closing" => commit = [phase |-> "submitting", by |-> c]

\* The types of everything but the buffer.
Placed ==
    /\ owner \in Conn \cup {NoConn}
    /\ worker \in Worker
    /\ timers \in Timers
    /\ commit \in [phase: {"idle", "submitting", "reporting"}, by: Conn \cup {NoConn}]
    /\ link \in [Conn -> {"new", "open", "closing", "closed"}]
    /\ handler \in [Conn -> Handler]
    /\ acceptEqual \in [Conn -> BOOLEAN]
    /\ question \in {"asked", "passed"}
    /\ retired \in BOOLEAN /\ handedBack \in BOOLEAN
    /\ taken \in Rev \cup {NoRevision}

LEMMA TypeOKParts ==
  TypeOK <=> buffer \in Buffer /\ buffer.revision \in Rev /\ Placed /\ Linked
  BY DEF TypeOK, Placed, Linked, Handler

\* What the handlers of messages leave alone, and what they may do to the rest.
LEMMA HandlePlaces ==
  ASSUME TypeOK, Sound(buffer), Sound(buffer'), NEW c \in Conn, Handle(c) \/ Classify(c)
  PROVE  /\ UNCHANGED <<owner, commit, link, question, retired, taken>>
         /\ worker' \in Worker /\ worker'.closed = worker.closed
         /\ timers' \in Timers
         /\ \E h \in Handler : handler' = [handler EXCEPT ![c] = h]
         /\ handler[c] # Idle
         /\ acceptEqual' \in [Conn -> BOOLEAN]
         /\ handedBack' \in BOOLEAN
  <1>0. /\ buffer \in Buffer /\ buffer' \in Buffer
        /\ worker \in Worker /\ timers \in Timers
        /\ acceptEqual \in [Conn -> BOOLEAN] /\ handedBack \in BOOLEAN
        /\ Idle \in Handler /\ \A id \in ConfirmationId : Classifying(id) \in Handler
    BY DEF TypeOK, Sound, Handler
  <1>1. /\ Handling(c) => handler[c] # Idle
        /\ handler[c].pc \in {"fetching", "classifying"} => handler[c] # Idle
    BY DEF Handling, Idle
  <1>2. CASE ReceiveTranscript(c)
    <2>1. PICK b, carried : TranscriptTaken(c, b, carried)
      BY <1>2 DEF ReceiveTranscript
    <2> DEFINE accepted == Serving(c) /\ Accepts(worker, SnapshotOf(b), b)
    <2>2. /\ buffer' = b /\ handler' = [handler EXCEPT ![c] = Idle] /\ Handling(c)
          /\ worker' = IF accepted THEN Enqueue(worker, SnapshotOf(b)) ELSE worker
          /\ timers' = IF Serving(c) THEN TimersAfterTranscript(b, carried, accepted) ELSE timers
          /\ acceptEqual' = [acceptEqual EXCEPT ![c] = FALSE] /\ handedBack' = FALSE
          /\ UNCHANGED <<owner, commit, link, question, retired, taken>>
      BY <1>2, <2>1 DEF ReceiveTranscript, TranscriptTaken, Handling, SetTimers
    <2>3. worker' \in Worker /\ worker'.closed = worker.closed
      BY <1>0, <2>2, WorkerTyped
    <2>4. timers' \in Timers
      BY <1>0, <2>2, TranscriptTasksTyped
    <2> HIDE DEF accepted
    <2> QED BY <1>0, <1>1, <2>2, <2>3, <2>4
  <1>3. CASE ReceiveActivity(c)
    <2>1. PICK rev \in Rev, speech \in BOOLEAN :
            /\ buffer' \in Buffer
            /\ LET b == UpdateSpeechActivity(buffer, speech)
                   held == /\ buffer.speechActive /\ ~speech
                           /\ b.state = "listening" /\ b.segmentFinal
                           /\ b.decisionRevision = rev
                           /\ b.decision.action \in {"auto_submit", "ask_confirmation"}
               IN  SetTimers(c,
                     CASE speech -> [Interrupted(timers) EXCEPT !.stall = NoRevision]
                       [] held -> Dispatch(timers, buffer')
                       [] OTHER -> MaybeScheduleStall(timers, b))
      BY <1>0, <1>3 DEF ReceiveActivity
    <2> DEFINE b == UpdateSpeechActivity(buffer, speech)
    <2>2. b \in Buffer
      BY <1>0, ActivityFields
    <2>3. /\ [Interrupted(timers) EXCEPT !.stall = NoRevision] \in Timers
          /\ Dispatch(timers, buffer') \in Timers
          /\ MaybeScheduleStall(timers, b) \in Timers
      BY <1>0, <2>2, TasksTyped
    <2>4. timers' \in Timers
      BY <1>0, <2>1, <2>3 DEF SetTimers
    <2>5. /\ handler' = [handler EXCEPT ![c] = Idle] /\ Handling(c) /\ handedBack' \in BOOLEAN
          /\ UNCHANGED <<owner, worker, commit, link, acceptEqual, question, retired, taken>>
      BY <1>0, <1>3 DEF ReceiveActivity, Handling
    <2> QED BY <1>0, <1>1, <2>4, <2>5
  <1>4. CASE ReceiveResponseReady(c) \/ ReceiveResponseActivity(c)
    <2>1. /\ handler' = [handler EXCEPT ![c] = Idle] /\ Handling(c)
          /\ UNCHANGED <<owner, worker, commit, link, acceptEqual, question, retired, taken,
                         handedBack>>
      BY <1>4 DEF ReceiveResponseReady, ReceiveResponseActivity, Handling
    <2>2. timers' \in Timers
      BY <1>0, <1>4 DEF ReceiveResponseReady, ReceiveResponseActivity, SetTimers, Timers
    <2> QED BY <1>0, <1>1, <2>1, <2>2
  <1>5. CASE ReceiveResponse(c)
    <2>1. /\ \E id \in ConfirmationId : handler' = [handler EXCEPT ![c] = Classifying(id)]
          /\ handler[c].pc = "fetching"
          /\ UNCHANGED <<owner, worker, commit, link, acceptEqual, question, retired, taken,
                         handedBack>>
      BY <1>5 DEF ReceiveResponse
    <2>2. timers' \in Timers
      BY <1>0, <1>5 DEF ReceiveResponse, SetTimers, Timers
    <2> QED BY <1>0, <1>1, <2>1, <2>2
  <1>6. CASE RefuseMessage(c)
    BY <1>0, <1>1, <1>6 DEF RefuseMessage, Handling
  <1>7. CASE Classified(c)
    <2>1. PICK intent \in Intent, content \in Answer, newRev \in Rev :
            LET s == SnapshotOf(buffer')
                accepted == /\ intent = "answer_content"
                            /\ Serving(c) /\ Accepts(worker, s, buffer')
            IN  /\ worker' = IF accepted THEN Enqueue(worker, s) ELSE worker
                /\ SetTimers(c, CASE intent = "finish" -> ScheduleCommit(timers, buffer.revision)
                                  [] intent = "answer_content" -> timers
                                  [] OTHER -> MaybeScheduleStall(timers, buffer'))
      BY <1>7 DEF Classified
    <2>2. worker' \in Worker /\ worker'.closed = worker.closed
      BY <1>0, <2>1, WorkerTyped
    <2>3. timers' \in Timers
      <3>1. /\ ScheduleCommit(timers, buffer.revision) \in Timers
            /\ MaybeScheduleStall(timers, buffer') \in Timers
        BY <1>0, TasksTyped
      <3> QED BY <1>0, <2>1, <3>1 DEF SetTimers
    <2>4. /\ handler' = [handler EXCEPT ![c] = Idle] /\ handler[c].pc = "classifying"
          /\ UNCHANGED <<owner, commit, link, acceptEqual, question, retired, taken, handedBack>>
      BY <1>7 DEF Classified
    <2> QED BY <1>0, <1>1, <2>2, <2>3, <2>4
  <1>8. CASE ClassifiedTooLate(c)
    BY <1>0, <1>1, <1>8 DEF ClassifiedTooLate
  <1> QED BY <1>2, <1>3, <1>4, <1>5, <1>6, <1>7, <1>8 DEF Handle, Classify

\* What Disconnect and the end of a submission do to whom.
LEMMA ReleasePlaces ==
  ASSUME Placed, NEW c \in Conn, Released(c)
  PROVE  /\ owner' \in {owner, NoConn}
         /\ link' \in [Conn -> {"new", "open", "closing", "closed"}]
         /\ \A d \in Conn \ {c} : link'[d] = link[d]
         /\ link'[c] = IF link[c] = "closing" THEN "closed" ELSE link[c]
  BY DEF Placed, Released

\* The messages of the client and the tasks of the coordinator keep the types.
LEMMA TasksPlaces ==
  ASSUME TypeOK, Sound(buffer), Sound(buffer'),
         JudgeTakes \/ JudgeReturns \/ StallFires \/ ConfirmationDelayFires
         \/ ReadyTimeoutFires \/ ResponseTimeoutFires
  PROVE  /\ UNCHANGED <<owner, commit, link, handler, acceptEqual, question, retired, taken>>
         /\ worker' \in Worker /\ worker'.closed = worker.closed
         /\ timers' \in Timers
         /\ handedBack' \in BOOLEAN
  <1>0. /\ buffer \in Buffer /\ buffer' \in Buffer
        /\ worker \in Worker /\ timers \in Timers /\ handedBack \in BOOLEAN
    BY DEF TypeOK, Sound
  <1>1. CASE JudgeTakes
    BY <1>0, <1>1, WorkerTyped DEF JudgeTakes
  <1>2. CASE JudgeReturns
    <2>1. timers' \in Timers
      BY <1>0, <1>2, TasksTyped DEF JudgeReturns
    <2> QED BY <1>0, <1>2, <2>1, WorkerTyped DEF JudgeReturns
  <1>3. CASE StallFires
    <2> DEFINE t == [timers EXCEPT !.stall = NoRevision]
    <2>1. t \in Timers
      BY <1>0, TasksTyped
    <2>2. timers' \in {t, Dispatch(t, buffer')}
      BY <1>3 DEF StallFires
    <2>3. Dispatch(t, buffer') \in Timers
      BY <1>0, <2>1, TasksTyped
    <2> HIDE DEF t
    <2> QED BY <1>0, <1>3, <2>1, <2>2, <2>3 DEF StallFires
  <1>4. CASE ConfirmationDelayFires
    <2> DEFINE t == [timers EXCEPT !.delay = NoRevision]
               id == buffer.confirmationCount + 1
    <2>1. t \in Timers
      BY <1>0 DEF Timers, Revisions
    <2>2. \/ timers' = t
          \/ CanBeginPrompt(buffer, timers.delay) /\ timers' = [t EXCEPT !.ready = id]
      BY <1>4 DEF ConfirmationDelayFires
    <2>3. CanBeginPrompt(buffer, timers.delay) => id \in ConfirmationId
      BY <1>0, ConfirmationIdAssumption, MaxConfirmationsAssumption DEF CanBeginPrompt, Buffer
    <2>4. id \in ConfirmationId => [t EXCEPT !.ready = id] \in Timers
      <3> HIDE DEF t, id
      <3> QED BY <2>1 DEF Timers
    <2>5. timers' \in Timers
      BY <2>1, <2>2, <2>3, <2>4
    <2> QED BY <1>0, <1>4, <2>5 DEF ConfirmationDelayFires
  <1>5. CASE ReadyTimeoutFires
    <2>1. timers' \in Timers
      BY <1>0, <1>5 DEF ReadyTimeoutFires, Timers
    <2> QED BY <1>0, <1>5, <2>1 DEF ReadyTimeoutFires
  <1>6. CASE ResponseTimeoutFires
    <2> DEFINE t == [timers EXCEPT !.response = NoConfirmation]
    <2>1. t \in Timers
      BY <1>0 DEF Timers
    <2>2. timers' \in {t, ScheduleCommit(t, buffer.revision)}
      BY <1>6 DEF ResponseTimeoutFires
    <2>3. ScheduleCommit(t, buffer.revision) \in Timers
      BY <1>0, <2>1, TasksTyped
    <2> HIDE DEF t
    <2> QED BY <1>0, <1>6, <2>1, <2>2, <2>3 DEF ResponseTimeoutFires
  <1> QED BY <1>1, <1>2, <1>3, <1>4, <1>5, <1>6

\* A submission begins or ends with the types kept.
LEMMA SubmissionPlaces ==
  ASSUME TypeOK, SubmitterServes, CommitFires \/ SubmitReturns
  PROVE  Placed' /\ Linked' /\ buffer'.revision \in Rev
  <1>0. /\ buffer \in Buffer /\ buffer.revision \in Rev /\ Placed /\ Linked
        /\ timers \in Timers /\ NoTimers \in Timers
        /\ commit.by \in Conn \cup {NoConn}
    BY TypeOKParts DEF Placed, NoTimers, Timers, Revisions
  <1>1. CASE CommitFires
    <2>1. timers' \in Timers
      BY <1>0, <1>1 DEF CommitFires, Timers, Revisions
    <2>2. \/ UNCHANGED commit
          \/ /\ commit' = [phase |-> "submitting", by |-> owner]
             /\ buffer.state = "complete_candidate"
      BY <1>1 DEF CommitFires, CanBeginCommit
    <2>3. Placed'
      <3>1. commit' \in [phase: {"idle", "submitting", "reporting"}, by: Conn \cup {NoConn}]
        BY <1>0, <2>2 DEF Placed
      <3> QED BY <1>0, <1>1, <2>1, <3>1 DEF Placed, CommitFires
    <2>4. UNCHANGED <<link, handler>>
      BY <1>1 DEF CommitFires
    <2>5. buffer.state = "complete_candidate" => \A c \in Conn : link[c] # "closing"
      BY <1>0 DEF Linked, SubmitterServes
    <2>6. Linked'
      BY <1>0, <2>2, <2>4, <2>5 DEF Linked
    <2>7. buffer'.revision \in Rev
      BY <1>0, <1>1, ClearedFields DEF CommitFires, ResumeListening, BeginCommit, Buffer
    <2> QED BY <2>3, <2>6, <2>7
  <1>2. CASE SubmitReturns
    <2>1. /\ commit.phase = "submitting" /\ Released(commit.by)
          /\ UNCHANGED <<handler, acceptEqual, retired>>
      BY <1>2 DEF SubmitReturns, SubmitSucceeds, SubmitFails
    <2>2. buffer.state = "committing" /\ owner = commit.by
      BY <2>1 DEF SubmitterServes
    <2>3. \/ commit' = NoCommit
          \/ /\ commit' = [commit EXCEPT !.phase = "reporting"]
             /\ link[commit.by] # "closing"
      BY <1>2 DEF SubmitReturns, SubmitSucceeds, SubmitFails
    <2>4. commit' \in [phase: {"idle", "submitting", "reporting"}, by: Conn \cup {NoConn}]
      BY <1>0, <2>3 DEF Placed, NoCommit
    <2>5. worker' \in Worker /\ timers' \in Timers
      BY <1>0, <1>2, WorkerTyped DEF SubmitReturns, SubmitSucceeds, SubmitFails, Placed
    <2>6. /\ question' \in {"asked", "passed"} /\ handedBack' \in BOOLEAN
          /\ taken' \in Rev \cup {NoRevision}
      BY <1>0, <1>2 DEF SubmitReturns, SubmitSucceeds, SubmitFails, Placed
    <2>7. buffer'.revision \in Rev
      BY <1>0, <1>2, ClearedFields
      DEF SubmitReturns, SubmitSucceeds, SubmitFails, MarkCommitted, AbortCommit,
          ResumeListening, Buffer
    <2>8. /\ owner' \in Conn \cup {NoConn}
          /\ link' \in [Conn -> {"new", "open", "closing", "closed"}]
          /\ \A d \in Conn : \/ link'[d] = link[d] /\ link[d] # "closing"
                             \/ link[d] = "closing" /\ link'[d] = "closed"
      <3>1. \A d \in Conn : link[d] = "closing" => d = commit.by
        BY <1>0 DEF Linked
      <3>2. CASE commit.by \in Conn
        BY <1>0, <2>1, <3>1, <3>2, ReleasePlaces DEF Placed
      <3>3. CASE commit.by \notin Conn
        <4>1. \A d \in Conn : link[d] # "closing"
          BY <3>1, <3>3
        <4>2. UNCHANGED owner \/ owner' = NoConn
          BY <2>1 DEF Released
        <4>3. link' = link \/ link' = [link EXCEPT ![commit.by] = "closed"]
          BY <2>1 DEF Released
        <4>4. link' = link
          BY <1>0, <3>3, <4>3 DEF Placed
        <4> QED BY <1>0, <4>1, <4>2, <4>4 DEF Placed
      <3> QED BY <3>2, <3>3
    <2>9. Placed'
      BY <1>0, <2>1, <2>4, <2>5, <2>6, <2>8 DEF Placed
    <2>10. Linked'
      BY <1>0, <2>1, <2>8 DEF Linked
    <2> QED BY <2>7, <2>9, <2>10
  <1> QED BY <1>1, <1>2

\* Every step keeps the types.
LEMMA NextTyped ==
  ASSUME TypeOK, Sound(buffer), Sound(buffer'), SubmitterServes, [Next]_vars
  PROVE  TypeOK'
  <1>0. /\ buffer \in Buffer /\ buffer' \in Buffer /\ buffer.revision \in Rev
        /\ Placed /\ Linked
    BY TypeOKParts DEF Sound
  <1>1. CASE CommitFires \/ SubmitReturns
    BY <1>0, <1>1, SubmissionPlaces, TypeOKParts DEF Placed, Linked, TypeOK, Handler
  <1>2. ASSUME ~(CommitFires \/ SubmitReturns)
        PROVE  buffer'.revision \in Rev
    <2>1. Collects(buffer, buffer')
      BY <1>2, NextCollects
    <2> QED BY <1>0, <2>1 DEF Collects, Same
  <1>3. ASSUME Placed', Linked', ~(CommitFires \/ SubmitReturns)
        PROVE  TypeOK'
    BY <1>0, <1>2, <1>3 DEF Placed, Linked, TypeOK, Handler
  <1>4. ASSUME NEW c \in Conn, Connect(c) PROVE Placed' /\ Linked'
    <2>1. worker' \in Worker /\ timers' \in Timers
      <3>1. NoTimers \in Timers
        BY DEF NoTimers, Timers, Revisions
      <3> QED BY <1>0, <1>4, <3>1, WorkerTyped DEF Connect, Placed
    <2>2. Placed'
      BY <1>0, <1>4, <2>1 DEF Connect, Placed
    <2>3. Linked'
      BY <1>0, <1>4 DEF Connect, Linked, Placed
    <2> QED BY <2>2, <2>3
  <1>5. ASSUME NEW c \in Conn, Disconnect(c) PROVE Placed' /\ Linked'
    <2>1. timers' \in Timers
      BY <1>0, <1>5 DEF Disconnect, Placed, NoTimers, Timers, Revisions
    <2>2. worker' \in Worker /\ owner' \in Conn \cup {NoConn}
      BY <1>0, <1>5, WorkerTyped DEF Disconnect, Detached, Placed
    <2>3. /\ commit' \in [phase: {"idle", "submitting", "reporting"}, by: Conn \cup {NoConn}]
          /\ link' \in [Conn -> {"new", "open", "closing", "closed"}]
      BY <1>0, <1>5 DEF Disconnect, NoCommit, Placed
    <2>4. Placed'
      BY <1>0, <1>5, <2>1, <2>2, <2>3 DEF Disconnect, Placed
    <2>5. Linked'
      <3>1. CASE commit.by = c /\ commit.phase = "submitting"
        <4>1. commit = [phase |-> "submitting", by |-> c]
          BY <1>0, <3>1 DEF Placed
        <4>2. link' = [link EXCEPT ![c] = "closing"] /\ UNCHANGED <<commit, handler>>
          BY <1>5, <3>1 DEF Disconnect
        <4> QED BY <1>0, <1>5, <4>1, <4>2 DEF Disconnect, Linked, Placed
      <3>2. CASE ~(commit.by = c /\ commit.phase = "submitting")
        <4>1. /\ link' = [link EXCEPT ![c] = "closed"] /\ UNCHANGED handler
              /\ commit.by # c => commit' = commit
          BY <1>5, <3>2 DEF Disconnect
        <4>2. \A d \in Conn \ {c} : link[d] = "closing" => commit.by # c
          BY <1>0 DEF Linked
        <4> QED BY <1>0, <1>5, <4>1, <4>2 DEF Disconnect, Linked, Placed
      <3> QED BY <3>1, <3>2
    <2> QED BY <2>4, <2>5
  <1>6. ASSUME NEW c \in Conn, Receive(c) PROVE Placed' /\ Linked'
    BY <1>0, <1>6 DEF Receive, Placed, Linked, Handler
  <1>7. ASSUME NEW c \in Conn, Handle(c) \/ Classify(c) PROVE Placed' /\ Linked'
    <2>1. /\ UNCHANGED <<owner, commit, link, question, retired, taken>>
          /\ worker' \in Worker /\ timers' \in Timers
          /\ \E h \in Handler : handler' = [handler EXCEPT ![c] = h]
          /\ handler[c] # Idle
          /\ acceptEqual' \in [Conn -> BOOLEAN] /\ handedBack' \in BOOLEAN
      BY <1>7, HandlePlaces
    <2> QED BY <1>0, <2>1 DEF Placed, Linked
  <1>8. CASE JudgeTakes \/ JudgeReturns \/ StallFires \/ ConfirmationDelayFires
             \/ ReadyTimeoutFires \/ ResponseTimeoutFires
    <2>1. Placed' /\ Linked'
      BY <1>0, <1>8, TasksPlaces DEF Placed, Linked
    <2> QED BY <1>1, <1>3, <2>1
  <1>9. CASE Report
    BY <1>0, <1>9, <1>1, <1>3 DEF Report, Placed, Linked, NoCommit
  <1>10. CASE InterviewMoves \/ EntryReplaced
    <2>1. worker' \in Worker /\ timers' \in Timers
      BY <1>0, <1>10, WorkerTyped
      DEF InterviewMoves, EntryReplaced, Placed, NoTimers, Timers, Revisions
    <2> QED BY <1>0, <1>10, <1>1, <1>3, <2>1 DEF InterviewMoves, EntryReplaced, Placed, Linked
  <1>11. CASE TurnOver \/ UNCHANGED vars
    BY <1>0, <1>11 DEF TurnOver, vars, TypeOK
  <1> QED
    BY <1>1, <1>3, <1>4, <1>5, <1>6, <1>7, <1>8, <1>9, <1>10, <1>11
    DEF Next, TimerFires

\* The variables have their types in every behaviour, an answer is taken only in
\* a revision that was sent, and who closes with an answer under way submits it.
THEOREM TypeCorrect == Spec => []TypeOK
  <1>1. Init => TypeOK
    <2> SUFFICES ASSUME Init PROVE TypeOK
      OBVIOUS
    <2>1. buffer \in Buffer /\ buffer.revision \in Rev
      BY EmptySound, MaxRevisionAssumption DEF Init, Sound, EmptyBuffer, Rev
    <2>2. worker \in Worker
      <3>1. NewWorker \in Worker
        BY DEF NewWorker, Worker, Revisions, Answer, Blank
      <3> QED BY <3>1, WorkerTyped DEF Init
    <2>3. timers \in Timers
      BY DEF Init, NoTimers, Timers, Revisions
    <2>4. Placed
      BY <2>2, <2>3 DEF Init, Placed, NoCommit, Handler
    <2>5. Linked
      BY DEF Init, Linked
    <2> QED BY <2>1, <2>4, <2>5, TypeOKParts
  <1>2. TypeOK /\ BufferSound /\ BufferSound' /\ SubmitterServes /\ [Next]_vars => TypeOK'
    BY NextTyped DEF BufferSound
  <1> QED BY <1>1, <1>2, BufferSoundHolds, SubmitterServesHolds, PTL DEF Spec

---------------------------------------------------------------------------
(* What is confirmed can be confirmed. *)

\* A confirmation is about words, and one in preparation can still be started:
\* otherwise its pause would end in nothing.
Ready(b) ==
    /\ InConfirmation(b) => b.text # Blank
    /\ b.state = "confirmation_pending" => CanStartConfirmation(b, b.decision)

\* Outside a confirmation there is nothing to be ready for.
LEMMA NotConfirming ==
  ASSUME NEW b, ~InConfirmation(b)
  PROVE  Ready(b)
  BY DEF Ready, InConfirmation

\* A buffer that returned to listening is ready, and so is one whose confirmation
\* was cancelled.
LEMMA ClearedReady ==
  ASSUME NEW b \in Buffer
  PROVE  Ready(Cleared(b)) /\ Ready(CancelConfirmation(b)) /\ Ready(Prepared(b))
  <1>1. ~InConfirmation(Cleared(b))
    BY ClearedFields DEF InConfirmation
  <1>2. Cleared(Cleared(b)).state = "listening"
    BY ClearedFields
  <1>3. ~InConfirmation(CancelConfirmation(b))
    BY <1>1 DEF CancelConfirmation, ResumeListening
  <1>4. CancelConfirmation(b) \in Buffer
    BY ClearedFields DEF CancelConfirmation, ResumeListening
  <1>5. ~InConfirmation(Prepared(b))
    BY <1>3, <1>4, ClearedFields DEF Prepared, ResumeListening, InConfirmation
  <1> QED BY <1>1, <1>3, <1>5, NotConfirming

\* The policy prepares a confirmation only if it can be started.
LEMMA PolicyReady ==
  ASSUME NEW b \in Buffer, b.state = "listening", NEW d, b.decision = d
  PROVE  Ready(ApplyPolicy(b, d))
  <1> DEFINE auto == CanStartAutoSubmit(b, d) /\ CanMarkCandidate(b, b.revision)
             ask == CanStartConfirmation(b, d) /\ CanMarkPending(b, b.revision)
  <1>1. CASE auto
    <2>1. ApplyPolicy(b, d).state = "complete_candidate"
      BY <1>1 DEF ApplyPolicy, MarkCompleteCandidate, Buffer
    <2> QED BY <2>1 DEF Ready, InConfirmation
  <1>2. CASE ~auto /\ ask
    <2>1. ApplyPolicy(b, d) = MarkConfirmationPending(b)
      BY <1>2 DEF ApplyPolicy
    <2>2. CanStartConfirmation(MarkConfirmationPending(b), d)
      BY <1>2 DEF CanStartConfirmation, MarkConfirmationPending, Buffer
    <2>3. /\ MarkConfirmationPending(b).decision = d
          /\ MarkConfirmationPending(b).text # Blank
      BY <1>2 DEF CanStartConfirmation, MarkConfirmationPending, Buffer
    <2> QED BY <2>1, <2>2, <2>3 DEF Ready
  <1>3. CASE ~auto /\ ~ask
    BY <1>3 DEF ApplyPolicy, Ready, InConfirmation
  <1> QED BY <1>1, <1>2, <1>3

\* Silence takes nothing away.
LEMMA SilenceReady ==
  ASSUME NEW b \in Buffer, NEW speech \in BOOLEAN, Ready(b)
  PROVE  Ready(UpdateSpeechActivity(b, speech))
  <1>1. CASE speech
    <2>1. UpdateSpeechActivity(b, speech).state = "listening"
      BY <1>1, ActivityFields
    <2> QED BY <2>1 DEF Ready, InConfirmation
  <1>2. CASE ~speech
    BY <1>2 DEF UpdateSpeechActivity, Ready, InConfirmation, CanStartConfirmation, Buffer
  <1> QED BY <1>1, <1>2

\* What a handler makes of a transcript is ready.
LEMMA TranscriptReady ==
  ASSUME Sound(buffer), NEW c \in Conn, ReceiveTranscript(c)
  PROVE  Ready(buffer')
  <1>0. buffer \in Buffer
    BY DEF Sound
  <1>1. PICK rev \in Rev, text \in Answer, speech \in BOOLEAN, final \in BOOLEAN :
          IF acceptEqual[c] /\ rev = buffer.revision
          THEN /\ CanSynchronize(buffer, rev, text)
               /\ TranscriptTaken(c, SynchronizeReconnectSnapshot(buffer, speech, final), FALSE)
          ELSE /\ CanUpdateTranscript(buffer, rev)
               /\ LET carried == EquivalentCandidate(text, speech, final)
                      b == UpdateTranscript(buffer, rev, text, speech, final)
                  IN  TranscriptTaken(c, IF carried
                                         THEN ApplyPolicy(RecordDecision(b, rev, buffer.decision),
                                                          buffer.decision)
                                         ELSE b, carried)
    BY DEF ReceiveTranscript
  <1>2. rev \in Nat
    BY MaxRevisionAssumption DEF Rev
  <1> DEFINE b == UpdateTranscript(buffer, rev, text, speech, final)
             carried == EquivalentCandidate(text, speech, final)
             r == RecordDecision(b, rev, buffer.decision)
  <1>3. CASE acceptEqual[c] /\ rev = buffer.revision
    <2>1. buffer' = SynchronizeReconnectSnapshot(buffer, speech, final)
      BY <1>1, <1>3 DEF TranscriptTaken
    <2>2. buffer'.state = "listening"
      BY <1>0, <2>1, ClearedFields DEF SynchronizeReconnectSnapshot, Buffer
    <2> QED BY <2>2 DEF Ready, InConfirmation
  <1>4. CASE ~(acceptEqual[c] /\ rev = buffer.revision)
    <2>1. b \in Buffer /\ b.state = "listening"
      BY <1>0, <1>2, ClearedFields DEF UpdateTranscript, Buffer
    <2>2. CASE ~carried
      <3>1. buffer' = b
        BY <1>1, <1>4, <2>2 DEF TranscriptTaken
      <3> QED BY <2>1, <3>1 DEF Ready, InConfirmation
    <2>3. CASE carried
      <3>1. buffer.decision \in Decision
        BY <1>0, <2>3 DEF EquivalentCandidate, Buffer, NoDecision
      <3>2. r \in Buffer /\ r.state = "listening"
        BY <1>2, <2>1, <3>1, RecordFields
      <3>3. r.decision = buffer.decision
        BY <2>1 DEF RecordDecision, Buffer
      <3>4. buffer' = ApplyPolicy(r, buffer.decision)
        BY <1>1, <1>4, <2>3 DEF TranscriptTaken
      <3> HIDE DEF r
      <3> QED BY <3>2, <3>3, <3>4, PolicyReady
    <2> QED BY <2>2, <2>3
  <1> QED BY <1>3, <1>4

\* So is what the stall watch makes of a stalled answer.
LEMMA StallReady ==
  ASSUME Sound(buffer), Ready(buffer), StallFires
  PROVE  Ready(buffer')
  <1> DEFINE rev == timers.stall
             fires == /\ question = "asked"
                      /\ buffer.revision = rev /\ buffer.text # Blank
                      /\ buffer.state = "listening" /\ buffer.segmentFinal
             b == IF buffer.speechActive THEN UpdateSpeechActivity(buffer, FALSE) ELSE buffer
             s == RecordDecision(b, rev, StallDecision)
  <1>0. buffer \in Buffer
    BY DEF Sound
  <1>1. CASE ~fires
    BY <1>1 DEF StallFires
  <1>2. CASE fires
    <2>1. /\ buffer.state = "listening" /\ rev \in Nat
      BY <1>0, <1>2 DEF Buffer
    <2>2. b \in Buffer /\ b.state = "listening"
      BY <1>0, <2>1, ActivityFields
    <2>3. s \in Buffer /\ s.state = "listening"
      <3>1. StallDecision \in Decision
        BY DEF StallDecision, Decision, Action
      <3> QED BY <2>1, <2>2, <3>1, RecordFields
    <2>4. s.decision = StallDecision
      BY <2>2 DEF RecordDecision, Buffer
    <2>5. MarkCutoffComplete(b).state = "complete_candidate"
      BY <2>2 DEF MarkCutoffComplete, Buffer
    <2>6. Ready(MarkCutoffComplete(b))
      BY <2>5 DEF Ready, InConfirmation
    <2>7. buffer' \in {ApplyPolicy(b, b.decision), ApplyPolicy(s, StallDecision),
                       MarkCutoffComplete(b)}
      BY <1>2 DEF StallFires
    <2>8. Ready(ApplyPolicy(b, b.decision)) /\ Ready(ApplyPolicy(s, StallDecision))
      <3> HIDE DEF b, s
      <3> QED BY <2>2, <2>3, <2>4, PolicyReady
    <2> QED BY <2>6, <2>7, <2>8
  <1> QED BY <1>1, <1>2

\* Every step leaves the buffer ready.
LEMMA NextReady ==
  ASSUME Sound(buffer), Ready(buffer), [Next]_vars
  PROVE  Ready(buffer')
  <1>0. buffer \in Buffer
    BY DEF Sound
  <1>1. ASSUME NEW c \in Conn, Connect(c) \/ Disconnect(c) PROVE Ready(buffer')
    BY <1>0, <1>1, ClearedReady DEF Connect, Disconnect
  <1>2. ASSUME NEW c \in Conn, Handle(c) PROVE Ready(buffer')
    <2>1. CASE ReceiveTranscript(c)
      BY <2>1, TranscriptReady
    <2>2. CASE ReceiveActivity(c)
      <3>1. PICK rev \in Rev, speech \in BOOLEAN :
              LET b == UpdateSpeechActivity(buffer, speech)
              IN  \/ buffer' = b
                  \/ b.state = "listening" /\ buffer' = ApplyPolicy(b, b.decision)
        BY <2>2 DEF ReceiveActivity
      <3>2. UpdateSpeechActivity(buffer, speech) \in Buffer
        BY <1>0, ActivityFields
      <3> QED BY <1>0, <3>1, <3>2, SilenceReady, PolicyReady
    <2>3. CASE ReceiveResponseReady(c)
      <3>1. buffer.state = "confirmation_prompting" /\ buffer' = MarkConfirmationResponseReady(buffer)
        BY <2>3 DEF ReceiveResponseReady, CanMarkResponseReady
      <3> QED
        BY <1>0, <3>1 DEF MarkConfirmationResponseReady, Ready, InConfirmation, Buffer
    <2>4. CASE ReceiveResponseActivity(c)
      <3>1. /\ buffer.state = "confirming_end"
            /\ \E speech \in BOOLEAN : buffer' = UpdateConfirmationResponseActivity(buffer, speech)
        BY <2>4 DEF ReceiveResponseActivity, CanUpdateResponseActivity
      <3> QED
        BY <1>0, <3>1 DEF UpdateConfirmationResponseActivity, Ready, InConfirmation, Buffer
    <2>5. CASE ReceiveResponse(c) \/ RefuseMessage(c)
      BY <2>5 DEF ReceiveResponse, RefuseMessage
    <2> QED BY <1>2, <2>1, <2>2, <2>3, <2>4, <2>5 DEF Handle
  <1>3. ASSUME NEW c \in Conn, Classified(c) PROVE Ready(buffer')
    <2>1. PICK intent \in Intent, content \in Answer, newRev \in Rev :
            buffer' = ApplyConfirmationIntent(buffer, intent, content, newRev)
      BY <1>3 DEF Classified
    <2>2. MarkUserConfirmedComplete(buffer).state = "complete_candidate"
      BY <1>0 DEF MarkUserConfirmedComplete, Buffer
    <2>3. AppendAnswer(buffer, content, newRev).state = "listening"
      BY <1>0, ClearedFields DEF AppendAnswer, Buffer
    <2>4. ResumeListening(buffer).state = "listening"
      BY <1>0, ClearedFields DEF ResumeListening
    <2>5. buffer'.state \in {"complete_candidate", "listening"}
      BY <2>1, <2>2, <2>3, <2>4 DEF ApplyConfirmationIntent, Intent
    <2> QED BY <2>5 DEF Ready, InConfirmation
  <1>4. CASE JudgeReturns
    <2> DEFINE rev == worker.judging.revision
    <2>1. CASE ~CanRecordDecision(buffer, rev)
      BY <1>4, <2>1 DEF JudgeReturns
    <2>2. CASE CanRecordDecision(buffer, rev)
      <3>1. PICK d \in Judgements :
              LET b == RecordDecision(buffer, rev, d)
              IN  buffer' = b \/ buffer' = ApplyPolicy(b, d)
        BY <1>4, <2>2 DEF JudgeReturns
      <3> DEFINE b == RecordDecision(buffer, rev, d)
      <3>2. d \in Decision /\ rev \in Nat /\ buffer.state = "listening"
        BY <1>0, <2>2, JudgementsAssumption DEF CanRecordDecision, Buffer
      <3>3. b \in Buffer /\ b.state = "listening" /\ b.decision = d
        BY <1>0, <3>2, RecordFields DEF RecordDecision, Buffer
      <3>4. Ready(b)
        BY <3>3 DEF Ready, InConfirmation
      <3> HIDE DEF b
      <3>5. Ready(ApplyPolicy(b, d))
        BY <3>3, PolicyReady
      <3> USE DEF b
      <3> QED BY <3>1, <3>4, <3>5
    <2> QED BY <2>1, <2>2
  <1>5. CASE ConfirmationDelayFires
    <2> DEFINE id == buffer.confirmationCount + 1
               prompted == BeginConfirmationPrompt(buffer, id)
    <2>1. CASE ~CanBeginPrompt(buffer, timers.delay)
      BY <1>5, <2>1 DEF ConfirmationDelayFires
    <2>2. CASE CanBeginPrompt(buffer, timers.delay)
      <3>1. prompted.text = buffer.text /\ prompted.state = "confirmation_prompting"
        BY <1>0 DEF BeginConfirmationPrompt, Buffer
      <3>2. Ready(prompted)
        BY <2>2, <3>1 DEF CanBeginPrompt, Ready, InConfirmation
      <3>3. prompted \in Buffer
        <4>1. timers.delay \in Nat /\ id \in ConfirmationId
          BY <1>0, <2>2, ConfirmationIdAssumption, MaxConfirmationsAssumption
          DEF CanBeginPrompt, Buffer
        <4>2. Sound(prompted)
          BY <2>2, <4>1, BeginPromptSound
        <4> QED BY <4>2 DEF Sound
      <3>4. Ready(CancelConfirmation(prompted))
        <4> HIDE DEF prompted
        <4> QED BY <3>3, ClearedReady
      <3> QED BY <1>5, <3>2, <3>4 DEF ConfirmationDelayFires
    <2> QED BY <2>1, <2>2
  <1>6. CASE StallFires
    BY <1>6, StallReady
  <1>7. CASE ReadyTimeoutFires
    BY <1>0, <1>7, ClearedReady DEF ReadyTimeoutFires
  <1>8. CASE ResponseTimeoutFires
    <2>1. MarkCutoffComplete(buffer).state = "complete_candidate"
      BY <1>0 DEF MarkCutoffComplete, Buffer
    <2>2. Ready(MarkCutoffComplete(buffer))
      BY <2>1 DEF Ready, InConfirmation
    <2> QED BY <1>8, <2>2 DEF ResponseTimeoutFires
  <1>9. CASE CommitFires
    <2>1. BeginCommit(buffer).state = "committing" /\ Ready(ResumeListening(buffer))
      BY <1>0, ClearedReady DEF BeginCommit, Buffer, ResumeListening
    <2>2. Ready(BeginCommit(buffer))
      BY <2>1 DEF Ready, InConfirmation
    <2> QED BY <1>9, <2>1, <2>2 DEF CommitFires
  <1>10. CASE SubmitReturns
    <2>1. MarkCommitted(buffer).state = "committed" /\ Ready(AbortCommit(buffer))
      BY <1>0, ClearedReady DEF MarkCommitted, Buffer, AbortCommit, ResumeListening
    <2>2. Ready(MarkCommitted(buffer))
      BY <2>1 DEF Ready, InConfirmation
    <2> QED BY <1>10, <2>1, <2>2 DEF SubmitReturns, SubmitSucceeds, SubmitFails
  <1>11. ASSUME NEW c \in Conn, Receive(c) \/ ClassifiedTooLate(c) PROVE Ready(buffer')
    BY <1>11 DEF Receive, ClassifiedTooLate
  <1>12. CASE JudgeTakes \/ Report \/ InterviewMoves \/ EntryReplaced \/ TurnOver \/ UNCHANGED vars
    BY <1>12 DEF JudgeTakes, Report, InterviewMoves, EntryReplaced, TurnOver, vars
  <1> QED
    BY <1>1, <1>2, <1>3, <1>4, <1>5, <1>6, <1>7, <1>8, <1>9, <1>10, <1>11, <1>12
    DEF Next, TimerFires, Classify

---------------------------------------------------------------------------
(* The tasks fit the state. *)

\* A state that is to end by itself has the one task that ends it, every other
\* task is off, and only a listening buffer may be watched for a stall.  The
\* timeout of a reply is off while the reply is spoken or classified.
Armed(b, t, h) ==
    /\ t.delay = IF b.state = "confirmation_pending" THEN b.revision ELSE NoRevision
    /\ t.ready = IF b.state = "confirmation_prompting" THEN b.confirmationId
                 ELSE NoConfirmation
    /\ t.response = IF /\ b.state = "confirming_end" /\ ~b.responseSpeechActive
                       /\ h # Classifying(b.confirmationId)
                    THEN b.confirmationId ELSE NoConfirmation
    /\ t.commit = IF b.state = "complete_candidate" THEN b.revision ELSE NoRevision
    /\ t.stall \in (IF b.state = "listening" THEN {NoRevision, b.revision}
                    ELSE {NoRevision})

\* Nothing is armed, but for the stall watch of revision rev.
Calm(t, rev) ==
    /\ t \in Timers
    /\ t.delay = NoRevision /\ t.ready = NoConfirmation /\ t.response = NoConfirmation
    /\ t.commit = NoRevision /\ t.stall \in {NoRevision, rev}

\* A connection is being served or waits for its submission.
Live(c) == link[c] \in {"open", "closing"}

\* Connections do not overlap.
Solo == \A c, d \in Conn : Live(c) /\ Live(d) => c = d

\* What has to hold of the tasks.
TasksFit == Attended => Armed(buffer, timers, handler[owner])

\* A listening buffer needs no task, and the stall watch may be started.
LEMMA ListeningArmed ==
  ASSUME NEW b \in Buffer, b.state = "listening", NEW t, Calm(t, b.revision), NEW h
  PROVE  Armed(b, t, h) /\ Armed(b, MaybeScheduleStall(t, b), h)
  BY DEF Armed, Calm, MaybeScheduleStall, Timers

\* What the policy made of the buffer gets its task.
LEMMA DispatchArmed ==
  ASSUME NEW b \in Buffer, NEW t, Calm(t, b.revision), NEW h,
         b.state \in {"listening", "complete_candidate", "confirmation_pending"}
  PROVE  Armed(b, Dispatch(t, b), h)
  <1>1. CASE b.state = "listening"
    BY <1>1, ListeningArmed DEF Dispatch
  <1>2. CASE b.state = "complete_candidate"
    BY <1>2 DEF Dispatch, ScheduleCommit, CancelConfirmationTimers, Armed, Calm, Timers
  <1>3. CASE b.state = "confirmation_pending"
    BY <1>3 DEF Dispatch, ScheduleConfirmation, Armed, Calm, Timers
  <1> QED BY <1>1, <1>2, <1>3

\* The policy offers the answer, prepares a confirmation or leaves listening.
LEMMA PolicyStates ==
  ASSUME NEW b \in Buffer, b.state = "listening", NEW d
  PROVE  ApplyPolicy(b, d).state \in {"listening", "complete_candidate", "confirmation_pending"}
  BY DEF ApplyPolicy, MarkCompleteCandidate, MarkConfirmationPending, Buffer

\* A listening buffer with a fitting task has none but the stall watch.
LEMMA ListeningCalm ==
  ASSUME NEW b \in Buffer, b.state = "listening", NEW t \in Timers, NEW h, Armed(b, t, h)
  PROVE  Calm(t, b.revision)
  BY DEF Armed, Calm

\* An interruption cancels every task.
LEMMA InterruptedCalm ==
  ASSUME buffer \in Buffer, ~Submitted(buffer), timers \in Timers, NEW h,
         Armed(buffer, timers, h), NEW rev
  PROVE  Calm([Interrupted(timers) EXCEPT !.stall = NoRevision], rev)
  <1> DEFINE i == IF InConfirmation(buffer) THEN CancelConfirmationTimers(timers) ELSE timers
             j == Interrupted(timers)
             t == [j EXCEPT !.stall = NoRevision]
  <1>1. i \in Timers /\ i.delay = NoRevision /\ i.ready = NoConfirmation /\ i.response = NoConfirmation
    BY DEF InConfirmation, CancelConfirmationTimers, Armed, Timers, Revisions
  <1>2. i.commit = timers.commit
    BY DEF CancelConfirmationTimers, Timers
  <1>3. /\ j \in Timers /\ j.delay = i.delay /\ j.ready = i.ready /\ j.response = i.response
        /\ j.commit = NoRevision
    <2>1. j = [i EXCEPT !.commit = IF buffer.state = "complete_candidate" THEN NoRevision
                                   ELSE @]
      BY DEF Interrupted
    <2> HIDE DEF i, j
    <2> QED BY <1>1, <1>2, <2>1 DEF Armed, Timers, Revisions
  <1>4. t \in Timers /\ t.delay = j.delay /\ t.ready = j.ready /\ t.response = j.response
        /\ t.commit = j.commit /\ t.stall = NoRevision
    <2> HIDE DEF j
    <2> QED BY <1>3 DEF Timers, Revisions
  <1> HIDE DEF i, j, t
  <1>5. Calm(t, rev)
    BY <1>1, <1>3, <1>4 DEF Calm
  <1> QED BY <1>5 DEF t, j

---------------------------------------------------------------------------
(* Each step of the served connection keeps its tasks fitting. *)

\* A connection that handles a message is the one attended to, if any is.
LEMMA HandlerIsOwner ==
  ASSUME TypeOK, Solo, Attended, NEW c \in Conn, link[c] = "open"
  PROVE  c = owner /\ Serving(c)
  BY DEF TypeOK, Solo, Live, Attended, Serving

\* A transcript starts over.
LEMMA TranscriptFits ==
  ASSUME TypeOK, Sound(buffer), Sound(buffer'), Attended, Serving(owner),
         Armed(buffer, timers, handler[owner]), ReceiveTranscript(owner), NEW h
  PROVE  Armed(buffer', timers', h)
  <1>0. buffer \in Buffer /\ buffer' \in Buffer /\ timers \in Timers
    BY DEF TypeOK, Sound
  <1>1. PICK rev \in Rev, text \in Answer, speech \in BOOLEAN, final \in BOOLEAN :
          IF acceptEqual[owner] /\ rev = buffer.revision
          THEN /\ CanSynchronize(buffer, rev, text)
               /\ TranscriptTaken(owner, SynchronizeReconnectSnapshot(buffer, speech, final), FALSE)
          ELSE /\ CanUpdateTranscript(buffer, rev)
               /\ LET carried == EquivalentCandidate(text, speech, final)
                      b == UpdateTranscript(buffer, rev, text, speech, final)
                  IN  TranscriptTaken(owner, IF carried
                                             THEN ApplyPolicy(RecordDecision(b, rev, buffer.decision),
                                                              buffer.decision)
                                             ELSE b, carried)
    BY DEF ReceiveTranscript
  <1>2. rev \in Nat
    BY MaxRevisionAssumption DEF Rev
  <1> DEFINE b == UpdateTranscript(buffer, rev, text, speech, final)
             again == SynchronizeReconnectSnapshot(buffer, speech, final)
             carried == EquivalentCandidate(text, speech, final)
             r == RecordDecision(b, rev, buffer.decision)
             t == [Interrupted(timers) EXCEPT !.stall = NoRevision]
  <1>3. ~Submitted(buffer)
    BY <1>1 DEF CanSynchronize, CanUpdateTranscript
  <1>4. Calm(t, buffer'.revision)
    BY <1>0, <1>3, InterruptedCalm
  <1>5. ASSUME NEW n, TranscriptTaken(owner, n, FALSE), n.state = "listening"
        PROVE  Armed(buffer', timers', h)
    <2>1. buffer' = n /\ timers' \in {t, MaybeScheduleStall(t, n)}
      BY <1>5 DEF TranscriptTaken, SetTimers, TimersAfterTranscript
    <2> HIDE DEF t
    <2> QED BY <1>0, <1>4, <1>5, <2>1, ListeningArmed
  <1>6. ASSUME NEW n, TranscriptTaken(owner, n, TRUE),
               n.state \in {"listening", "complete_candidate", "confirmation_pending"}
        PROVE  Armed(buffer', timers', h)
    <2>1. buffer' = n /\ timers' = Dispatch(t, n)
      BY <1>6 DEF TranscriptTaken, SetTimers, TimersAfterTranscript
    <2> HIDE DEF t
    <2> QED BY <1>0, <1>4, <1>6, <2>1, DispatchArmed
  <1>7. again.state = "listening" /\ b.state = "listening" /\ b \in Buffer
    BY <1>0, <1>2, ClearedFields DEF SynchronizeReconnectSnapshot, UpdateTranscript, Buffer
  <1>8. CASE acceptEqual[owner] /\ rev = buffer.revision
    BY <1>1, <1>5, <1>7, <1>8
  <1>9. CASE ~(acceptEqual[owner] /\ rev = buffer.revision) /\ ~carried
    <2>1. TranscriptTaken(owner, b, FALSE)
      BY <1>1, <1>9 DEF EquivalentCandidate
    <2> HIDE DEF b
    <2> QED BY <1>5, <1>7, <2>1
  <1>10. CASE ~(acceptEqual[owner] /\ rev = buffer.revision) /\ carried
    <2>1. buffer.decision \in Decision
      BY <1>0, <1>10 DEF EquivalentCandidate, Buffer, NoDecision
    <2>2. r \in Buffer /\ r.state = "listening"
      BY <1>2, <1>7, <2>1, RecordFields
    <2>3. ApplyPolicy(r, buffer.decision).state
             \in {"listening", "complete_candidate", "confirmation_pending"}
      <3> HIDE DEF r
      <3> QED BY <2>2, PolicyStates
    <2>4. TranscriptTaken(owner, ApplyPolicy(r, buffer.decision), TRUE)
      BY <1>1, <1>10 DEF EquivalentCandidate
    <2> HIDE DEF r
    <2> QED BY <1>6, <2>3, <2>4
  <1> QED BY <1>8, <1>9, <1>10

\* What matters of the buffer to the tasks.
LEMMA ArmedAgain ==
  ASSUME NEW b, NEW n, NEW t, NEW h, NEW m, Armed(b, t, h),
         n.state = b.state, n.revision = b.revision, n.confirmationId = b.confirmationId,
         n.responseSpeechActive = b.responseSpeechActive,
         (h = Classifying(b.confirmationId)) <=> (m = Classifying(b.confirmationId))
  PROVE  Armed(n, t, m)
  BY DEF Armed

\* A handler that waits or has nothing to do does not classify.
LEMMA NotClassifying ==
  ASSUME NEW h, h.pc \in {"idle", "fetching"}, NEW id
  PROVE  h # Classifying(id)
  BY DEF Classifying

\* Speech and silence.
LEMMA ActivityFits ==
  ASSUME TypeOK, Sound(buffer), Sound(buffer'), Attended, Serving(owner),
         Armed(buffer, timers, handler[owner]), ReceiveActivity(owner)
  PROVE  Armed(buffer', timers', Idle)
  <1>0. buffer \in Buffer /\ buffer' \in Buffer /\ timers \in Timers
    BY DEF TypeOK, Sound
  <1>1. PICK rev \in Rev, speech \in BOOLEAN :
          /\ CanUpdateActivity(buffer, rev)
          /\ LET b == UpdateSpeechActivity(buffer, speech)
                 held == /\ buffer.speechActive /\ ~speech
                         /\ b.state = "listening" /\ b.segmentFinal
                         /\ b.decisionRevision = rev
                         /\ b.decision.action \in {"auto_submit", "ask_confirmation"}
             IN  /\ buffer' = IF held THEN ApplyPolicy(b, b.decision) ELSE b
                 /\ SetTimers(owner,
                       CASE speech -> [Interrupted(timers) EXCEPT !.stall = NoRevision]
                         [] held -> Dispatch(timers, buffer')
                         [] OTHER -> MaybeScheduleStall(timers, b))
    BY DEF ReceiveActivity
  <1> DEFINE b == UpdateSpeechActivity(buffer, speech)
             held == /\ buffer.speechActive /\ ~speech
                     /\ b.state = "listening" /\ b.segmentFinal
                     /\ b.decisionRevision = rev
                     /\ b.decision.action \in {"auto_submit", "ask_confirmation"}
             t == [Interrupted(timers) EXCEPT !.stall = NoRevision]
  <1>2. ~Submitted(buffer)
    BY <1>1 DEF CanUpdateActivity
  <1>3. /\ b \in Buffer /\ b.revision = buffer.revision
        /\ b.state = IF speech THEN "listening" ELSE buffer.state
    BY <1>0, ActivityFields DEF Same
  <1>4. CASE speech
    <2>1. buffer' = b /\ timers' = t
      BY <1>1, <1>4 DEF SetTimers
    <2>2. Calm(t, b.revision)
      BY <1>0, <1>2, InterruptedCalm
    <2> HIDE DEF b, t
    <2> QED BY <1>3, <1>4, <2>1, <2>2, ListeningArmed
  <1>5. CASE held
    <2>1. buffer' = ApplyPolicy(b, b.decision) /\ timers' = Dispatch(timers, buffer')
      BY <1>1, <1>5 DEF SetTimers
    <2>2. b.state = "listening" /\ buffer.state = "listening"
      BY <1>3, <1>5
    <2>3. Calm(timers, buffer.revision)
      BY <1>0, <2>2, ListeningCalm
    <2> HIDE DEF b
    <2>4. /\ buffer'.state \in {"listening", "complete_candidate", "confirmation_pending"}
          /\ buffer'.revision = buffer.revision
      BY <1>3, <2>1, <2>2, PolicyStates, PolicyFields DEF Same
    <2> QED BY <1>0, <2>1, <2>3, <2>4, DispatchArmed
  <1>6. CASE ~speech /\ ~held
    <2>1. buffer' = b /\ timers' = MaybeScheduleStall(timers, b)
      BY <1>1, <1>6 DEF SetTimers
    <2>2. CASE buffer.state = "listening"
      <3>1. Calm(timers, b.revision)
        BY <1>0, <1>3, <2>2, ListeningCalm
      <3> HIDE DEF b
      <3> QED BY <1>3, <1>6, <2>1, <2>2, <3>1, ListeningArmed
    <2>3. CASE buffer.state # "listening"
      <3>1. timers' = timers
        BY <1>3, <1>6, <2>1, <2>3 DEF MaybeScheduleStall
      <3>2. /\ b.confirmationId = buffer.confirmationId
            /\ b.responseSpeechActive = buffer.responseSpeechActive
        BY <1>0, <1>6 DEF UpdateSpeechActivity, Buffer
      <3>3. handler[owner].pc = "fetching" /\ Idle.pc = "idle"
        BY DEF ReceiveActivity, Handling, Idle
      <3>4. /\ handler[owner] # Classifying(buffer.confirmationId)
            /\ Idle # Classifying(buffer.confirmationId)
        BY <3>3, NotClassifying
      <3> HIDE DEF b
      <3> QED BY <1>3, <1>6, <2>1, <3>1, <3>2, <3>4, ArmedAgain
    <2> QED BY <2>2, <2>3
  <1> QED BY <1>4, <1>5, <1>6

\* The confirmation was read out: the timeout of the reply starts.
LEMMA ResponseReadyFits ==
  ASSUME TypeOK, Serving(owner), NEW h, Armed(buffer, timers, h), ReceiveResponseReady(owner)
  PROVE  Armed(buffer', timers', Idle)
  <1>1. PICK rev \in Rev, id \in ConfirmationId :
          /\ CanMarkResponseReady(buffer, id, rev)
          /\ buffer' = MarkConfirmationResponseReady(buffer)
          /\ SetTimers(owner, [timers EXCEPT !.ready = NoConfirmation, !.response = id])
    BY DEF ReceiveResponseReady
  <1>2. buffer.state = "confirmation_prompting" /\ id = buffer.confirmationId
    BY <1>1 DEF CanMarkResponseReady, TargetsConfirmation
  <1>3. /\ buffer'.state = "confirming_end" /\ ~buffer'.responseSpeechActive
        /\ buffer'.revision = buffer.revision /\ buffer'.confirmationId = id
    BY <1>1, <1>2 DEF MarkConfirmationResponseReady, TypeOK, Buffer
  <1>4. Idle # Classifying(id)
    BY NotClassifying DEF Idle
  <1>5. timers' = [timers EXCEPT !.ready = NoConfirmation, !.response = id]
    BY <1>1 DEF SetTimers
  <1>6. /\ timers'.delay = timers.delay /\ timers'.ready = NoConfirmation
        /\ timers'.response = id /\ timers'.commit = timers.commit
        /\ timers'.stall = timers.stall
    BY <1>5 DEF TypeOK, Timers
  <1> QED BY <1>2, <1>3, <1>4, <1>6 DEF Armed

\* The timeout of the reply stops while the reply is spoken.
LEMMA ResponseActivityFits ==
  ASSUME TypeOK, Serving(owner), Armed(buffer, timers, handler[owner]),
         ReceiveResponseActivity(owner)
  PROVE  Armed(buffer', timers', Idle)
  <1>1. PICK rev \in Rev, id \in ConfirmationId, speech \in BOOLEAN :
          /\ CanUpdateResponseActivity(buffer, id, rev, speech)
          /\ buffer' = UpdateConfirmationResponseActivity(buffer, speech)
          /\ SetTimers(owner, [timers EXCEPT !.response = IF speech THEN NoConfirmation ELSE id])
    BY DEF ReceiveResponseActivity
  <1>2. buffer.state = "confirming_end" /\ id = buffer.confirmationId
    BY <1>1 DEF CanUpdateResponseActivity, TargetsConfirmation
  <1>3. /\ buffer'.state = "confirming_end" /\ buffer'.responseSpeechActive = speech
        /\ buffer'.revision = buffer.revision /\ buffer'.confirmationId = id
    BY <1>1, <1>2 DEF UpdateConfirmationResponseActivity, TypeOK, Buffer
  <1>4. Idle # Classifying(id)
    BY NotClassifying DEF Idle
  <1>5. timers' = [timers EXCEPT !.response = IF speech THEN NoConfirmation ELSE id]
    BY <1>1 DEF SetTimers
  <1>6. /\ timers'.delay = timers.delay /\ timers'.ready = timers.ready
        /\ timers'.response = (IF speech THEN NoConfirmation ELSE id)
        /\ timers'.commit = timers.commit /\ timers'.stall = timers.stall
    BY <1>5 DEF TypeOK, Timers
  <1> QED BY <1>2, <1>3, <1>4, <1>6 DEF Armed

\* It also stops while the reply is classified.
LEMMA ResponseFits ==
  ASSUME TypeOK, Serving(owner), Armed(buffer, timers, handler[owner]), ReceiveResponse(owner),
         owner \in Conn
  PROVE  Armed(buffer', timers', handler'[owner])
  <1>1. PICK rev \in Rev, id \in ConfirmationId :
          /\ buffer.state = "confirming_end" /\ TargetsConfirmation(buffer, id, rev)
          /\ SetTimers(owner, [timers EXCEPT !.response = NoConfirmation])
          /\ handler' = [handler EXCEPT ![owner] = Classifying(id)]
    BY DEF ReceiveResponse
  <1>2. handler'[owner] = Classifying(buffer.confirmationId) /\ buffer' = buffer
    BY <1>1 DEF ReceiveResponse, TargetsConfirmation, TypeOK
  <1>3. timers' = [timers EXCEPT !.response = NoConfirmation]
    BY <1>1 DEF SetTimers
  <1>4. /\ timers'.delay = timers.delay /\ timers'.ready = timers.ready
        /\ timers'.response = NoConfirmation
        /\ timers'.commit = timers.commit /\ timers'.stall = timers.stall
    BY <1>3 DEF TypeOK, Timers
  <1> QED BY <1>1, <1>2, <1>4 DEF Armed

\* Messages that are read or refused, and replies classified too late, change
\* nothing the tasks depend on.
LEMMA NothingFits ==
  ASSUME TypeOK, Attended, owner \in Conn, Armed(buffer, timers, handler[owner]),
         Receive(owner) \/ RefuseMessage(owner) \/ ClassifiedTooLate(owner)
  PROVE  Armed(buffer', timers', handler'[owner])
  <1>1. UNCHANGED <<buffer, timers>>
    BY DEF Receive, RefuseMessage, ClassifiedTooLate
  <1>2. /\ handler'[owner] \in {Idle, Fetching}
    BY DEF Receive, RefuseMessage, Handling, ClassifiedTooLate, TypeOK
  <1>3. handler'[owner] # Classifying(buffer.confirmationId)
    <2>1. handler'[owner].pc \in {"idle", "fetching"}
      BY <1>2 DEF Idle, Fetching
    <2> QED BY <2>1, NotClassifying
  <1>4. CASE Receive(owner) \/ RefuseMessage(owner)
    <2>1. handler[owner].pc \in {"idle", "fetching"}
      BY <1>4 DEF Receive, RefuseMessage, Handling, Idle
    <2>2. handler[owner] # Classifying(buffer.confirmationId)
      BY <2>1, NotClassifying
    <2> QED BY <1>1, <1>3, <2>2, ArmedAgain
  <1>5. CASE ClassifiedTooLate(owner)
    <2>1. buffer.state # "confirming_end" \/ buffer.confirmationId # handler[owner].id
      BY <1>5 DEF ClassifiedTooLate, Attended
    <2>2. buffer.state # "confirming_end" \/ handler[owner] # Classifying(buffer.confirmationId)
      BY <2>1 DEF Classifying
    <2> QED BY <1>1, <1>3, <2>2 DEF Armed
  <1> QED BY <1>4, <1>5

\* The reply ends the answer, adds to it or takes the offer back.
LEMMA ClassifiedFits ==
  ASSUME TypeOK, Sound(buffer), Serving(owner), Armed(buffer, timers, handler[owner]),
         Classified(owner), owner \in Conn, NEW h
  PROVE  Armed(buffer', timers', h)
  <1>0. buffer \in Buffer /\ timers \in Timers
    BY DEF TypeOK
  <1>1. PICK intent \in Intent, content \in Answer, newRev \in Rev :
          /\ CanApplyIntent(buffer, handler[owner].id, buffer.revision, intent, content, newRev)
          /\ buffer' = ApplyConfirmationIntent(buffer, intent, content, newRev)
          /\ SetTimers(owner,
                       CASE intent = "finish" -> ScheduleCommit(timers, buffer.revision)
                         [] intent = "answer_content" -> timers
                         [] OTHER -> MaybeScheduleStall(timers, buffer'))
    BY DEF Classified
  <1>2. buffer.state = "confirming_end" /\ handler[owner].id = buffer.confirmationId
    BY <1>1 DEF CanApplyIntent, TargetsConfirmation
  <1>3. handler[owner] = Classifying(buffer.confirmationId)
    <2>1. handler[owner].pc = "classifying"
      BY DEF Classified
    <2>2. handler[owner] \in {Idle, Fetching} \cup {Classifying(id) : id \in ConfirmationId}
      BY DEF TypeOK
    <2> QED BY <1>2, <2>1, <2>2 DEF Idle, Fetching, Classifying
  <1>4. timers.response = NoConfirmation /\ timers.stall = NoRevision
    BY <1>2, <1>3 DEF Armed
  <1>5. \A rev : Calm(timers, rev)
    BY <1>0, <1>2, <1>4 DEF Armed, Calm
  <1>6. CASE intent = "finish"
    <2>1. timers' = ScheduleCommit(timers, buffer.revision)
      BY <1>1, <1>6 DEF SetTimers
    <2>2. buffer' = MarkUserConfirmedComplete(buffer)
      BY <1>1, <1>6 DEF ApplyConfirmationIntent
    <2>3. buffer'.state = "complete_candidate" /\ buffer'.revision = buffer.revision
      BY <1>0, <2>2 DEF MarkUserConfirmedComplete, Buffer
    <2> QED
      BY <1>0, <1>5, <2>1, <2>3
      DEF ScheduleCommit, CancelConfirmationTimers, Armed, Calm, Timers
  <1>7. CASE intent = "answer_content"
    <2>1. timers' = timers
      BY <1>1, <1>7 DEF SetTimers
    <2>2. buffer' = AppendAnswer(buffer, content, newRev)
      BY <1>1, <1>7 DEF ApplyConfirmationIntent
    <2>3. buffer'.state = "listening"
      BY <1>0, <2>2, ClearedFields DEF AppendAnswer, Buffer
    <2> QED BY <1>5, <2>1, <2>3 DEF Calm, Armed
  <1>8. CASE intent \notin {"finish", "answer_content"}
    <2>1. timers' = MaybeScheduleStall(timers, buffer')
      BY <1>1, <1>8 DEF SetTimers
    <2>2. buffer' = ResumeListening(buffer)
      BY <1>1, <1>8 DEF ApplyConfirmationIntent
    <2>3. buffer'.state = "listening" /\ buffer' \in Buffer
      BY <1>0, <2>2, ClearedFields DEF ResumeListening
    <2> QED BY <1>5, <2>1, <2>3, ListeningArmed
  <1> QED BY <1>6, <1>7, <1>8

\* A judgement that comes in is acted on.
LEMMA JudgeFits ==
  ASSUME TypeOK, Sound(buffer), Attended, NEW h, Armed(buffer, timers, h), JudgeReturns
  PROVE  Armed(buffer', timers', h)
  <1> DEFINE rev == worker.judging.revision
  <1>0. buffer \in Buffer /\ timers \in Timers
    BY DEF TypeOK
  <1>1. CASE ~CanRecordDecision(buffer, rev)
    BY <1>1 DEF JudgeReturns
  <1>2. CASE CanRecordDecision(buffer, rev)
    <2>1. PICK d \in Judgements :
            LET b == RecordDecision(buffer, rev, d)
            IN  buffer' = ApplyPolicy(b, d) /\ timers' = Dispatch(timers, buffer')
      BY <1>2 DEF JudgeReturns, Attended
    <2> DEFINE b == RecordDecision(buffer, rev, d)
    <2>2. d \in Decision /\ rev \in Nat /\ buffer.state = "listening" /\ rev = buffer.revision
      BY <1>0, <1>2, JudgementsAssumption DEF CanRecordDecision, Buffer
    <2>3. b \in Buffer /\ b.state = "listening" /\ b.revision = buffer.revision
      BY <1>0, <2>2, RecordFields DEF Same
    <2>4. Calm(timers, buffer.revision)
      BY <1>0, <2>2, ListeningCalm
    <2> HIDE DEF b
    <2>5. /\ buffer'.state \in {"listening", "complete_candidate", "confirmation_pending"}
          /\ buffer'.revision = buffer.revision
      BY <2>1, <2>3, PolicyStates, PolicyFields DEF Same, b
    <2>6. buffer' \in Buffer /\ timers' = Dispatch(timers, buffer')
      <3>1. ApplyPolicy(b, d) \in Buffer
        BY <2>3 DEF ApplyPolicy, MarkCompleteCandidate, MarkConfirmationPending, Buffer, State, Reason
      <3> QED BY <2>1, <3>1 DEF b
    <2> QED BY <2>4, <2>5, <2>6, DispatchArmed
  <1> QED BY <1>1, <1>2

\* The stall watch ends in an offer, a confirmation or a watch that goes on.
LEMMA StallFits ==
  ASSUME TypeOK, Sound(buffer), Sound(buffer'), NEW h, Armed(buffer, timers, h), StallFires
  PROVE  Armed(buffer', timers', h)
  <1> DEFINE rev == timers.stall
             fires == /\ question = "asked"
                      /\ buffer.revision = rev /\ buffer.text # Blank
                      /\ buffer.state = "listening" /\ buffer.segmentFinal
             t == [timers EXCEPT !.stall = NoRevision]
             b == IF buffer.speechActive THEN UpdateSpeechActivity(buffer, FALSE) ELSE buffer
             s == RecordDecision(b, rev, StallDecision)
  <1>0. buffer \in Buffer /\ timers \in Timers /\ buffer' \in Buffer
    BY DEF TypeOK, Sound
  <1>1. /\ t.delay = timers.delay /\ t.ready = timers.ready /\ t.response = timers.response
        /\ t.commit = timers.commit /\ t.stall = NoRevision /\ t \in Timers
    BY <1>0 DEF Timers, Revisions
  <1>2. CASE ~fires
    <2>1. buffer' = buffer /\ timers' = t
      BY <1>2 DEF StallFires
    <2> HIDE DEF t
    <2> QED BY <1>1, <2>1 DEF Armed
  <1>3. CASE fires
    <2>1. buffer.state = "listening" /\ rev \in Nat /\ rev = buffer.revision
      BY <1>0, <1>3 DEF Buffer
    <2>2. Calm(t, buffer.revision)
      <3> HIDE DEF t
      <3> QED BY <1>0, <1>1, <2>1 DEF Armed, Calm
    <2>3. b \in Buffer /\ b.state = "listening" /\ b.revision = buffer.revision
      BY <1>0, <2>1, ActivityFields DEF Same
    <2>4. s \in Buffer /\ s.state = "listening" /\ s.revision = buffer.revision
      <3>1. StallDecision \in Decision
        BY DEF StallDecision, Decision, Action
      <3> HIDE DEF b
      <3> QED BY <2>1, <2>3, <3>1, RecordFields DEF Same
    <2>5. /\ MarkCutoffComplete(b).state = "complete_candidate"
          /\ MarkCutoffComplete(b).revision = buffer.revision
      <3> HIDE DEF b
      <3> QED BY <2>3 DEF MarkCutoffComplete, Buffer
    <2>6. /\ timers' = Dispatch(t, buffer')
          /\ buffer' \in {ApplyPolicy(b, b.decision), ApplyPolicy(s, StallDecision),
                          MarkCutoffComplete(b)}
      BY <1>3 DEF StallFires
    <2> HIDE DEF b, s, t
    <2>7. /\ buffer'.state \in {"listening", "complete_candidate", "confirmation_pending"}
          /\ buffer'.revision = buffer.revision
      BY <2>3, <2>4, <2>5, <2>6, PolicyStates, PolicyFields DEF Same
    <2> QED BY <1>0, <2>2, <2>6, <2>7, DispatchArmed
  <1> QED BY <1>2, <1>3

\* The pause before a confirmation ends in the confirmation, which waits to be
\* read out, or in listening.
LEMMA DelayFits ==
  ASSUME TypeOK, Sound(buffer), Ready(buffer), NEW h, Armed(buffer, timers, h),
         ConfirmationDelayFires
  PROVE  Armed(buffer', timers', h)
  <1> DEFINE t == [timers EXCEPT !.delay = NoRevision]
             id == buffer.confirmationCount + 1
             prompted == BeginConfirmationPrompt(buffer, id)
  <1>0. buffer \in Buffer /\ timers \in Timers
    BY DEF TypeOK
  <1>1. buffer.state = "confirmation_pending" /\ timers.delay = buffer.revision
    BY DEF ConfirmationDelayFires, Armed
  <1>2. CanBeginPrompt(buffer, timers.delay) /\ CanStartConfirmation(buffer, buffer.decision)
    BY <1>1 DEF Ready, CanStartConfirmation, CanBeginPrompt
  <1>3. \/ buffer' = prompted /\ timers' = [t EXCEPT !.ready = id]
        \/ buffer' = CancelConfirmation(prompted) /\ timers' = t
    BY <1>2 DEF ConfirmationDelayFires
  <1>4. /\ t.delay = NoRevision /\ t.ready = timers.ready /\ t.response = timers.response
        /\ t.commit = timers.commit /\ t.stall = timers.stall /\ t \in Timers
    BY <1>0 DEF Timers, Revisions
  <1>5. /\ prompted.state = "confirmation_prompting" /\ prompted.confirmationId = id
        /\ prompted \in Buffer
    <2>1. id \in ConfirmationId
      BY <1>0, <1>2, ConfirmationIdAssumption, MaxConfirmationsAssumption
      DEF CanBeginPrompt, Buffer
    <2>2. timers.delay \in Nat
      BY <1>0, <1>1 DEF Buffer
    <2>3. Sound(prompted)
      BY <1>2, <2>1, <2>2, BeginPromptSound
    <2> QED BY <1>0, <2>3 DEF BeginConfirmationPrompt, Buffer, Sound
  <1> HIDE DEF prompted
  <1>6. CASE buffer' = prompted /\ timers' = [t EXCEPT !.ready = id]
    <2>1. /\ timers'.delay = NoRevision /\ timers'.ready = id
          /\ timers'.response = timers.response
          /\ timers'.commit = timers.commit /\ timers'.stall = timers.stall
      <3> HIDE DEF t, id
      <3> QED BY <1>4, <1>6 DEF Timers
    <2> HIDE DEF id
    <2> QED BY <1>1, <1>5, <1>6, <2>1 DEF Armed
  <1>7. CASE buffer' = CancelConfirmation(prompted) /\ timers' = t
    <2>1. buffer'.state = "listening"
      BY <1>5, <1>7, ClearedFields DEF CancelConfirmation, InConfirmation, ResumeListening
    <2> HIDE DEF t
    <2> QED BY <1>1, <1>4, <1>7, <2>1 DEF Armed
  <1> QED BY <1>3, <1>6, <1>7

\* A confirmation that is never read out or never replied to is over.
LEMMA TimeoutFits ==
  ASSUME TypeOK, Sound(buffer), Ready(buffer), Attended, NEW h, Armed(buffer, timers, h),
         ReadyTimeoutFires \/ ResponseTimeoutFires
  PROVE  Armed(buffer', timers', h)
  <1>0. buffer \in Buffer /\ timers \in Timers /\ question = "asked"
    BY DEF TypeOK, Attended
  <1>1. CASE ReadyTimeoutFires
    <2>1. buffer.state = "confirmation_prompting" /\ buffer.confirmationId = timers.ready
      BY <1>1 DEF ReadyTimeoutFires, Armed
    <2>2. /\ timers' = [timers EXCEPT !.ready = NoConfirmation]
          /\ buffer' = CancelConfirmation(buffer)
      BY <1>0, <1>1, <2>1 DEF ReadyTimeoutFires
    <2>3. buffer'.state = "listening"
      BY <1>0, <2>1, <2>2, ClearedFields DEF CancelConfirmation, InConfirmation, ResumeListening
    <2>4. /\ timers'.delay = timers.delay /\ timers'.ready = NoConfirmation
          /\ timers'.response = timers.response
          /\ timers'.commit = timers.commit /\ timers'.stall = timers.stall
      BY <1>0, <2>2 DEF Timers
    <2> QED BY <2>1, <2>3, <2>4 DEF Armed
  <1>2. CASE ResponseTimeoutFires
    <2> DEFINE t == [timers EXCEPT !.response = NoConfirmation]
    <2>1. /\ buffer.state = "confirming_end" /\ ~buffer.responseSpeechActive
          /\ buffer.confirmationId = timers.response
      BY <1>2 DEF ResponseTimeoutFires, Armed
    <2>2. CanMarkCutoff(buffer, buffer.revision)
      BY <2>1 DEF CanMarkCutoff, Sound, Quiet, Ready, InConfirmation
    <2>3. buffer' = MarkCutoffComplete(buffer) /\ timers' = ScheduleCommit(t, buffer.revision)
      BY <1>0, <1>2, <2>1, <2>2 DEF ResponseTimeoutFires
    <2>4. buffer'.state = "complete_candidate" /\ buffer'.revision = buffer.revision
      BY <1>0, <2>3 DEF MarkCutoffComplete, Buffer
    <2>5. t \in Timers
      BY <1>0 DEF Timers
    <2>6. /\ timers'.delay = NoRevision /\ timers'.ready = NoConfirmation
          /\ timers'.response = NoConfirmation /\ timers'.stall = NoRevision
          /\ timers'.commit = buffer.revision
      <3> HIDE DEF t
      <3> QED BY <2>3, <2>5 DEF ScheduleCommit, CancelConfirmationTimers, Timers
    <2> QED BY <2>4, <2>6 DEF Armed
  <1> QED BY <1>1, <1>2

\* The grace period ends in the submission, which needs no task.
LEMMA CommitFits ==
  ASSUME TypeOK, Sound(buffer), Attended, NEW h, Armed(buffer, timers, h), CommitFires
  PROVE  Armed(buffer', timers', h)
  <1>0. buffer \in Buffer /\ timers \in Timers /\ question = "asked"
    BY DEF TypeOK, Attended
  <1>1. buffer.state = "complete_candidate" /\ buffer.revision = timers.commit
    BY DEF CommitFires, Armed
  <1>2. CanBeginCommit(buffer, timers.commit)
    BY <1>1 DEF CanBeginCommit, Sound, Quiet, Consistent, NonblankOffer
  <1>3. buffer' = BeginCommit(buffer) /\ timers' = [timers EXCEPT !.commit = NoRevision]
    BY <1>0, <1>2 DEF CommitFires
  <1>4. buffer'.state = "committing"
    BY <1>0, <1>3 DEF BeginCommit, Buffer
  <1>5. /\ timers'.delay = timers.delay /\ timers'.ready = timers.ready
        /\ timers'.response = timers.response /\ timers'.commit = NoRevision
        /\ timers'.stall = timers.stall
    BY <1>0, <1>3 DEF Timers
  <1> QED BY <1>1, <1>4, <1>5 DEF Armed

\* A submission that fails returns to listening.
LEMMA SubmitFits ==
  ASSUME TypeOK, SubmitterServes, NEW h, Armed(buffer, timers, h), SubmitFails
  PROVE  Armed(buffer', timers', h)
  <1>0. buffer \in Buffer
    BY DEF TypeOK
  <1>1. buffer.state = "committing" /\ timers' = timers
    BY DEF SubmitFails, SubmitterServes
  <1>2. buffer' = AbortCommit(buffer)
    BY <1>1 DEF SubmitFails, CanEndCommit
  <1>3. buffer'.state = "listening"
    BY <1>0, <1>2, ClearedFields DEF AbortCommit, ResumeListening
  <1> QED BY <1>1, <1>3 DEF Armed

\* A new connection finds nothing in preparation and starts without tasks.
LEMMA ConnectFits ==
  ASSUME TypeOK, NEW c \in Conn, Connect(c), NEW h
  PROVE  Armed(buffer', timers', h)
  <1>0. buffer \in Buffer /\ buffer.state # "committing"
    BY DEF TypeOK, Connect, TurnedAway
  <1>1. CancelConfirmation(buffer).state \in {"listening", "complete_candidate", "committed"}
    BY <1>0, ClearedFields DEF CancelConfirmation, InConfirmation, ResumeListening, Buffer, State
  <1>2. CancelConfirmation(buffer) \in Buffer
    BY <1>0, ClearedFields DEF CancelConfirmation, ResumeListening
  <1>3. Prepared(buffer).state \in {"listening", "committed"}
    BY <1>1, <1>2, ClearedFields DEF Prepared, ResumeListening
  <1> QED BY <1>3 DEF Connect, NoTimers, Armed

\* Only a new connection is attended to that was not before: every other step
\* that leaves a connection attended to is one of that connection, of its tasks
\* or of the REST API, and does not end its turn.
LEMMA AttendedBefore ==
  ASSUME TypeOK, Sound(buffer), Sound(buffer'), SubmitterServes, Solo, [Next]_vars,
         ~\E c \in Conn : Connect(c), Attended'
  PROVE  /\ Attended /\ owner' = owner /\ owner \in Conn
         /\ ~\E c \in Conn : Disconnect(c)
         /\ ~SubmitSucceeds /\ ~EntryReplaced
  <1>0. Placed /\ Linked /\ (Attended => owner \in Conn)
    BY TypeOKParts DEF Placed, Attended
  <1>1. ~SubmitSucceeds /\ ~EntryReplaced
    BY <1>0, WorkerTyped DEF SubmitSucceeds, EntryReplaced, Attended, Serving, Placed
  <1>2. ASSUME NEW c \in Conn, Disconnect(c) PROVE FALSE
    <2>1. CASE commit.by = c /\ commit.phase = "submitting"
      <3>1. owner' = c /\ link' = [link EXCEPT ![c] = "closing"]
        BY <1>2, <2>1 DEF Disconnect, SubmitterServes
      <3> QED BY <1>0, <3>1 DEF Attended, Placed
    <2>2. CASE ~(commit.by = c /\ commit.phase = "submitting")
      <3>1. /\ link' = [link EXCEPT ![c] = "closed"] /\ link[c] = "open"
            /\ owner = c => owner' = NoConn
            /\ owner # c => owner' = owner
        BY <1>2, <2>2 DEF Disconnect, Detached
      <3>2. owner # c /\ owner' = owner /\ owner \in Conn
        BY <1>0, <3>1 DEF Attended, Placed
      <3>3. link[owner] = "open"
        BY <1>0, <3>1, <3>2 DEF Attended, Placed
      <3> QED BY <3>1, <3>2, <3>3 DEF Solo, Live
    <2> QED BY <2>1, <2>2
  <1>3. ASSUME NEW c \in Conn, Receive(c) \/ Handle(c) \/ Classify(c)
        PROVE  /\ UNCHANGED <<owner, link, question, retired>>
               /\ worker'.closed = worker.closed
    <2>1. CASE Receive(c)
      BY <2>1 DEF Receive
    <2>2. CASE Handle(c) \/ Classify(c)
      BY <2>2, HandlePlaces
    <2> QED BY <1>3, <2>1, <2>2
  <1>4. CASE JudgeTakes \/ JudgeReturns \/ TimerFires
    <2>1. /\ UNCHANGED <<owner, link, question, retired>>
          /\ worker'.closed = worker.closed
      BY <1>0, <1>4, WorkerTyped
      DEF JudgeTakes, JudgeReturns, TimerFires, StallFires, ConfirmationDelayFires,
          ReadyTimeoutFires, ResponseTimeoutFires, CommitFires, Placed
    <2> QED BY <1>0, <1>1, <1>2, <2>1 DEF Attended, Serving
  <1>5. CASE SubmitFails
    <2>1. owner = commit.by
      BY <1>5 DEF SubmitFails, SubmitterServes
    <2>2. link[commit.by] # "closing"
      <3>1. link[commit.by] = "closing" => owner' = NoConn
        BY <1>5, <2>1 DEF SubmitFails, Released
      <3> QED BY <3>1 DEF Attended
    <2>3. UNCHANGED <<owner, worker, link, question, retired>>
      BY <1>5, <2>2 DEF SubmitFails, Released
    <2> QED BY <1>0, <1>1, <1>2, <2>3 DEF Attended, Serving
  <1>6. CASE Report
    BY <1>0, <1>1, <1>2, <1>6 DEF Report, Attended, Serving
  <1>7. CASE InterviewMoves
    BY <1>7 DEF InterviewMoves, Attended
  <1>8. CASE TurnOver \/ UNCHANGED vars
    BY <1>0, <1>1, <1>2, <1>8 DEF TurnOver, vars, Attended, Serving
  <1>9. ASSUME NEW c \in Conn, Receive(c) \/ Handle(c) \/ Classify(c)
        PROVE  Attended /\ owner' = owner
    BY <1>3, <1>9 DEF Attended, Serving
  <1> QED BY <1>0, <1>1, <1>2, <1>4, <1>5, <1>6, <1>7, <1>8, <1>9 DEF Next, SubmitReturns

\* Every step keeps the tasks fitting.
LEMMA NextFits ==
  ASSUME TypeOK, Sound(buffer), Sound(buffer'), Ready(buffer), SubmitterServes, Solo,
         TasksFit, [Next]_vars
  PROVE  TasksFit'
  <1> SUFFICES ASSUME Attended'
               PROVE  Armed(buffer', timers', handler'[owner'])
    BY DEF TasksFit
  <1>1. CASE \E c \in Conn : Connect(c)
    BY <1>1, ConnectFits
  <1>2. CASE ~\E c \in Conn : Connect(c)
    <2>0. /\ Attended /\ owner' = owner /\ owner \in Conn
          /\ ~\E c \in Conn : Disconnect(c)
          /\ ~SubmitSucceeds /\ ~EntryReplaced
      BY <1>2, AttendedBefore
    <2>1. Armed(buffer, timers, handler[owner]) /\ Serving(owner)
      BY <2>0 DEF TasksFit, Attended
    <2>2. ASSUME NEW c \in Conn, Receive(c) \/ Handle(c) \/ Classify(c)
          PROVE  Armed(buffer', timers', handler'[owner])
      <3>1. c = owner
        <4>1. link[c] = "open"
          <5>1. handler[c] # Idle \/ Receive(c)
            BY <2>2, HandlePlaces
          <5> QED BY <5>1 DEF Receive, TypeOK
        <4> QED BY <2>0, <4>1, HandlerIsOwner
      <3>2. CASE Receive(owner) \/ RefuseMessage(owner) \/ ClassifiedTooLate(owner)
        BY <2>0, <2>1, <3>2, NothingFits
      <3>3. CASE ReceiveResponse(owner)
        BY <2>0, <2>1, <3>3, ResponseFits
      <3>4. CASE \/ ReceiveTranscript(owner) \/ ReceiveActivity(owner)
                 \/ ReceiveResponseReady(owner) \/ ReceiveResponseActivity(owner)
                 \/ Classified(owner)
        <4>1. Armed(buffer', timers', Idle)
          BY <2>0, <2>1, <3>4, TranscriptFits, ActivityFits, ResponseReadyFits,
             ResponseActivityFits, ClassifiedFits
        <4>2. handler'[owner] = Idle
          BY <2>0, <3>4
          DEF TypeOK, ReceiveTranscript, ReceiveActivity, ReceiveResponseReady,
              ReceiveResponseActivity, Classified, Handling
        <4> QED BY <4>1, <4>2
      <3> QED BY <2>2, <3>1, <3>2, <3>3, <3>4 DEF Handle, Classify
    <2>3. CASE TimerFires
      <3>1. Armed(buffer', timers', handler[owner])
        BY <2>0, <2>1, <2>3, StallFits, DelayFits, TimeoutFits, CommitFits DEF TimerFires
      <3>2. handler' = handler
        BY <2>3
        DEF TimerFires, StallFires, ConfirmationDelayFires, ReadyTimeoutFires,
            ResponseTimeoutFires, CommitFires
      <3> QED BY <2>0, <3>1, <3>2
    <2>4. CASE JudgeReturns
      BY <2>0, <2>1, <2>4, JudgeFits DEF JudgeReturns
    <2>5. CASE SubmitFails
      BY <2>0, <2>1, <2>5, SubmitFits DEF SubmitFails
    <2>6. CASE JudgeTakes \/ Report \/ InterviewMoves \/ TurnOver \/ UNCHANGED vars
      BY <2>1, <2>6 DEF JudgeTakes, Report, InterviewMoves, TurnOver, vars
    <2> QED
      BY <1>2, <2>0, <2>2, <2>3, <2>4, <2>5, <2>6 DEF Next, SubmitReturns
  <1> QED BY <1>1, <1>2

\* Connections that do not overlap when they open never do.
LEMMA NextSolo ==
  ASSUME ~Overlap, TypeOK, Sound(buffer), Sound(buffer'), SubmitterServes, Solo, [Next]_vars
  PROVE  Solo'
  <1>0. /\ link \in [Conn -> {"new", "open", "closing", "closed"}]
        /\ Placed /\ Linked
    BY TypeOKParts DEF Placed
  <1>1. ASSUME \A c \in Conn : Live(c)' => Live(c)
        PROVE  Solo'
    BY <1>1 DEF Solo
  <1>2. ASSUME NEW c \in Conn, Connect(c)
        PROVE  Solo'
    <2>1. \A d \in Conn : ~Live(d)
      BY <1>2 DEF Connect, Live
    <2>2. \A d \in Conn : Live(d)' => d = c
      BY <1>0, <1>2, <2>1 DEF Connect, Live
    <2> QED BY <2>2 DEF Solo
  <1>3. ASSUME NEW c \in Conn, Disconnect(c)
        PROVE  Solo'
    <2>1. /\ link[c] = "open"
          /\ link' \in {[link EXCEPT ![c] = "closing"], [link EXCEPT ![c] = "closed"]}
      BY <1>3 DEF Disconnect
    <2>2. \A d \in Conn : Live(d)' => Live(d)
      BY <1>0, <2>1 DEF Live
    <2> QED BY <1>1, <2>2
  <1>4. CASE SubmitReturns
    <2>1. link' = link \/ link' = [link EXCEPT ![commit.by] = "closed"]
      BY <1>4 DEF SubmitReturns, SubmitSucceeds, SubmitFails, Released
    <2>2. \A d \in Conn : Live(d)' => Live(d)
      BY <1>0, <2>1 DEF Live
    <2> QED BY <1>1, <2>2
  <1>5. ASSUME UNCHANGED link
        PROVE  Solo'
    BY <1>5 DEF Solo, Live
  <1>6. ASSUME NEW c \in Conn, Receive(c) \/ Handle(c) \/ Classify(c)
        PROVE  UNCHANGED link
    BY <1>6, HandlePlaces DEF Receive
  <1>7. CASE \/ JudgeTakes \/ JudgeReturns \/ TimerFires \/ Report \/ InterviewMoves
             \/ EntryReplaced \/ TurnOver \/ UNCHANGED vars
    <2>1. UNCHANGED link
      BY <1>7
      DEF JudgeTakes, JudgeReturns, TimerFires, StallFires, ConfirmationDelayFires,
          ReadyTimeoutFires, ResponseTimeoutFires, CommitFires, Report, InterviewMoves,
          EntryReplaced, TurnOver, vars
    <2> QED BY <1>5, <2>1
  <1> QED BY <1>2, <1>3, <1>4, <1>5, <1>6, <1>7 DEF Next

\* The tasks that fit are no fewer than the states need and no more than they
\* can use.
LEMMA FittingTasks ==
  ASSUME TypeOK, SubmitterServes, TasksFit
  PROVE  NoOrphanState /\ NoStrayTask
  <1> SUFFICES ASSUME Attended
               PROVE  /\ NoOrphanState
                      /\ NoStrayTask
    BY DEF NoOrphanState, NoStrayTask
  <1>1. Armed(buffer, timers, handler[owner])
    BY DEF TasksFit
  <1>2. NoOrphanState
    BY <1>1 DEF NoOrphanState, Armed, SubmitterServes
  <1>3. NoStrayTask
    BY <1>1 DEF NoStrayTask, Armed
  <1> QED BY <1>2, <1>3

\* If connections do not overlap, every behaviour keeps the tasks fitting.
THEOREM TasksFitHolds == ~Overlap => (Spec => []TasksFit)
  <1> SUFFICES ASSUME ~Overlap
               PROVE  Spec => []TasksFit
    OBVIOUS
  <1> DEFINE Fit == Ready(buffer) /\ Solo /\ TasksFit
  <1>1. Init => Fit
    <2> SUFFICES ASSUME Init PROVE Fit
      OBVIOUS
    <2>1. Ready(buffer)
      BY DEF Init, EmptyBuffer, Ready, InConfirmation
    <2>2. Solo
      BY DEF Init, Solo, Live
    <2>3. TasksFit
      BY DEF Init, TasksFit, Attended
    <2> QED BY <2>1, <2>2, <2>3
  <1>2. Fit /\ TypeOK /\ BufferSound /\ BufferSound' /\ SubmitterServes /\ [Next]_vars => Fit'
    <2> SUFFICES ASSUME Ready(buffer), Solo, TasksFit, TypeOK, BufferSound, BufferSound',
                        SubmitterServes, [Next]_vars
                 PROVE  Ready(buffer)' /\ Solo' /\ TasksFit'
      OBVIOUS
    <2> QED BY NextReady, NextSolo, NextFits DEF BufferSound
  <1>3. Fit => TasksFit
    OBVIOUS
  <1> HIDE DEF Fit
  <1> QED
    BY <1>1, <1>2, <1>3, TypeCorrect, BufferSoundHolds, SubmitterServesHolds, PTL DEF Spec

\* If connections do not overlap, the buffer of a connection that is attended to
\* is never in a state only a task could end without having that task.
THEOREM NoOrphanStateHolds == ~Overlap => (Spec => []NoOrphanState)
  <1>1. TypeOK /\ SubmitterServes /\ TasksFit => NoOrphanState
    BY FittingTasks
  <1> QED BY <1>1, TasksFitHolds, TypeCorrect, SubmitterServesHolds, PTL

\* If connections do not overlap, no task that is armed is left over from an
\* earlier stage of the answer.
THEOREM NoStrayTaskHolds == ~Overlap => (Spec => []NoStrayTask)
  <1>1. TypeOK /\ SubmitterServes /\ TasksFit => NoStrayTask
    BY FittingTasks
  <1> QED BY <1>1, TasksFitHolds, TypeCorrect, SubmitterServesHolds, PTL
=============================================================================

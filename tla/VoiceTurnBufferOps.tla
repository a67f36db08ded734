------------------------ MODULE VoiceTurnBufferOps ------------------------
(***************************************************************************)
(* The operations of one VoiceTurnBuffer (turn_completion/buffer.py), the  *)
(* record of the spoken answer to one question before it is submitted.     *)
(*                                                                         *)
(* A method that may refuse (raise or return False) is a pair: CanOp(b, _) *)
(* is the conjunction of its early returns negated, Op(b, _) the buffer it *)
(* leaves.  A refused call leaves the buffer alone.                        *)
(*                                                                         *)
(* An answer is the set of words heard: {} is the blank answer and joining *)
(* two transcripts is union.  Every call about another question raises, so *)
(* the question id is not represented.  answer_duration_seconds and        *)
(* latest_delivery_metrics are carried along and decide nothing.           *)
(***************************************************************************)
EXTENDS Integers

CONSTANTS Word,             \* the words an answer can be made of
          ConfirmationId,   \* ids of confirmation questions (uuid4 in the code)
          NoConfirmation,   \* Python's None for a confirmation id
          MaxConfirmations  \* turn_confirmation_max_per_question

ASSUME MaxConfirmationsAssumption == MaxConfirmations \in Nat \ {0}
ASSUME NoConfirmationAssumption == NoConfirmation \notin ConfirmationId

NoRevision == -1
Revisions == Nat \cup {NoRevision}
Answer == SUBSET Word
Blank == {}

State == {"listening", "complete_candidate", "confirmation_pending",
          "confirmation_prompting", "confirming_end", "committing", "committed"}

NoReason == "none"
Reason == {"semantic_complete", "explicit_finish", "user_confirmed",
           "listening_cutoff"}

\* A judgement. "qualified" stands for the fields the policy tests besides
\* the action: the semantic state, the confidence against its threshold, the
\* reason code and, for a confirmation, closed and question_satisfied.
Action == {"auto_submit", "keep_listening", "ask_confirmation"}
Decision == [action: Action, qualified: BOOLEAN, explicit: BOOLEAN]
NoDecision == [action |-> "none", qualified |-> FALSE, explicit |-> FALSE]

Buffer == [revision: Nat,
           text: Answer,
           speechActive: BOOLEAN,
           segmentFinal: BOOLEAN,
           state: State,
           decision: Decision \cup {NoDecision},
           decisionRevision: Revisions,
           confirmationCount: Nat,
           confirmationId: ConfirmationId \cup {NoConfirmation},
           confirmationRevision: Revisions,
           responseSpeechActive: BOOLEAN,
           reason: Reason \cup {NoReason},
           committedRevision: Revisions]

EmptyBuffer == [revision |-> 0,
                text |-> Blank,
                speechActive |-> FALSE,
                segmentFinal |-> FALSE,
                state |-> "listening",
                decision |-> NoDecision,
                decisionRevision |-> NoRevision,
                confirmationCount |-> 0,
                confirmationId |-> NoConfirmation,
                confirmationRevision |-> NoRevision,
                responseSpeechActive |-> FALSE,
                reason |-> NoReason,
                committedRevision |-> NoRevision]

Submitted(b) == b.state \in {"committing", "committed"}
InConfirmation(b) ==
    b.state \in {"confirmation_pending", "confirmation_prompting", "confirming_end"}

\* The tail every return to listening shares: judgement, confirmation and
\* completion reason are dropped.
Cleared(b) == [b EXCEPT !.decision = NoDecision,
                        !.decisionRevision = NoRevision,
                        !.confirmationId = NoConfirmation,
                        !.confirmationRevision = NoRevision,
                        !.responseSpeechActive = FALSE,
                        !.reason = NoReason,
                        !.state = "listening"]

---------------------------------------------------------------------------
(* Transcripts and speech activity *)

\* A defect for the mutation runs: a transcript is refused only once the
\* answer is committed, not while it is being committed.
CanUpdateTranscriptWhileCommitting(b, rev) ==
    b.state # "committed" /\ rev > b.revision

CanUpdateTranscript(b, rev) == ~Submitted(b) /\ rev > b.revision

UpdateTranscript(b, rev, text, speech, final) ==
    [Cleared(b) EXCEPT !.revision = rev, !.text = text,
                       !.speechActive = speech, !.segmentFinal = final]

CanSynchronize(b, rev, text) ==
    ~Submitted(b) /\ rev = b.revision /\ text = b.text

SynchronizeReconnectSnapshot(b, speech, final) ==
    [Cleared(b) EXCEPT !.speechActive = speech, !.segmentFinal = final]

CanUpdateActivity(b, rev) == ~Submitted(b) /\ rev = b.revision

\* A defect: resumed speech leaves the confirmation's id behind.
UpdateSpeechActivityKeepingConfirmation(b, speech) ==
    IF speech
    THEN [b EXCEPT !.speechActive = TRUE, !.segmentFinal = FALSE,
                   !.state = "listening"]
    ELSE [b EXCEPT !.speechActive = FALSE]

UpdateSpeechActivity(b, speech) ==
    IF speech
    THEN [Cleared(b) EXCEPT !.speechActive = TRUE, !.segmentFinal = FALSE]
    ELSE [b EXCEPT !.speechActive = FALSE]

---------------------------------------------------------------------------
(* Judgements and what they lead to *)

\* A defect: a late judgement is recorded whatever revision it is about.
CanRecordStaleDecision(b, rev) == b.state = "listening" /\ rev <= b.revision

CanRecordDecision(b, rev) == b.state = "listening" /\ rev = b.revision

RecordDecision(b, rev, d) ==
    [b EXCEPT !.decision = d, !.decisionRevision = rev]

\* _validate_actionable_decision
Actionable(b, rev, action) ==
    /\ rev = b.revision
    /\ b.decisionRevision = rev
    /\ b.decision.action = action

CanMarkCandidate(b, rev) ==
    /\ b.state = "listening"
    /\ Actionable(b, rev, "auto_submit")
    /\ ~b.speechActive
    /\ b.text # Blank

MarkCompleteCandidate(b, reason) ==
    [b EXCEPT !.state = "complete_candidate", !.reason = reason]

CanMarkPending(b, rev) ==
    /\ b.state = "listening"
    /\ Actionable(b, rev, "ask_confirmation")
    /\ ~b.speechActive
    /\ b.confirmationCount < MaxConfirmations

MarkConfirmationPending(b) == [b EXCEPT !.state = "confirmation_pending"]

CanMarkCutoff(b, rev) ==
    /\ b.state \in {"listening", "confirming_end"}
    /\ rev = b.revision
    /\ ~b.speechActive
    /\ ~b.responseSpeechActive
    /\ b.text # Blank

MarkCutoffComplete(b) ==
    [b EXCEPT !.confirmationId = NoConfirmation,
              !.confirmationRevision = NoRevision,
              !.responseSpeechActive = FALSE,
              !.reason = "listening_cutoff",
              !.state = "complete_candidate"]

---------------------------------------------------------------------------
(* The end-of-answer confirmation *)

CanBeginPrompt(b, rev) ==
    /\ b.state = "confirmation_pending"
    /\ b.confirmationCount < MaxConfirmations
    /\ rev = b.revision

BeginConfirmationPrompt(b, id) ==
    [b EXCEPT !.confirmationCount = @ + 1,
              !.confirmationId = id,
              !.confirmationRevision = b.revision,
              !.responseSpeechActive = FALSE,
              !.state = "confirmation_prompting"]

\* The three equalities every confirmation call tests.
TargetsConfirmation(b, id, rev) ==
    id = b.confirmationId /\ rev = b.confirmationRevision /\ rev = b.revision

CanMarkResponseReady(b, id, rev) ==
    b.state = "confirmation_prompting" /\ TargetsConfirmation(b, id, rev)

MarkConfirmationResponseReady(b) ==
    [b EXCEPT !.responseSpeechActive = FALSE, !.state = "confirming_end"]

CanUpdateResponseActivity(b, id, rev, speech) ==
    /\ b.state = "confirming_end"
    /\ TargetsConfirmation(b, id, rev)
    /\ b.responseSpeechActive # speech

UpdateConfirmationResponseActivity(b, speech) ==
    [b EXCEPT !.responseSpeechActive = speech]

ResumeListening(b) == Cleared(b)

CanMarkUserConfirmed(b) == b.state = "confirming_end" /\ b.text # Blank

MarkUserConfirmedComplete(b) ==
    [b EXCEPT !.confirmationId = NoConfirmation,
              !.confirmationRevision = NoRevision,
              !.responseSpeechActive = FALSE,
              !.reason = "user_confirmed",
              !.speechActive = FALSE,
              !.state = "complete_candidate"]

AppendAnswer(b, content, rev) ==
    [Cleared(b) EXCEPT !.revision = rev, !.text = b.text \cup content,
                       !.speechActive = FALSE, !.segmentFinal = FALSE]

Intent == {"finish", "continue", "unknown", "answer_content"}

CanApplyIntent(b, id, rev, intent, content, newRev) ==
    /\ b.state = "confirming_end"
    /\ TargetsConfirmation(b, id, rev)
    /\ intent = "finish" => CanMarkUserConfirmed(b)
    /\ intent = "answer_content" => newRev > b.revision /\ content # Blank

ApplyConfirmationIntent(b, intent, content, newRev) ==
    CASE intent = "finish" -> MarkUserConfirmedComplete(b)
      [] intent = "answer_content" -> AppendAnswer(b, content, newRev)
      [] OTHER -> ResumeListening(b)

\* Called by the coordinator in any state; a no-op outside a confirmation.
CancelConfirmation(b) == IF InConfirmation(b) THEN ResumeListening(b) ELSE b

---------------------------------------------------------------------------
(* Submission *)

CanBeginCommit(b, rev) ==
    /\ b.state = "complete_candidate"
    /\ rev = b.revision
    /\ ~b.speechActive
    /\ b.reason # NoReason
    /\ b.text # Blank

BeginCommit(b) == [b EXCEPT !.state = "committing"]

CanEndCommit(b, rev) == b.state = "committing" /\ rev = b.revision

AbortCommit(b) == ResumeListening(b)

MarkCommitted(b) ==
    [b EXCEPT !.speechActive = FALSE,
              !.decision = NoDecision,
              !.decisionRevision = NoRevision,
              !.reason = NoReason,
              !.committedRevision = b.revision,
              !.state = "committed"]

---------------------------------------------------------------------------
(* What the code promises of a buffer *)

\* validate_state_consistency: the model validator of the class.  Pydantic
\* runs it when a buffer is built, not on the assignments the methods make.
Consistent(b) ==
    /\ (b.decision = NoDecision) <=> (b.decisionRevision = NoRevision)
    /\ b.decisionRevision <= b.revision
    /\ b.committedRevision <= b.revision
    /\ (b.confirmationId = NoConfirmation) <=> (b.confirmationRevision = NoRevision)
    /\ IF b.state \in {"confirmation_prompting", "confirming_end"}
       THEN b.confirmationId # NoConfirmation /\ b.confirmationRevision = b.revision
       ELSE b.confirmationId = NoConfirmation
    /\ b.responseSpeechActive => b.state = "confirming_end"
    /\ (b.reason # NoReason) <=> (b.state \in {"complete_candidate", "committing"})
    /\ IF b.state = "committed"
       THEN b.committedRevision = b.revision /\ ~b.speechActive
       ELSE b.committedRevision = NoRevision

Quiet(b) == b.state # "listening" => ~b.speechActive

NonblankOffer(b) ==
    b.state \in {"complete_candidate", "committing", "committed"} => b.text # Blank

JudgementCurrent(b) ==
    /\ b.decision # NoDecision => b.decisionRevision = b.revision
    /\ b.reason \in {"semantic_complete", "explicit_finish"}
           => b.decision.action = "auto_submit"
    /\ InConfirmation(b) => b.decision.action = "ask_confirmation"

\* Everything above at once: what every operation preserves.
Sound(b) ==
    /\ b \in Buffer
    /\ b.confirmationCount <= MaxConfirmations
    /\ Consistent(b)
    /\ Quiet(b)
    /\ NonblankOffer(b)
    /\ JudgementCurrent(b)

\* The states as AnswerSubmission sees them.
Phase(state) ==
    CASE state = "complete_candidate" -> "offered"
      [] state = "committing" -> "submitting"
      [] state = "committed" -> "submitted"
      [] OTHER -> "collecting"
===========================================================================

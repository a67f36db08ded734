----------------------- MODULE MCVoiceTurnCoordinator -----------------------
(* Small instances of VoiceTurnCoordinator. *)
EXTENDS VoiceTurnCoordinator

CONSTANTS w1, w2, c1, c2

MCWord == {w1}
MCConn == {c1, c2}
MCConfirmationId == 1..MaxConfirmations

\* One judgement for each way the policy can go, with one that recommends a
\* submission the policy refuses.
MCJudgements ==
    {[action |-> "auto_submit", qualified |-> TRUE, explicit |-> FALSE],
     [action |-> "auto_submit", qualified |-> FALSE, explicit |-> FALSE],
     [action |-> "ask_confirmation", qualified |-> TRUE, explicit |-> FALSE],
     [action |-> "keep_listening", qualified |-> FALSE, explicit |-> FALSE]}
=============================================================================

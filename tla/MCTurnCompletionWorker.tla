----------------------- MODULE MCTurnCompletionWorker -----------------------
(* A small instance of TurnCompletionWorker. *)
EXTENDS TurnCompletionWorker

CONSTANTS w1, w2

MCWord == {w1, w2}
MCConfirmationId == {1}
=============================================================================

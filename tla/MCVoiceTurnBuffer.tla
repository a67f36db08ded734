------------------------- MODULE MCVoiceTurnBuffer -------------------------
(* A small instance of VoiceTurnBuffer: two words, four revisions, two     *)
(* confirmation questions allowed.                                         *)
EXTENDS VoiceTurnBuffer

CONSTANTS w1, w2, c1, c2, none

MCWord == {w1, w2}
MCConfirmationId == {c1, c2}
=============================================================================

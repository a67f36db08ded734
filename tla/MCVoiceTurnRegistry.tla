-------------------------- MODULE MCVoiceTurnRegistry --------------------------
(* Two questions, two connections, one request at a time. *)
EXTENDS VoiceTurnRegistry
=============================================================================

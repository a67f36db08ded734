-------------------------- MODULE MCInterviewSession --------------------------
(***************************************************************************)
(* Instances of InterviewSession for TLC.                                  *)
(***************************************************************************)
EXTENDS InterviewSession
=============================================================================

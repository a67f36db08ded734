-------------------------- MODULE MCInterviewRecords --------------------------
(* Two or three interviews of a user and the calls served at a time. *)
EXTENDS InterviewRecords, TLC

CONSTANTS c1, c2, c3
MCCalls == {c1, c2, c3}
MCTwo == {c1, c2}
CallSymmetry == Permutations(Call)
=============================================================================

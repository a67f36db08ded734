--------------------------- MODULE InterviewOutline ---------------------------
(***************************************************************************)
(* What an interview promises: question sets one after the other, a        *)
(* limited number of follow-ups in each, each set scored before the next   *)
(* one opens, and an end after which nothing changes.  The candidate or a  *)
(* timeout may end it before all sets are scored; it ends by itself only   *)
(* when they are.                                                          *)
(***************************************************************************)
EXTENDS Naturals

CONSTANTS Sets,       \* how many question sets an interview has
          FollowUps   \* how many follow-ups a set may have

VARIABLES set,        \* the sets opened so far
          followUp,   \* the follow-ups asked in the open set
          scored,     \* the sets scored so far
          over

vars == <<set, followUp, scored, over>>

Init == set = 0 /\ followUp = 0 /\ scored = 0 /\ over = FALSE

OpenSet ==
    /\ ~over /\ scored = set /\ set < Sets
    /\ set' = set + 1
    /\ UNCHANGED <<followUp, scored, over>>

AskFollowUp ==
    /\ ~over /\ scored < set /\ followUp < FollowUps
    /\ followUp' = followUp + 1
    /\ UNCHANGED <<set, scored, over>>

ScoreSet ==
    /\ ~over /\ scored < set
    /\ scored' = set /\ followUp' = 0
    /\ UNCHANGED <<set, over>>

\* All sets are scored, or the open one is given up.
End ==
    /\ ~over /\ (scored = Sets \/ scored < set)
    /\ over' = TRUE
    /\ UNCHANGED <<set, followUp, scored>>

Next == OpenSet \/ AskFollowUp \/ ScoreSet \/ End

Spec == Init /\ [][Next]_vars
=============================================================================

-------------------------- MODULE AnswerSubmission --------------------------
(***************************************************************************)
(* What a spoken answer promises the interview, seen from outside: while   *)
(* it is being collected it may be revised, a finished one is offered, an  *)
(* offered one may be withdrawn or handed over, and from the hand-over on  *)
(* it is the answer the interview gets or gives back, never another.       *)
(***************************************************************************)
EXTENDS Naturals

CONSTANTS Answer,   \* what can be said
          Blank     \* the answer with nothing in it

VARIABLES phase,      \* collecting, offered, submitting or submitted
          revision,   \* the version of the answer
          answer

vars == <<phase, revision, answer>>

Init == phase = "collecting" /\ revision = 0 /\ answer = Blank

\* A newer version replaces the answer; whatever was offered no longer is.
Revise ==
    /\ phase \in {"collecting", "offered"}
    /\ phase' = "collecting"
    /\ revision' \in Nat /\ revision' > revision
    /\ answer' \in Answer

\* An offered answer that is heard again unchanged stays offered.
Repeat ==
    /\ phase = "offered"
    /\ revision' \in Nat /\ revision' > revision
    /\ UNCHANGED <<phase, answer>>

Offer ==
    /\ phase = "collecting" /\ answer # Blank
    /\ phase' = "offered"
    /\ UNCHANGED <<revision, answer>>

Withdraw ==
    /\ phase = "offered"
    /\ phase' = "collecting"
    /\ UNCHANGED <<revision, answer>>

Submit ==
    /\ phase = "offered"
    /\ phase' = "submitting"
    /\ UNCHANGED <<revision, answer>>

Reject ==
    /\ phase = "submitting"
    /\ phase' = "collecting"
    /\ UNCHANGED <<revision, answer>>

Accept ==
    /\ phase = "submitting"
    /\ phase' = "submitted"
    /\ UNCHANGED <<revision, answer>>

Next == Revise \/ Repeat \/ Offer \/ Withdraw \/ Submit \/ Reject \/ Accept

Spec == Init /\ [][Next]_vars
=============================================================================

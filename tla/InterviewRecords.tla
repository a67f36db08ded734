---------------------------- MODULE InterviewRecords ----------------------------
(***************************************************************************)
(* The interviews of one user: the rows of interview_sessions and          *)
(* interview_results, the sessions in the memory of the process, and the   *)
(* calls that start them, move them on, save their results and release     *)
(* them.                                                                   *)
(*                                                                         *)
(* Calls run in threads, each with a database transaction of its own.  A   *)
(* step ends where another call may come in between: at a statement that   *)
(* reads or locks rows, at the session's lock, at a commit.  What is       *)
(* written is seen by others once it is committed; the lock of a row that  *)
(* was changed and the claim of a unique key that was inserted are held    *)
(* until then.  What an interview is about is left out, and so are other   *)
(* users: every query names the user.                                      *)
(***************************************************************************)
EXTENDS Naturals, FiniteSets

CONSTANTS MaxInterviews,  \* bound of the model: interviews that are ever started
          Call            \* the requests and voice connections served at a time

ASSUME BoundAssumption == MaxInterviews \in Nat

VARIABLES row,          \* InterviewSession.status of each interview, as committed
          result,       \* the interviews that have an InterviewResult, as committed
          registered,   \* SessionRegistry._entries
          memory,       \* what the graph's checkpoints know of each interview
          call,         \* where each call is
          overlapped    \* history: interviews whose rows were written at one time

vars == <<row, result, registered, memory, call, overlapped>>

\* Numbered in the order their rows have in the table.
Interview == 1..MaxInterviews

Status == {"in_progress", "completed", "cancelled"}

\* A session that is gone was released or lost when the process ended.
Gone == {"released", "lost"}
Memory == {"none", "running", "finished"} \cup Gone

Writing == {"snapshot", "cancel"}
Saving == {"find", "insert", "commit"}
Place == {"idle", "read", "submit", "speaking", "finalize", "release", "drop"}
         \cup Writing \cup Saving

\* of: its interview; seen: the status it has loaded; old, locked: the rows its
\* UPDATE has still to look at and has changed; inserted: it claims the result.
CallState ==
    [at : Place, of : Interview \cup {0}, voice : BOOLEAN, seen : Status \cup {"none"},
     old : SUBSET Interview, locked : SUBSET Interview, inserted : BOOLEAN]

Idle == [at |-> "idle", of |-> 0, voice |-> FALSE, seen |-> "none",
         old |-> {}, locked |-> {}, inserted |-> FALSE]

Init ==
    /\ row = [i \in Interview |-> "none"] /\ result = {}
    /\ registered = {} /\ memory = [i \in Interview |-> "none"]
    /\ call = [c \in Call |-> Idle]
    /\ overlapped = {}

---------------------------------------------------------------------------

Goes(c, from, to) == call[c].at = from /\ call' = [call EXCEPT ![c].at = to]
Ends(c) == call' = [call EXCEPT ![c] = Idle]

\* Another transaction has changed the row, or inserted the result, of i.
LockedByOther(c, i) == \E d \in Call \ {c} : i \in call[d].locked
ClaimedByOther(c, i) == \E d \in Call \ {c} : call[d].inserted /\ call[d].of = i

\* POST /sessions: the session is made and registered once its graph has asked the
\* first question; one whose graph raises leaves nothing.
Start(c) ==
    \E i \in Interview :
        /\ call[c] = Idle
        /\ memory[i] = "none" /\ \A j \in Interview : j < i => memory[j] # "none"
        /\ call' = [call EXCEPT ![c] = [Idle EXCEPT !.at = "snapshot", !.of = i]]
        /\ memory' = [memory EXCEPT ![i] = "running"]
        /\ registered' = registered \cup {i}
        /\ UNCHANGED <<row, result, overlapped>>

\* Mutant: only the interview started last is looked for.
SnapshotLatest(c) ==
    /\ call[c].at = "snapshot"
    /\ LET open == {i \in Interview : row[i] = "in_progress"}
       IN  call' = [call EXCEPT ![c].at = "cancel",
                                ![c].old = {i \in open : \A j \in open : j <= i}]
    /\ overlapped' = overlapped \cup
                     {{call[c].of, call[d].of} : d \in {e \in Call : call[e].at = "cancel"}}
    /\ UNCHANGED <<row, result, registered, memory>>

\* create_session_record: the UPDATE of the rows in progress looks at the rows
\* committed so far.
Snapshot(c) ==
    /\ call[c].at = "snapshot"
    /\ call' = [call EXCEPT ![c].at = "cancel",
                            ![c].old = {i \in Interview : row[i] = "in_progress"}]
    /\ overlapped' = overlapped \cup
                     {{call[c].of, call[d].of} : d \in {e \in Call : call[e].at = "cancel"}}
    /\ UNCHANGED <<row, result, registered, memory>>

\* Mutant: a row that was waited for is not looked at again.
CancelsAnyway(i) == TRUE

Cancels(i) == row[i] = "in_progress"

\* It takes the rows one by one in the table's order, waits for those another
\* transaction has changed and then looks at them again.
CancelOld(c) ==
    /\ call[c].at = "cancel"
    /\ \E i \in call[c].old :
          /\ \A j \in call[c].old : i <= j
          /\ ~LockedByOther(c, i)
          /\ call' = [call EXCEPT ![c].old = @ \ {i},
                                  ![c].locked = @ \cup (IF Cancels(i) THEN {i} ELSE {})]
    /\ UNCHANGED <<row, result, registered, memory, overlapped>>

\* The new row is inserted and the transaction committed, or rolled back.
CommitStart(c) ==
    /\ call[c].at = "cancel" /\ call[c].old = {}
    /\ Ends(c)
    /\ \/ row' = [i \in Interview |-> IF i \in call[c].locked THEN "cancelled"
                                      ELSE IF i = call[c].of THEN "in_progress"
                                      ELSE row[i]]
       \/ UNCHANGED row
    /\ UNCHANGED <<result, registered, memory, overlapped>>

---------------------------------------------------------------------------

\* A client knows an interview once the call that started it has returned.
Known(i) == i \in registered /\ row[i] # "none"

\* POST /sessions/{id}/events: get_session
Event(c) ==
    \E i \in Interview :
        /\ call[c] = Idle /\ Known(i)
        /\ call' = [call EXCEPT ![c] = [Idle EXCEPT !.at = "read", !.of = i]]
        /\ UNCHANGED <<row, result, registered, memory, overlapped>>

\* An interview that was cancelled takes no more events.
TurnedAway(i) == row[i] = "cancelled"

ReadRow(c) ==
    LET i == call[c].of
    IN  /\ call[c].at = "read"
        /\ call' = [call EXCEPT ![c] = IF TurnedAway(i) THEN Idle
                                       ELSE [@ EXCEPT !.at = "submit", !.seen = row[i]]]
        /\ UNCHANGED <<row, result, registered, memory, overlapped>>

\* What get_state reads first, submit_event looks at again.  The event may finish
\* the interview; the call is over if it does not, if the graph raises and if the
\* session is gone.
Finishes(i) == memory' = [memory EXCEPT ![i] = "finished"]

Submit(c) ==
    LET i == call[c].of
    IN  /\ call[c].at = "submit"
        /\ \/ memory[i] = "running" /\ Finishes(i) /\ Goes(c, "submit", "finalize")
           \/ memory[i] = "finished" /\ Goes(c, "submit", "finalize") /\ UNCHANGED memory
           \/ memory[i] # "finished" /\ Ends(c) /\ UNCHANGED memory
        /\ UNCHANGED <<row, result, registered, overlapped>>

\* A voice connection is served as long as it lasts and does not look whether
\* its interview was cancelled.
Connect(c) ==
    \E i \in Interview :
        /\ call[c] = Idle /\ Known(i) /\ memory[i] = "running"
        /\ call' = [call EXCEPT ![c] = [Idle EXCEPT !.at = "speaking", !.of = i,
                                                    !.voice = TRUE, !.seen = row[i]]]
        /\ UNCHANGED <<row, result, registered, memory, overlapped>>

\* A spoken answer that leaves the interview running or fails changes nothing here.
Speak(c) ==
    LET i == call[c].of
    IN  /\ Goes(c, "speaking", "finalize")
        /\ \/ memory[i] = "running" /\ Finishes(i)
           \/ memory[i] = "finished" /\ UNCHANGED memory
        /\ UNCHANGED <<row, result, registered, overlapped>>

HangUp(c) ==
    /\ call[c].at = "speaking"
    /\ Ends(c)
    /\ UNCHANGED <<row, result, registered, memory, overlapped>>

---------------------------------------------------------------------------

\* _save_finished_result: the report is read from the checkpoint.
Finalize(c) ==
    /\ call[c].at = "finalize"
    /\ IF memory[call[c].of] \in Gone THEN Ends(c) ELSE Goes(c, "finalize", "find")
    /\ UNCHANGED <<row, result, registered, memory, overlapped>>

\* save_interview_result: a result that exists is the one.
Find(c) ==
    /\ Goes(c, "find", IF call[c].of \in result THEN "release" ELSE "insert")
    /\ UNCHANGED <<row, result, registered, memory, overlapped>>

\* INSERT ... ON CONFLICT DO NOTHING waits for another insert of the same key.
Insert(c) ==
    /\ call[c].at = "insert"
    /\ ~ClaimedByOther(c, call[c].of)
    /\ call' = [call EXCEPT ![c].at = "commit", ![c].inserted = call[c].of \notin result]
    /\ UNCHANGED <<row, result, registered, memory, overlapped>>

\* A row loaded as completed is not written.
StatusAfterSave(seen, now) == IF seen # "completed" THEN "completed" ELSE now

\* The status goes into the row when the transaction is committed.
Commit(c) ==
    LET i == call[c].of
    IN  /\ call[c].at = "commit" /\ ~LockedByOther(c, i)
        /\ call' = [call EXCEPT ![c].at = "release", ![c].inserted = FALSE]
        /\ row' = [row EXCEPT ![i] = StatusAfterSave(call[c].seen, @)]
        /\ result' = result \cup (IF call[c].inserted THEN {i} ELSE {})
        /\ UNCHANGED <<registered, memory, overlapped>>

\* Mutants: the claim outlives the rollback; a failed save goes on to the release.
FailKeepsClaim(c) ==
    /\ call[c].at \in {"insert", "commit"}
    /\ call' = [call EXCEPT ![c] = [Idle EXCEPT !.inserted = call[c].inserted, !.of = call[c].of]]
    /\ UNCHANGED <<row, result, registered, memory, overlapped>>
FailReleases(c) ==
    /\ call[c].at \in {"insert", "commit"}
    /\ call' = [call EXCEPT ![c].at = "release", ![c].inserted = FALSE]
    /\ UNCHANGED <<row, result, registered, memory, overlapped>>

\* The database fails: the transaction is rolled back and the interview kept.
Fail(c) ==
    /\ call[c].at \in {"insert", "commit"}
    /\ Ends(c)
    /\ UNCHANGED <<row, result, registered, memory, overlapped>>

\* release_session takes the interview out of the registry, then deletes its
\* checkpoints.  A voice connection lost by now releases nothing.
Release(c) ==
    /\ call[c].at = "release"
    /\ \/ /\ registered' = registered \ {call[c].of}
          /\ IF call[c].of \in registered THEN Goes(c, "release", "drop") ELSE Ends(c)
       \/ call[c].voice /\ Ends(c) /\ UNCHANGED registered
    /\ UNCHANGED <<row, result, memory, overlapped>>

Drop(c) ==
    /\ call[c].at = "drop"
    /\ Ends(c)
    /\ memory' = [memory EXCEPT ![call[c].of] = "released"]
    /\ UNCHANGED <<row, result, registered, overlapped>>

\* The process ends and starts again with the rows alone.
Restart ==
    /\ call' = [c \in Call |-> Idle]
    /\ registered' = {}
    /\ memory' = [i \in Interview |-> IF memory[i] \in {"running", "finished"}
                                      THEN "lost" ELSE memory[i]]
    /\ UNCHANGED <<row, result, overlapped>>

Next ==
    \/ \E c \in Call :
          \/ Start(c) \/ Snapshot(c) \/ CancelOld(c) \/ CommitStart(c)
          \/ Event(c) \/ ReadRow(c) \/ Submit(c)
          \/ Connect(c) \/ Speak(c) \/ HangUp(c)
          \/ Finalize(c) \/ Find(c) \/ Insert(c) \/ Commit(c) \/ Fail(c)
          \/ Release(c) \/ Drop(c)
    \/ Restart

Spec == Init /\ [][Next]_vars

---------------------------------------------------------------------------

\* The variables have their types.
TypeOK ==
    /\ row \in [Interview -> Status \cup {"none"}] /\ result \subseteq Interview
    /\ registered \subseteq Interview /\ memory \in [Interview -> Memory]
    /\ call \in [Call -> CallState]
    /\ overlapped \subseteq SUBSET Interview

\* An interview is completed exactly if its result is saved, whatever starts or
\* saves come between the statements of a save.
CompletedHasResult == \A i \in Interview : row[i] = "completed" <=> i \in result

\* A session leaves the memory only when its result is saved.
ReleasedIsSaved == \A i \in Interview : memory[i] = "released" => i \in result

\* Two interviews are in progress only if neither start saw the other's row.
StartEndsTheOthers ==
    \A i, j \in Interview :
        row[i] = "in_progress" /\ row[j] = "in_progress" /\ i # j => {i, j} \in overlapped

\* The transaction of c asks for what that of d holds.
WaitsFor(c, d) ==
    \/ /\ call[c].at = "cancel"
       /\ \E i \in call[c].old \cap call[d].locked : \A j \in call[c].old : i <= j
    \/ call[c].at = "insert" /\ call[d].inserted /\ call[d].of = call[c].of
    \/ call[c].at = "commit" /\ call[c].of \in call[d].locked

\* Nobody waits for ever: who is waited for is in a transaction, and no
\* transactions wait for each other in a circle.
WaitingEnds ==
    /\ \A c, d \in Call : c # d /\ WaitsFor(c, d) => call[d].at \in {"cancel", "commit"}
    /\ \A S \in (SUBSET Call) \ {{}} : \E c \in S : \A d \in S \ {c} : ~WaitsFor(c, d)
=============================================================================

--------------------------- MODULE VoiceTurnRegistry ---------------------------
(***************************************************************************)
(* The answers of one voice interview from both sides: the connections     *)
(* that submit what was said and the HTTP requests that submit it by hand, *)
(* the registry entry between them and the session that takes the answers. *)
(*                                                                         *)
(* What a turn is made of is VoiceTurnCoordinator; here there are many     *)
(* turns, one after the other.  A turn is known by being that of the entry *)
(* or not, since nothing can be done with one the registry has let go of.  *)
(*                                                                         *)
(* Requests run in threads, connections on the event loop.  A call of the  *)
(* registry is one step, and so is a call of the session, under its lock;  *)
(* one that raises may leave the interview's graph in the middle of a run. *)
(***************************************************************************)
EXTENDS Naturals

CONSTANTS Conn,      \* WebSocket connections; one that is closed may come again
          NoConn,    \* Python's None for the entry's worker
          Request,   \* HTTP requests under way at once
          ManualId,  \* client_event_ids of manual submissions
          Revision,  \* of answers offered for submission
          Last       \* the questions are 1..Last

ASSUME RegistryAssumption ==
    /\ NoConn \notin Conn /\ Last \in Nat
    /\ ManualId \cap ((1..Last) \X Revision) = {}

\* The interview asks Last + 1: it is finished.  No entry: question 0.
Finished == Last + 1
None == 0

\* _run_commit_delay makes the id of the question and the revision.
EventId == ManualId \cup ((1..Last) \X Revision)

VARIABLES current,   \* the session's current question
          processed, \* _processed_client_events: the question the result shows
          halfRun,   \* what the graph was running when it raised: the next event resumes it
          accounted, \* history: the questions an answer given to them was recorded for,
                     \* and those left by an event that is no answer
          entry,     \* the registry's entry of the interview
          conn,      \* connection -> what it is doing
          req        \* request -> what it is doing

session == <<current, processed, halfRun, accounted>>
vars == <<session, entry, conn, req>>

\* worker is whose worker is attached, a closed one included.
Entry == [question : 0..Last, state : {"open", "committing", "committed"},
          worker : Conn \cup {NoConn}]
NoEntry == [question |-> None, state |-> "open", worker |-> NoConn]

\* linked: connection_open; question: of its turn; held: the turn is the entry's;
\* serves: its worker is attached and not closed; next: what the result of its answer
\* shows; moved: the interview has gone on since it read the question or had that result.
Connection ==
    [at : {"off", "read", "opened", "serving", "submitting", "submitted", "failed",
           "telling", "attaching"},
     linked : BOOLEAN, question : 0..Last, held : BOOLEAN, serves : BOOLEAN,
     revision : {0} \cup Revision, next : 0..Finished, moved : BOOLEAN]
Off == [at |-> "off", linked |-> FALSE, question |-> None, held |-> FALSE, serves |-> FALSE,
        revision |-> 0, next |-> None, moved |-> FALSE]

\* advanced: its answer moved the interview on.
Requests ==
    [at : {"idle", "read", "answered"}, question : 0..Last, id : ManualId \cup {<<>>},
     next : 0..Finished, advanced : BOOLEAN]
NoRequest == [at |-> "idle", question |-> None, id |-> <<>>, next |-> None, advanced |-> FALSE]

Init ==
    /\ current = 1
    /\ processed = [id \in EventId |-> None]
    /\ halfRun = "no" /\ accounted = {}
    /\ entry = NoEntry
    /\ conn = [c \in Conn |-> Off]
    /\ req = [h \in Request |-> NoRequest]

---------------------------------------------------------------------------
(* The session *)

\* Each connection learns whether the interview went on.
Moved(cs, n) == [c \in Conn |-> [cs[c] EXCEPT !.moved = @ \/ n # current]]

\* Mutant: an answer counts for whatever is asked.
FitsAlways(given) == TRUE

\* validate_event: the answer is to the question that is asked.
Fits(given) == given = current

Processed(id) == processed[id] # None

\* The answer is recorded and judged: the same question comes again (off topic, or a
\* hint asked for), another, or the end.
Judges(given, n) ==
    /\ halfRun = "no" /\ Fits(given) /\ n \in {current, current + 1}
    /\ accounted' = accounted \cup {given}

\* The answer is refused, or it is a command to repeat the question or to end, which
\* is obeyed whatever the question.
RefusesOrObeys(n) ==
    /\ halfRun = "no" /\ n \in {current, Finished}
    /\ accounted' = accounted \cup (current..(n - 1))

\* What the graph was running is run to its end: the answer recorded before, or a
\* silence; the event that comes is not read.
Resumes(n) ==
    /\ halfRun # "no" /\ n \in {current, current + 1}
    /\ accounted' = IF halfRun = "other" THEN accounted \cup (current..(n - 1)) ELSE accounted

\* submit_event: n is the question its result shows.
SubmitEvent(id, given, n) ==
    \/ /\ Processed(id) \/ current = Finished
       /\ n = IF Processed(id) THEN processed[id] ELSE current
       /\ UNCHANGED session
    \/ /\ ~Processed(id) /\ current # Finished
       /\ Judges(given, n) \/ RefusesOrObeys(n) \/ Resumes(n)
       /\ current' = n /\ halfRun' = "no"
       /\ processed' = [processed EXCEPT ![id] = n]

\* submit_event raises: the answer may have been recorded and not been judged, its id is
\* not remembered.  Raising before that or while resuming leaves everything.
SubmitEventRaises(id, given) ==
    /\ \/ /\ ~Processed(id) /\ current # Finished /\ halfRun = "no" /\ Fits(given)
          /\ halfRun' = "answer" /\ accounted' = accounted \cup {given}
       \/ UNCHANGED <<halfRun, accounted>>
    /\ UNCHANGED <<current, processed>>

\* Silence, a timeout or a request to end, by HTTP: the registry is not told.
OtherEvent ==
    /\ current # Finished
    /\ \/ halfRun = "no" /\ current' \in {current, current + 1, Finished}
          /\ accounted' = accounted \cup (current..(current' - 1))
       \/ \E n \in 1..Finished : Resumes(n) /\ current' = n
    /\ halfRun' = "no"
    /\ conn' = Moved(conn, current')
    /\ UNCHANGED <<processed, entry, req>>

\* The hint after a silence cannot be made.
OtherEventRaises ==
    /\ current # Finished /\ halfRun = "no"
    /\ halfRun' = "other"
    /\ UNCHANGED <<current, processed, accounted, entry, conn, req>>

---------------------------------------------------------------------------
(* The registry *)

\* Mutant: the worker of the turn let go of is left running.
ServesOn(c) == conn[c].serves

\* The attached worker is closed when the entry goes.
StillServes(c) == conn[c].serves /\ entry.worker # c

\* What the connections are left with when the entry's turn is replaced or removed.
LetGo == [c \in Conn |-> [conn[c] EXCEPT !.held = FALSE, !.serves = StillServes(c)]]

NewEntry(q) == [question |-> q, state |-> "open", worker |-> NoConn]

\* Mutant: whatever is there is reopened.
ReopensAny(q) == entry.question # None

\* open_turn: the entry's turn is about the question.
Reopens(q) == entry.question = q

\* attach_worker closes the worker attached before.
AttachWorker(c) ==
    /\ entry' = [entry EXCEPT !.worker = c]
    /\ conn' = [d \in Conn |->
           IF d = c THEN [conn[c] EXCEPT !.at = "serving", !.serves = TRUE]
           ELSE [conn[d] EXCEPT !.serves = @ /\ entry.worker # d]]

\* detach_worker, once the connection is done with.
Leave(c) ==
    /\ entry' = IF entry.worker = c THEN [entry EXCEPT !.worker = NoConn] ELSE entry
    /\ conn' = [conn EXCEPT ![c] = Off]

---------------------------------------------------------------------------
(* Connections *)

\* A connection that attaches its next worker does not let go of the event loop.
LoopFree == \A c \in Conn : conn[c].at # "attaching"

Becomes(c, at) == conn' = [conn EXCEPT ![c].at = at]

\* A finished interview is refused.
Read(c) ==
    /\ LoopFree /\ conn[c].at = "off" /\ current # Finished
    /\ conn' = [conn EXCEPT ![c] = [Off EXCEPT !.at = "read", !.linked = TRUE, !.question = current]]
    /\ UNCHANGED <<session, entry, req>>

OpenTurn(c) ==
    LET q == conn[c].question
        Opened(cs) == [cs EXCEPT ![c] = [@ EXCEPT !.at = "opened", !.held = TRUE,
                                                  !.question = entry'.question]]
    IN  /\ LoopFree /\ conn[c].at = "read"
        /\ IF Reopens(q)
           THEN UNCHANGED entry /\ conn' = Opened(conn)
           ELSE entry' = NewEntry(q) /\ conn' = Opened(LetGo)
        /\ UNCHANGED <<session, req>>

\* The lock of the turn may have been waited for.  A turn being submitted turns the
\* connection away, one the registry has let go of makes attach_worker raise.
Attach(c) ==
    /\ LoopFree /\ conn[c].at = "opened"
    /\ IF conn[c].held /\ entry.state # "committing" THEN AttachWorker(c) ELSE Leave(c)
    /\ UNCHANGED <<session, req>>

\* _run_commit_delay up to begin_commit.  Reading the session before the lock is taken
\* is part of the step: if the interview goes on in between, the answer is refused.
BeginCommit(c, r) ==
    /\ LoopFree /\ conn[c].at = "serving" /\ conn[c].serves
    /\ entry.state = "open" /\ conn[c].question = current
    /\ entry' = [entry EXCEPT !.state = "committing"]
    /\ conn' = [conn EXCEPT ![c] = [@ EXCEPT !.at = "submitting", !.revision = r]]
    /\ UNCHANGED <<session, req>>

\* on_commit_answer, in a thread: it goes on when the connection is lost.
Submit(c) ==
    /\ conn[c].at = "submitting"
    /\ \E n \in 1..Finished :
          /\ SubmitEvent(<<conn[c].question, conn[c].revision>>, conn[c].question, n)
          /\ conn' = [Moved(conn, current') EXCEPT
                 ![c] = [@ EXCEPT !.at = "submitted", !.next = n, !.revision = 0,
                                  !.moved = n # current']]
    /\ UNCHANGED <<entry, req>>

SubmitRaises(c) ==
    /\ conn[c].at = "submitting"
    /\ SubmitEventRaises(<<conn[c].question, conn[c].revision>>, conn[c].question)
    /\ conn' = [conn EXCEPT ![c] = [@ EXCEPT !.at = "failed", !.revision = 0]]
    /\ UNCHANGED <<entry, req>>

\* abort_commit
Abort(c) ==
    LET e == IF conn[c].held THEN [entry EXCEPT !.state = "open"] ELSE entry
    IN  /\ LoopFree /\ conn[c].at = "failed"
        /\ IF conn[c].linked
           THEN entry' = e /\ Becomes(c, "serving")
           ELSE /\ entry' = IF e.worker = c THEN [e EXCEPT !.worker = NoConn] ELSE e
                /\ conn' = [conn EXCEPT ![c] = Off]
        /\ UNCHANGED <<session, req>>

\* mark_committed, the worker is closed, and the result is for the client if the
\* worker is still the attached one and the connection there.
Mark(c) ==
    LET e == IF conn[c].held THEN [entry EXCEPT !.state = "committed"] ELSE entry
    IN  /\ LoopFree /\ conn[c].at = "submitted"
        /\ IF conn[c].linked
           THEN /\ entry' = e
                /\ conn' = [conn EXCEPT ![c] = [@ EXCEPT !.serves = FALSE,
                                 !.at = IF entry.worker = c THEN "telling" ELSE "serving"]]
           ELSE /\ entry' = IF e.worker = c THEN [e EXCEPT !.worker = NoConn] ELSE e
                /\ conn' = [conn EXCEPT ![c] = Off]
        /\ UNCHANGED <<session, req>>

\* The client has the result: the entry goes, whoever has opened or taken it over
\* while the result was sent, or is replaced for the next question.
Told(c) ==
    /\ LoopFree /\ conn[c].at = "telling"
    /\ IF conn[c].next = Finished
       THEN entry' = NoEntry /\ conn' = [LetGo EXCEPT ![c] = Off]
       ELSE /\ entry' = NewEntry(conn[c].next)
            /\ conn' = [LetGo EXCEPT ![c] = [@ EXCEPT !.at = "attaching", !.held = TRUE,
                                              !.question = conn[c].next, !.next = None]]
    /\ UNCHANGED <<session, req>>

\* Sending fails: the exception is dropped.
TellFails(c) ==
    /\ LoopFree /\ conn[c].at = "telling"
    /\ conn' = [conn EXCEPT ![c] = [@ EXCEPT !.at = "serving", !.next = None]]
    /\ UNCHANGED <<session, entry, req>>

\* A request may have come between: attach_worker raises, and that is dropped too.
AttachNext(c) ==
    /\ conn[c].at = "attaching"
    /\ IF conn[c].held THEN AttachWorker(c) ELSE Becomes(c, "serving") /\ UNCHANGED entry
    /\ UNCHANGED <<session, req>>

\* Mutant: a submission is cancelled with the connection.
WaitsForNothing(c) == FALSE

\* _cancel_commit_task: a submission that has begun is waited for.
WaitsForCommit(c) == conn[c].at \in {"submitting", "submitted", "failed"}

\* The connection is lost; aclose.
Disconnect(c) ==
    /\ LoopFree /\ conn[c].linked
    /\ conn[c].at \in {"serving", "submitting", "submitted", "failed", "telling"}
    /\ IF WaitsForCommit(c)
       THEN conn' = [conn EXCEPT ![c].linked = FALSE] /\ UNCHANGED entry
       ELSE Leave(c)
    /\ UNCHANGED <<session, req>>

---------------------------------------------------------------------------
(* Manual submissions: post_event *)

\* The question is read before the answer is submitted.  An id comes again when the
\* client repeats a request that seemed lost.
Ask(h, id) ==
    /\ req[h].at = "idle" /\ current # Finished
    /\ req' = [req EXCEPT ![h] = [NoRequest EXCEPT !.at = "read", !.question = current, !.id = id]]
    /\ UNCHANGED <<session, entry, conn>>

SubmitManual(h) ==
    /\ req[h].at = "read"
    /\ \E n \in 1..Finished :
          /\ SubmitEvent(req[h].id, req[h].question, n)
          /\ conn' = Moved(conn, current')
          /\ req' = [req EXCEPT ![h] = [@ EXCEPT !.at = "answered", !.next = n, !.id = <<>>,
                                                 !.advanced = current' # current]]
    /\ UNCHANGED entry

\* The request ends with the error; the registry is not told.
SubmitManualRaises(h) ==
    /\ req[h].at = "read"
    /\ SubmitEventRaises(req[h].id, req[h].question)
    /\ req' = [req EXCEPT ![h] = NoRequest]
    /\ UNCHANGED <<entry, conn>>

\* _sync_voice_turn_after_manual_submit
Sync(h) ==
    /\ req[h].at = "answered"
    /\ CASE entry.question = None \/ req[h].next = req[h].question -> UNCHANGED <<entry, conn>>
         [] entry.question # None /\ req[h].next = Finished -> entry' = NoEntry /\ conn' = LetGo
         [] OTHER -> entry' = NewEntry(req[h].next) /\ conn' = LetGo
    /\ req' = [req EXCEPT ![h] = NoRequest]
    /\ UNCHANGED session

---------------------------------------------------------------------------
(* Specification *)

\* What goes on by itself once it has begun.
Proceeds(c) ==
    \/ OpenTurn(c) \/ Attach(c) \/ Submit(c) \/ SubmitRaises(c) \/ Abort(c)
    \/ Mark(c) \/ Told(c) \/ TellFails(c) \/ AttachNext(c)

Handles(h) == SubmitManual(h) \/ SubmitManualRaises(h) \/ Sync(h)

Next ==
    \/ OtherEvent \/ OtherEventRaises
    \/ \E c \in Conn : Read(c) \/ Proceeds(c) \/ Disconnect(c)
    \/ \E c \in Conn, r \in Revision : BeginCommit(c, r)
    \/ \E h \in Request, id \in ManualId : Ask(h, id)
    \/ \E h \in Request : Handles(h)

Spec == Init /\ [][Next]_vars

\* Threads and the event loop run on; sending ends or fails.
FairSpec ==
    /\ Spec
    /\ \A c \in Conn : WF_vars(Proceeds(c))
    /\ \A h \in Request : WF_vars(Handles(h))

---------------------------------------------------------------------------
(* Properties *)

TypeOK ==
    /\ current \in 1..Finished
    /\ processed \in [EventId -> 0..Finished]
    /\ entry \in Entry
    /\ conn \in [Conn -> Connection]
    /\ req \in [Request -> Requests]
    /\ halfRun \in {"no", "answer", "other"}
    /\ accounted \subseteq 0..Last

\* Whatever connections and requests do to the registry, a worker that is not closed is
\* the one attached to the entry and works for the entry's turn: two connections never
\* listen to the candidate at once, none to a turn that was replaced.
OneListener ==
    \A c \in Conn : conn[c].serves => entry.worker = c /\ conn[c].held

\* However spoken and typed answers, other events, repetitions and calls that raise
\* interleave, no question is passed over: the interview leaves one only when an answer
\* given to this very question was recorded, or by an event that is no answer.
NoQuestionSkipped == \A q \in 1..Last : q < current => q \in accounted

\* What an entry is left at by requests, other events and connections that died, a
\* connection is served the question the interview asks, when it comes and after each
\* of its answers, until the interview goes on by itself.
ServedIsCurrent ==
    \A c \in Conn :
        conn[c].serves /\ conn[c].at # "submitted" /\ ~conn[c].moved
            => conn[c].question = current

\* A turn does not turn connections away for ever: its submission ends, whatever becomes
\* of the connection that began it.
CommitEnds == entry.state = "committing" ~> entry.state # "committing"

\* _sync_voice_turn_after_manual_submit says that it discards the turn if the manual
\* submission really moved the interview on, and that a repeated request leaves the turn
\* of the next question alone: one that moved nothing spares the turn of the question asked.
ManualKeepsTurn ==
    [][\A h \in Request :
           /\ Sync(h) /\ ~req[h].advanced
           /\ current # Finished /\ entry.question = current
           => UNCHANGED entry]_vars
=============================================================================

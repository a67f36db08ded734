----------------------------- MODULE EvidenceIndex -----------------------------
(***************************************************************************)
(* The evidence of one user: the links he registers, the requests that     *)
(* have them indexed, the task each accepted request leaves behind and the *)
(* chunks in the store.                                                    *)
(*                                                                         *)
(* A request runs in a thread of the pool, and its task after it: each     *)
(* call of the database and each access of the status table is a step, and *)
(* those of two requests interleave.  The status table is memory of the    *)
(* process; links and chunks are in the database and survive a restart.    *)
(* A page stands for the chunks made of it; what collecting makes of a     *)
(* link may be any part of its pages, and EvidenceFetch says which.        *)
(***************************************************************************)
EXTENDS Naturals

CONSTANTS Link,         \* what can be registered or sent with a request
          Notion,       \* the links of Notion; the others are of GitHub
          Page,         \* what is fetched and stored
          PagesOf,      \* PagesOf[l]: the pages reached from link l
          Thread,       \* requests that can be under way at once
          MaxIndexings  \* bound of the model: requests that pass the checks

SourceType == {"notion", "github"}
TypesOf(links) == {IF l \in Notion THEN "notion" ELSE "github" : l \in links}
Reached(links) == UNION {PagesOf[l] : l \in links}
PagesOfType(types) == Reached({l \in Link : TypesOf({l}) \subseteq types})

\* No page is reached from links of both sources.
ASSUME IndexAssumption ==
    /\ Notion \subseteq Link /\ PagesOf \in [Link -> SUBSET Page]
    /\ Reached(Notion) \cap Reached(Link \ Notion) = {}
    /\ MaxIndexings \in Nat

VARIABLES registered, \* rows of evidence_source_links
          connected,  \* the sources the user has a credential of
          stored,     \* the pages with chunks in evidence_vector_records
          status,     \* the user's entry of _index_status_by_user
          req,        \* req[t]: the request of thread t, then its task
          last,       \* history: the request that passed the checks last
          passed      \* how many did

vars == <<registered, connected, stored, status, req, last, passed>>

Ended == {"success", "partial_failed", "failed"}

\* checking, clearing_all, accepting: start_evidence_index; the others: the task.
Request ==
    [at : {"idle", "checking", "clearing_all", "accepting",
           "clearing", "collecting", "storing", "covering", "ending"},
     full : BOOLEAN, links : SUBSET Link, pages : SUBSET Page,
     failures : BOOLEAN, result : {"none"} \cup Ended]

NoRequest == [at |-> "idle", full |-> FALSE, links |-> {}, pages |-> {},
              failures |-> FALSE, result |-> "none"]

\* alone: no other was past the checks when it passed them; of one that was not alone
\* nothing is kept.  begun, cleared, ended: how far it came; pages: what it collected.
Indexing == [alone : BOOLEAN, full : BOOLEAN, links : SUBSET Link, pages : SUBSET Page,
             begun : BOOLEAN, cleared : BOOLEAN, ended : BOOLEAN]

NoIndexing == [alone |-> FALSE, full |-> FALSE, links |-> {}, pages |-> {},
               begun |-> FALSE, cleared |-> FALSE, ended |-> FALSE]

Init ==
    /\ registered = {} /\ connected \in SUBSET SourceType
    /\ stored = {} /\ status = "idle"
    /\ req = [t \in Thread |-> NoRequest]
    /\ last = NoIndexing /\ passed = 0

---------------------------------------------------------------------------
(* Links *)

\* The unique key lets one of two inserts of a link through.
Register(l) ==
    /\ l \notin registered
    /\ registered' = registered \cup {l}
    /\ UNCHANGED <<connected, stored, status, req, last, passed>>

\* The chunks stay.
Unregister(l) ==
    /\ l \in registered
    /\ registered' = registered \ {l}
    /\ UNCHANGED <<connected, stored, status, req, last, passed>>

---------------------------------------------------------------------------
(* start_evidence_index *)

Goes(t, r) == req' = [req EXCEPT ![t] = r]
GoesTo(t, at) == Goes(t, [req[t] EXCEPT !.at = at])

\* The links sent with the request, as they are or by their ids, or else all that are
\* registered.  Without a link the request is refused at once.
Ask(t, sent) ==
    LET links == IF sent = {} THEN registered ELSE sent
    IN  /\ req[t].at = "idle" /\ passed < MaxIndexings /\ links # {}
        /\ Goes(t, [NoRequest EXCEPT !.at = "checking", !.full = (sent = {}), !.links = links])
        /\ UNCHANGED <<registered, connected, stored, status, last, passed>>

Refused(t) == status = "running" \/ ~(TypesOf(req[t].links) \subseteq connected)

Refuse(t) ==
    /\ req[t].at = "checking" /\ Refused(t)
    /\ Goes(t, NoRequest)
    /\ UNCHANGED <<registered, connected, stored, status, last, passed>>

\* Threads past the checks and not yet done.
UnderWay == {t \in Thread : req[t].at \notin {"idle", "checking"}}

\* History: what is recorded of the last request, which is that of t if it is alone.
Note(change) == last' = IF last.alone THEN change ELSE last

Pass(t) ==
    /\ req[t].at = "checking" /\ ~Refused(t) /\ passed < MaxIndexings
    /\ passed' = passed + 1
    /\ last' = IF UnderWay = {}
               THEN [NoIndexing EXCEPT !.alone = TRUE, !.full = req[t].full,
                                       !.links = req[t].links]
               ELSE NoIndexing
    /\ GoesTo(t, IF req[t].full THEN "clearing_all" ELSE "accepting")
    /\ UNCHANGED <<registered, connected, stored, status>>

\* Mutant: a request for all links clears what its task will clear.
ClearsRequestedOnly(t) == stored \ PagesOfType(TypesOf(req[t].links))

\* What is left once everything of the user is cleared.
AfterClearAll(t) == stored \ PagesOfType(SourceType)

ClearAll(t) ==
    /\ req[t].at = "clearing_all"
    /\ \/ stored' = AfterClearAll(t) /\ GoesTo(t, "accepting")
       \/ UNCHANGED stored /\ Goes(t, NoRequest)
    /\ UNCHANGED <<registered, connected, status, last, passed>>

Accept(t) ==
    /\ req[t].at = "accepting"
    /\ status' = "running"
    /\ Goes(t, [req[t] EXCEPT !.at = "clearing", !.full = FALSE])
    /\ Note([last EXCEPT !.begun = TRUE])
    /\ UNCHANGED <<registered, connected, stored, passed>>

---------------------------------------------------------------------------
(* _run_index_background and build_index *)

\* An exception ends the task as failed.
Raise(t) ==
    /\ Goes(t, [NoRequest EXCEPT !.at = "ending", !.result = "failed"])
    /\ UNCHANGED <<registered, connected, stored, status, last, passed>>

\* clear_user_sources of the sources there are links of
Clear(t) ==
    /\ req[t].at = "clearing"
    /\ \/ /\ stored' = stored \ PagesOfType(TypesOf(req[t].links))
          /\ GoesTo(t, "collecting")
          /\ Note([last EXCEPT !.cleared = TRUE])
          /\ UNCHANGED <<registered, connected, status, passed>>
       \/ Raise(t)

\* Fetching, extracting and chunking: a link or a page fails, with or without being
\* among the failures, or is left out for lack of value.
Collect(t) ==
    /\ req[t].at = "collecting"
    /\ \E pages \in SUBSET Reached(req[t].links), failures \in BOOLEAN :
          /\ Goes(t, [req[t] EXCEPT !.at = "storing", !.links = {}, !.pages = pages, !.failures = failures])
          /\ Note([last EXCEPT !.pages = pages])
    /\ UNCHANGED <<registered, connected, stored, status, passed>>

\* Mutant: every batch of records is committed by itself.
CommittedByBatch(t) == SUBSET req[t].pages

\* add_chunks: one transaction.
Committed(t) == {req[t].pages}

\* Embedding or the transaction may fail.
Store(t) ==
    /\ req[t].at = "storing"
    /\ \/ /\ \E pages \in Committed(t) : stored' = stored \cup pages
          /\ GoesTo(t, "covering")
          /\ UNCHANGED <<registered, connected, status, last, passed>>
       \/ Raise(t)

\* Mutant: what was collected does not count.
StatusByFailures(t) == IF req[t].failures THEN "partial_failed" ELSE "success"

\* _build_status
BuildStatus(t) ==
    IF req[t].pages = {} THEN "failed"
    ELSE IF req[t].failures THEN "partial_failed" ELSE "success"

\* build_coverage_map may fail.
Cover(t) ==
    /\ req[t].at = "covering"
    /\ \/ /\ Goes(t, [req[t] EXCEPT !.at = "ending", !.pages = {}, !.failures = FALSE,
                                       !.result = BuildStatus(t)])
          /\ UNCHANGED <<registered, connected, stored, status, last, passed>>
       \/ Raise(t)

\* Mutant: a task that failed reports nothing.
ReportOnSuccess(t) == IF req[t].result = "failed" THEN status ELSE req[t].result

\* The status the task leaves.
Report(t) == req[t].result

End(t) ==
    /\ req[t].at = "ending"
    /\ status' = Report(t)
    /\ Goes(t, NoRequest)
    /\ Note([last EXCEPT !.ended = TRUE])
    /\ UNCHANGED <<registered, connected, stored, passed>>

\* The process ends and is started again.
Restart ==
    /\ status' = "idle"
    /\ req' = [t \in Thread |-> NoRequest]
    /\ UNCHANGED <<registered, connected, stored, last, passed>>

---------------------------------------------------------------------------
(* Specification *)

Runs(t) ==
    \/ Refuse(t) \/ Pass(t) \/ ClearAll(t) \/ Accept(t)
    \/ Clear(t) \/ Collect(t) \/ Store(t) \/ Cover(t) \/ End(t)

Next ==
    \/ \E l \in Link : Register(l) \/ Unregister(l)
    \/ \E t \in Thread, sent \in SUBSET Link : Ask(t, sent)
    \/ \E t \in Thread : Runs(t)
    \/ Restart

Spec == Init /\ [][Next]_vars

\* Threads run on; nothing obliges the user or the operator to anything.
FairSpec == Spec /\ \A t \in Thread : WF_vars(Runs(t))

---------------------------------------------------------------------------
(* Properties *)

TypeOK ==
    /\ registered \subseteq Link /\ connected \subseteq SourceType
    /\ stored \subseteq Page
    /\ status \in {"idle", "running"} \cup Ended
    /\ req \in [Thread -> Request]
    /\ last \in Indexing /\ passed \in 0..MaxIndexings

\* Indexing first deletes the evidence of its sources and stores the new last.  Whatever
\* fails in between, the end of the process included, an indexing that no other overlaps
\* leaves of these sources what it collected or nothing: no part of it, no rest of before.
AllOrNothing ==
    last.alone /\ last.cleared =>
        stored \cap PagesOfType(TypesOf(last.links)) \in {{}, last.pages}

\* A request to index all links leaves no evidence of links deleted before, also of a
\* source that has no link any more, unless another overlaps it.
DeletedIsForgotten ==
    last.alone /\ last.full /\ last.begun => stored \subseteq Reached(last.links)

\* An indexing that no other overlaps reports success, or success in part, only if
\* there is evidence, and then all it collected is in the store.
ResultIsTrue ==
    last.alone /\ last.ended /\ status \in {"success", "partial_failed"} =>
        last.pages # {} /\ last.pages \subseteq stored

\* A user is not refused for ever because an indexing is going on: whatever fails, the
\* status is written when the last task ends.
RefusalEnds == status = "running" ~> status # "running"
=============================================================================

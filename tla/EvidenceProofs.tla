----------------------------- MODULE EvidenceProofs -----------------------------
(***************************************************************************)
(* Theorems about EvidenceIndex, for any links, pages and threads; then    *)
(* about EvidenceFetch, for any pages, repositories and documents and      *)
(* whatever the services answer: what collecting a link of Notion or a     *)
(* repository leaves out and what not, the order of the chunks, and that   *)
(* each step brings the end nearer.  What functions defined by recursion   *)
(* compute is proved by induction on the naturals, which is here derived   *)
(* from their order being well-founded.                                    *)
(***************************************************************************)
EXTENDS EvidenceIndex, EvidenceFetch, FiniteSetTheorems, SequenceTheorems,
        WellFoundedInduction, TLAPS

---------------------------------------------------------------------------
(* Links, pages and sources *)

\* What is reached from links is of their sources, and all pages of a user are.
LEMMA ReachedIsOfType ==
    ASSUME NEW ls \in SUBSET Link
    PROVE  /\ Reached(ls) \subseteq PagesOfType(TypesOf(ls))
           /\ Reached(ls) \subseteq PagesOfType(SourceType)
           /\ Reached(ls) \subseteq Page
<1>1. \A l \in ls : TypesOf({l}) \subseteq TypesOf(ls)  BY DEF TypesOf
<1>2. \A l \in ls : TypesOf({l}) \subseteq SourceType  BY DEF TypesOf, SourceType
<1>3. \A l \in ls : PagesOf[l] \subseteq Page  BY IndexAssumption
<1>. QED  BY <1>1, <1>2, <1>3 DEF Reached, PagesOfType

---------------------------------------------------------------------------
(* Type correctness *)

\* A request has pages that were reached from links, and in the end a result.
Sound(r) ==
    /\ r \in Request /\ r.pages \subseteq PagesOfType(SourceType)
    /\ r.at = "ending" => r.result \in Ended

\* What is stored or is about to be was reached from links.
TypeInv ==
    /\ TypeOK
    /\ stored \subseteq PagesOfType(SourceType)
    /\ \A t \in Thread : Sound(req[t])

\* A thread goes on with a request.
LEMMA GoesKeepsTypes ==
    ASSUME TypeInv, NEW t \in Thread, NEW r, Sound(r), Goes(t, r)
    PROVE  /\ req' \in [Thread -> Request] /\ \A u \in Thread : Sound(req'[u])
           /\ req'[t] = r /\ \A u \in Thread : u # t => req'[u] = req[u]
<1>1. req' = [req EXCEPT ![t] = r] /\ r \in Request /\ req \in [Thread -> Request]
    BY DEF Goes, Sound, TypeInv, TypeOK
<1>2. req'[t] = r /\ \A u \in Thread : u # t => req'[u] = req[u]
    BY <1>1
<1>. QED  BY <1>1, <1>2 DEF TypeInv

\* The requests as the steps leave them.
LEMMA RequestUpdates ==
    \A r \in Request : Sound(r) =>
        /\ \A a \in {"clearing_all", "accepting", "collecting", "covering"} :
              Sound([r EXCEPT !.at = a])
        /\ Sound([r EXCEPT !.at = "clearing", !.full = FALSE])
        /\ \A p \in SUBSET Page, f \in BOOLEAN :
              p \subseteq PagesOfType(SourceType) =>
                  Sound([r EXCEPT !.at = "storing", !.links = {}, !.pages = p, !.failures = f])
        /\ \A s \in Ended :
              Sound([r EXCEPT !.at = "ending", !.pages = {}, !.failures = FALSE, !.result = s])
<1>. SUFFICES ASSUME NEW r \in Request, Sound(r)
              PROVE  /\ \A a \in {"clearing_all", "accepting", "collecting", "covering"} :
                           Sound([r EXCEPT !.at = a])
                     /\ Sound([r EXCEPT !.at = "clearing", !.full = FALSE])
                     /\ \A p \in SUBSET Page, f \in BOOLEAN :
                           p \subseteq PagesOfType(SourceType) =>
                               Sound([r EXCEPT !.at = "storing", !.links = {}, !.pages = p,
                                               !.failures = f])
                     /\ \A s \in Ended :
                           Sound([r EXCEPT !.at = "ending", !.pages = {},
                                           !.failures = FALSE, !.result = s])
    OBVIOUS
<1>1. ASSUME NEW a \in {"clearing_all", "accepting", "collecting", "covering"}
      PROVE  Sound([r EXCEPT !.at = a])
    BY DEF Request, Sound
<1>2. Sound([r EXCEPT !.at = "clearing", !.full = FALSE])
    BY DEF Request, Sound
<1>3. ASSUME NEW p \in SUBSET Page, NEW f \in BOOLEAN, p \subseteq PagesOfType(SourceType)
      PROVE  Sound([r EXCEPT !.at = "storing", !.links = {}, !.pages = p, !.failures = f])
    BY <1>3 DEF Request, Sound
<1>4. ASSUME NEW s \in Ended
      PROVE  Sound([r EXCEPT !.at = "ending", !.pages = {}, !.failures = FALSE, !.result = s])
    BY DEF Request, Sound
<1>. QED  BY <1>1, <1>2, <1>3, <1>4

LEMMA NoRequestIsSound ==
    /\ Sound(NoRequest) /\ NoRequest.at = "idle"
    /\ Sound([NoRequest EXCEPT !.at = "ending", !.result = "failed"])
    /\ \A f \in BOOLEAN, l \in SUBSET Link :
          Sound([NoRequest EXCEPT !.at = "checking", !.full = f, !.links = l])
BY DEF NoRequest, Request, Ended, Sound

\* What is noted of a request is an indexing.
LEMMA NoteKeepsType ==
    ASSUME last \in Indexing
    PROVE  /\ [last EXCEPT !.begun = TRUE] \in Indexing
           /\ [last EXCEPT !.cleared = TRUE] \in Indexing
           /\ [last EXCEPT !.ended = TRUE] \in Indexing
           /\ \A p \in SUBSET Page : [last EXCEPT !.pages = p] \in Indexing
           /\ \A c : Note(c) /\ c \in Indexing => last' \in Indexing
BY DEF Indexing, Note

\* The first state has the types.
LEMMA TypeInit ==
    Init => TypeInv
<1>. SUFFICES ASSUME Init PROVE TypeInv  OBVIOUS
<1>1. NoIndexing \in Indexing  BY DEF NoIndexing, Indexing
<1>2. req \in [Thread -> Request] /\ \A t \in Thread : Sound(req[t])
    BY NoRequestIsSound DEF Init, Sound
<1>. QED  BY <1>1, <1>2, IndexAssumption DEF Init, TypeInv, TypeOK

\* Every step keeps the types.
LEMMA TypeNext ==
    ASSUME TypeInv, [Next]_vars
    PROVE  TypeInv'
<1>0. TypeOK /\ \A t \in Thread : req[t] \in Request /\ Sound(req[t])
    BY DEF TypeInv, TypeOK
<1>1. CASE \E l \in Link : Register(l) \/ Unregister(l)
    BY <1>1 DEF Register, Unregister, TypeInv, TypeOK
<1>2. CASE \E t \in Thread, sent \in SUBSET Link : Ask(t, sent)
    <2>1. PICK t \in Thread, sent \in SUBSET Link : Ask(t, sent)  BY <1>2
    <2>. DEFINE chosen == IF sent = {} THEN registered ELSE sent
                r == [NoRequest EXCEPT !.at = "checking", !.full = (sent = {}),
                                       !.links = chosen]
    <2>2. chosen \in SUBSET Link  BY <1>0 DEF TypeOK
    <2>3. Sound(r)
        <3>. HIDE DEF chosen
        <3>. QED  BY <2>2, NoRequestIsSound
    <2>4. Goes(t, r)  BY <2>1 DEF Ask
    <2>. HIDE DEF r
    <2>5. req' \in [Thread -> Request] /\ \A u \in Thread : Sound(req'[u])
        BY <2>3, <2>4, GoesKeepsTypes
    <2>. QED  BY <2>1, <2>5 DEF Ask, TypeInv, TypeOK
<1>3. CASE \E t \in Thread : Refuse(t)
    <2>1. PICK t \in Thread : Refuse(t)  BY <1>3
    <2>2. req' \in [Thread -> Request] /\ \A u \in Thread : Sound(req'[u])
        BY <2>1, NoRequestIsSound, GoesKeepsTypes DEF Refuse
    <2>. QED  BY <2>1, <2>2 DEF Refuse, TypeInv, TypeOK
<1>4. CASE \E t \in Thread : Pass(t)
    <2>1. PICK t \in Thread : Pass(t)  BY <1>4
    <2>. DEFINE a == IF req[t].full THEN "clearing_all" ELSE "accepting"
    <2>2. Goes(t, [req[t] EXCEPT !.at = a]) /\ a \in {"clearing_all", "accepting"}
        BY <2>1 DEF Pass, GoesTo
    <2>. HIDE DEF a
    <2>a. Sound([req[t] EXCEPT !.at = a])  BY <2>2, <1>0, RequestUpdates
    <2>3. req' \in [Thread -> Request] /\ \A u \in Thread : Sound(req'[u])
        BY <2>2, <2>a, GoesKeepsTypes
    <2>4. last' \in Indexing
        BY <2>1, <1>0 DEF Pass, NoIndexing, Indexing, Request
    <2>5. passed' \in 0..MaxIndexings
        BY <2>1, <1>0, IndexAssumption DEF Pass, TypeOK
    <2>. QED  BY <2>1, <2>3, <2>4, <2>5 DEF Pass, TypeInv, TypeOK
<1>5. CASE \E t \in Thread : ClearAll(t)
    <2>1. PICK t \in Thread : ClearAll(t)  BY <1>5
    <2>2. req' \in [Thread -> Request] /\ \A u \in Thread : Sound(req'[u])
        BY <2>1, <1>0, RequestUpdates, NoRequestIsSound, GoesKeepsTypes
        DEF ClearAll, GoesTo, TypeInv
    <2>3. stored' \subseteq stored  BY <2>1 DEF ClearAll, AfterClearAll
    <2>. QED  BY <2>1, <2>2, <2>3 DEF ClearAll, TypeInv, TypeOK
<1>6. CASE \E t \in Thread : Accept(t)
    <2>1. PICK t \in Thread : Accept(t)  BY <1>6
    <2>2. req' \in [Thread -> Request] /\ \A u \in Thread : Sound(req'[u])
        BY <2>1, <1>0, RequestUpdates, GoesKeepsTypes DEF Accept, TypeInv
    <2>3. last' \in Indexing  BY <2>1, <1>0, NoteKeepsType DEF Accept, TypeOK
    <2>. QED  BY <2>1, <2>2, <2>3 DEF Accept, TypeInv, TypeOK
<1>7. ASSUME NEW t \in Thread, Raise(t) PROVE TypeInv'
    <2>1. req' \in [Thread -> Request] /\ \A u \in Thread : Sound(req'[u])
        BY <1>7, NoRequestIsSound, GoesKeepsTypes DEF Raise
    <2>. QED  BY <1>7, <2>1 DEF Raise, TypeInv, TypeOK
<1>8. CASE \E t \in Thread : Clear(t)
    <2>1. PICK t \in Thread : Clear(t)  BY <1>8
    <2>2. CASE Raise(t)  BY <2>2, <1>7
    <2>3. CASE ~Raise(t)
        <3>1. req' \in [Thread -> Request] /\ \A u \in Thread : Sound(req'[u])
            BY <2>1, <2>3, <1>0, RequestUpdates, GoesKeepsTypes DEF Clear, GoesTo, TypeInv
        <3>2. last' \in Indexing  BY <2>1, <2>3, <1>0, NoteKeepsType DEF Clear, TypeOK
        <3>3. stored' \subseteq stored  BY <2>1, <2>3 DEF Clear
        <3>. QED  BY <2>1, <2>3, <3>1, <3>2, <3>3 DEF Clear, TypeInv, TypeOK
    <2>. QED  BY <2>2, <2>3
<1>9. CASE \E t \in Thread : Collect(t)
    <2>1. PICK t \in Thread : Collect(t)  BY <1>9
    <2>2. PICK got \in SUBSET Reached(req[t].links), failed \in BOOLEAN :
              /\ Goes(t, [req[t] EXCEPT !.at = "storing", !.links = {}, !.pages = got,
                                        !.failures = failed])
              /\ Note([last EXCEPT !.pages = got])
        BY <2>1 DEF Collect
    <2>3. req[t].links \in SUBSET Link  BY <1>0 DEF Request
    <2>4. got \in SUBSET Page /\ got \subseteq PagesOfType(SourceType)
        BY <2>3, ReachedIsOfType
    <2>. DEFINE r == [req[t] EXCEPT !.at = "storing", !.links = {}, !.pages = got,
                                    !.failures = failed]
    <2>5. Sound(r)  BY <2>4, <1>0, RequestUpdates
    <2>. HIDE DEF r
    <2>6. req' \in [Thread -> Request] /\ \A u \in Thread : Sound(req'[u])
        BY <2>2, <2>4, <2>5, GoesKeepsTypes DEF r
    <2>7. last' \in Indexing  BY <2>2, <2>4, <1>0, NoteKeepsType DEF TypeOK
    <2>. QED  BY <2>1, <2>6, <2>7 DEF Collect, TypeInv, TypeOK
<1>10. CASE \E t \in Thread : Store(t)
    <2>1. PICK t \in Thread : Store(t)  BY <1>10
    <2>2. CASE Raise(t)  BY <2>2, <1>7
    <2>3. CASE ~Raise(t)
        <3>1. req' \in [Thread -> Request] /\ \A u \in Thread : Sound(req'[u])
            BY <2>1, <2>3, <1>0, RequestUpdates, GoesKeepsTypes DEF Store, GoesTo, TypeInv
        <3>2. stored' = stored \cup req[t].pages  BY <2>1, <2>3 DEF Store, Committed
        <3>3. req[t].pages \subseteq Page /\ req[t].pages \subseteq PagesOfType(SourceType)
            BY <1>0 DEF Request, Sound
        <3>. QED  BY <2>1, <2>3, <3>1, <3>2, <3>3 DEF Store, TypeInv, TypeOK
    <2>. QED  BY <2>2, <2>3
<1>11. CASE \E t \in Thread : Cover(t)
    <2>1. PICK t \in Thread : Cover(t)  BY <1>11
    <2>2. CASE Raise(t)  BY <2>2, <1>7
    <2>3. CASE ~Raise(t)
        <3>. DEFINE s == BuildStatus(t)
                    r == [req[t] EXCEPT !.at = "ending", !.pages = {}, !.failures = FALSE,
                                        !.result = s]
        <3>1. s \in Ended  BY DEF BuildStatus, Ended
        <3>2. Goes(t, r)  BY <2>1, <2>3 DEF Cover
        <3>. HIDE DEF s
        <3>3. Sound(r)  BY <3>1, <1>0, RequestUpdates
        <3>. HIDE DEF r
        <3>4. req' \in [Thread -> Request] /\ \A u \in Thread : Sound(req'[u])
            BY <3>2, <3>3, GoesKeepsTypes
        <3>. QED  BY <2>1, <2>3, <3>4 DEF Cover, TypeInv, TypeOK
    <2>. QED  BY <2>2, <2>3
<1>12. CASE \E t \in Thread : End(t)
    <2>1. PICK t \in Thread : End(t)  BY <1>12
    <2>2. req' \in [Thread -> Request] /\ \A u \in Thread : Sound(req'[u])
        BY <2>1, NoRequestIsSound, GoesKeepsTypes DEF End
    <2>3. last' \in Indexing  BY <2>1, <1>0, NoteKeepsType DEF End, TypeOK
    <2>4. status' \in Ended  BY <2>1, <1>0 DEF End, Report, Sound
    <2>. QED  BY <2>1, <2>2, <2>3, <2>4 DEF End, TypeInv, TypeOK
<1>13. CASE Restart
    <2>1. req' \in [Thread -> Request] /\ \A u \in Thread : Sound(req'[u])
        BY <1>13, NoRequestIsSound DEF Restart, Sound
    <2>. QED  BY <1>13, <2>1 DEF Restart, TypeInv, TypeOK
<1>14. CASE UNCHANGED vars
    BY <1>14 DEF vars, TypeInv, TypeOK
<1>. QED
    BY <1>1, <1>2, <1>3, <1>4, <1>5, <1>6, <1>8, <1>9, <1>10, <1>11, <1>12, <1>13, <1>14
    DEF Next, Runs

\* The variables keep their types, and what is stored was reached from links.
THEOREM TypeInvariance == Spec => []TypeInv
BY TypeInit, TypeNext, PTL DEF Spec

THEOREM TypeCorrect == Spec => []TypeOK
<1>1. TypeInv => TypeOK  BY DEF TypeInv
<1>. QED  BY <1>1, TypeInvariance, PTL

---------------------------------------------------------------------------
(* What an indexing that no other overlaps leaves behind *)

\* What such an indexing clears before it stores.
Sources == PagesOfType(TypesOf(last.links))

\* How far the indexing of thread t is, what it still knows and what is stored of it.
OnTheWay(t) ==
    /\ ~last.ended
    /\ req[t].at \in {"clearing_all", "accepting"} =>
          ~last.begun /\ ~last.cleared /\ req[t].full = last.full
    /\ req[t].at = "accepting" /\ last.full => stored = {}
    /\ req[t].at \in {"clearing_all", "accepting", "clearing", "collecting"} =>
          req[t].links = last.links
    /\ req[t].at \in {"collecting", "storing"} => stored \cap Sources = {}
    /\ req[t].at \in {"storing", "covering"} => req[t].pages = last.pages
    /\ req[t].at = "covering" => last.pages \subseteq stored
    /\ req[t].at = "ending" /\ req[t].result \in {"success", "partial_failed"} =>
          last.pages # {} /\ last.pages \subseteq stored

\* What holds whether it is still on the way, has ended or was ended by a restart.
Left ==
    /\ last.pages \subseteq Reached(last.links)
    /\ AllOrNothing /\ DeletedIsForgotten /\ ResultIsTrue

IndexInv ==
    last.alone => /\ \A t, u \in UnderWay : t = u
                  /\ \A t \in UnderWay : OnTheWay(t)
                  /\ Left

\* Steps of requests that are not past the checks, or are given up.
LEMMA OutsideKeeps ==
    ASSUME IndexInv, UNCHANGED <<stored, last>>, status' \in {status, "idle"},
           \A t \in Thread : \/ req'[t] = req[t]
                             \/ req'[t].at \in {"idle", "checking"}
    PROVE  IndexInv'
<1>. SUFFICES ASSUME last.alone PROVE IndexInv'  BY DEF IndexInv
<1>1. UnderWay' \subseteq UnderWay /\ \A t \in UnderWay' : req'[t] = req[t]
    BY DEF UnderWay
<1>2. \A t \in UnderWay' : OnTheWay(t)'
    BY <1>1 DEF IndexInv, OnTheWay, Sources
<1>3. Left'
    BY DEF IndexInv, Left, AllOrNothing, DeletedIsForgotten, ResultIsTrue
<1>. QED  BY <1>1, <1>2, <1>3 DEF IndexInv

\* A step of the one thread that is past the checks.
LEMMA AloneGoesOn ==
    ASSUME IndexInv, last.alone, NEW t \in UnderWay,
           \A u \in Thread : u # t => req'[u] = req[u],
           req'[t].at \in {"idle", "checking"} \/ OnTheWay(t)', Left'
    PROVE  IndexInv'
<1>1. \A u \in UnderWay : u = t  BY DEF IndexInv
<1>2. \A u \in UnderWay' : u = t  BY <1>1 DEF UnderWay
<1>3. \A u \in UnderWay' : OnTheWay(u)'  BY <1>2 DEF UnderWay
<1>. QED  BY <1>2, <1>3 DEF IndexInv

\* At the start no request passed.
LEMMA IndexInit ==
    Init => IndexInv
BY DEF Init, NoIndexing, IndexInv

\* Every step keeps it.
LEMMA IndexNext ==
    ASSUME TypeInv, IndexInv, [Next]_vars
    PROVE  IndexInv'
<1>0. /\ TypeOK /\ \A t \in Thread : req[t] \in Request /\ Sound(req[t])
      /\ last \in Indexing /\ req \in [Thread -> Request]
    BY DEF TypeInv, TypeOK
<1>a. ASSUME NEW t \in Thread, NEW r, Goes(t, r)
      PROVE  req'[t] = r /\ \A u \in Thread : u # t => req'[u] = req[u]
    BY <1>0, <1>a DEF Goes
<1>b. ASSUME ~last.alone, last' = last PROVE IndexInv'
    BY <1>b DEF IndexInv
<1>1. CASE \/ \E l \in Link : Register(l) \/ Unregister(l)
           \/ UNCHANGED vars
    BY <1>1, OutsideKeeps DEF Register, Unregister, vars
<1>2. CASE \E t \in Thread, sent \in SUBSET Link : Ask(t, sent)
    <2>1. PICK t \in Thread, sent \in SUBSET Link : Ask(t, sent)  BY <1>2
    <2>. DEFINE r == [NoRequest EXCEPT !.at = "checking", !.full = (sent = {}),
                          !.links = IF sent = {} THEN registered ELSE sent]
    <2>2. Goes(t, r) /\ UNCHANGED <<stored, last, status>>  BY <2>1 DEF Ask
    <2>3. r.at = "checking"  BY DEF NoRequest
    <2>. HIDE DEF r
    <2>. QED  BY <2>2, <2>3, <1>a, OutsideKeeps
<1>3. CASE \E t \in Thread : Refuse(t)
    <2>1. PICK t \in Thread : Refuse(t)  BY <1>3
    <2>2. Goes(t, NoRequest) /\ UNCHANGED <<stored, last, status>>  BY <2>1 DEF Refuse
    <2>. QED  BY <2>2, <1>a, NoRequestIsSound, OutsideKeeps
<1>4. CASE \E t \in Thread : Pass(t)
    <2>1. PICK t \in Thread : Pass(t)  BY <1>4
    <2>. DEFINE l == [NoIndexing EXCEPT !.alone = TRUE, !.full = req[t].full,
                                        !.links = req[t].links]
                a == IF req[t].full THEN "clearing_all" ELSE "accepting"
                r == [req[t] EXCEPT !.at = a]
    <2>2. CASE UnderWay # {}
        BY <2>1, <2>2 DEF Pass, NoIndexing, IndexInv
    <2>3. CASE UnderWay = {}
        <3>1. last' = l /\ Goes(t, r) /\ UNCHANGED <<stored, status>>
            BY <2>1, <2>3 DEF Pass, GoesTo
        <3>2. /\ l.full = req[t].full /\ l.links = req[t].links /\ l.pages = {}
              /\ l.begun = FALSE /\ l.cleared = FALSE /\ l.ended = FALSE
            BY DEF NoIndexing
        <3>3. /\ r.at = a /\ r.full = req[t].full /\ r.links = req[t].links
              /\ a \in {"clearing_all", "accepting"}
              /\ a = "accepting" => ~req[t].full
            BY <1>0 DEF Request
        <3>. HIDE DEF l, a, r
        <3>4. req'[t] = r /\ \A u \in Thread : u # t => req'[u] = req[u]
            BY <3>1, <1>a
        <3>5. \A u \in UnderWay' : u = t
            BY <2>3, <3>4 DEF UnderWay
        <3>6. OnTheWay(t)'
            BY <3>1, <3>2, <3>3, <3>4 DEF OnTheWay
        <3>7. Left'
            BY <3>1, <3>2 DEF Left, AllOrNothing, DeletedIsForgotten, ResultIsTrue
        <3>. QED  BY <3>5, <3>6, <3>7 DEF IndexInv
    <2>. QED  BY <2>2, <2>3
<1>5. CASE \E t \in Thread : ClearAll(t)
    <2>1. PICK t \in Thread : ClearAll(t)  BY <1>5
    <2>2. last' = last /\ status' = status /\ t \in UnderWay /\ req[t].at = "clearing_all"
        BY <2>1 DEF ClearAll, UnderWay
    <2>3. CASE UNCHANGED stored /\ Goes(t, NoRequest)
        BY <2>2, <2>3, <1>a, NoRequestIsSound, OutsideKeeps
    <2>4. CASE stored' = AfterClearAll(t) /\ GoesTo(t, "accepting")
        <3>. SUFFICES ASSUME last.alone PROVE IndexInv'  BY <2>2, <1>b
        <3>. DEFINE r == [req[t] EXCEPT !.at = "accepting"]
        <3>1. r.at = "accepting" /\ r.full = req[t].full /\ r.links = req[t].links
            BY <1>0 DEF Request
        <3>2. Goes(t, r)  BY <2>4 DEF GoesTo
        <3>. HIDE DEF r
        <3>3. req'[t] = r /\ \A u \in Thread : u # t => req'[u] = req[u]
            BY <3>2, <1>a
        <3>4. stored' = {}  BY <2>4 DEF AfterClearAll, TypeInv
        <3>5. OnTheWay(t) /\ Left  BY <2>2 DEF IndexInv
        <3>6. OnTheWay(t)'
            BY <2>2, <3>1, <3>3, <3>4, <3>5 DEF OnTheWay
        <3>7. Left'
            BY <2>2, <3>4, <3>5
            DEF OnTheWay, Left, AllOrNothing, DeletedIsForgotten, ResultIsTrue
        <3>. QED  BY <2>2, <3>3, <3>6, <3>7, AloneGoesOn
    <2>. QED  BY <2>1, <2>3, <2>4 DEF ClearAll
<1>6. CASE \E t \in Thread : Accept(t)
    <2>1. PICK t \in Thread : Accept(t)  BY <1>6
    <2>2. CASE ~last.alone  BY <2>1, <2>2, <1>b DEF Accept, Note
    <2>3. CASE last.alone
        <3>. DEFINE r == [req[t] EXCEPT !.at = "clearing", !.full = FALSE]
        <3>1. r.at = "clearing" /\ r.links = req[t].links  BY <1>0 DEF Request
        <3>2. /\ Goes(t, r) /\ t \in UnderWay /\ req[t].at = "accepting"
              /\ stored' = stored /\ status' = "running"
              /\ last' = [last EXCEPT !.begun = TRUE]
            BY <2>1, <2>3 DEF Accept, UnderWay, Note
        <3>3. /\ last'.alone = last.alone /\ last'.full = last.full
              /\ last'.links = last.links /\ last'.pages = last.pages
              /\ last'.cleared = last.cleared /\ last'.ended = last.ended
            BY <3>2, <1>0 DEF Indexing
        <3>. HIDE DEF r
        <3>4. req'[t] = r /\ \A u \in Thread : u # t => req'[u] = req[u]
            BY <3>2, <1>a
        <3>5. OnTheWay(t) /\ Left  BY <3>2, <2>3 DEF IndexInv
        <3>6. OnTheWay(t)'
            BY <3>1, <3>2, <3>3, <3>4, <3>5 DEF OnTheWay
        <3>7. Left'
            BY <3>2, <3>3, <3>5
            DEF OnTheWay, Left, AllOrNothing, DeletedIsForgotten, ResultIsTrue
        <3>. QED  BY <2>3, <3>2, <3>4, <3>6, <3>7, AloneGoesOn
    <2>. QED  BY <2>2, <2>3
<1>7. ASSUME NEW t \in Thread, t \in UnderWay, Raise(t),
             req[t].at \notin {"clearing_all", "accepting"}
      PROVE  IndexInv'
    <2>. DEFINE r == [NoRequest EXCEPT !.at = "ending", !.result = "failed"]
    <2>1. r.at = "ending" /\ r.result = "failed"  BY DEF NoRequest
    <2>2. Goes(t, r) /\ UNCHANGED <<stored, last, status>>  BY <1>7 DEF Raise
    <2>. HIDE DEF r
    <2>3. req'[t] = r /\ \A u \in Thread : u # t => req'[u] = req[u]
        BY <2>2, <1>a
    <2>4. CASE ~last.alone  BY <2>2, <2>4, <1>b
    <2>5. CASE last.alone
        <3>1. OnTheWay(t) /\ Left  BY <1>7, <2>5 DEF IndexInv
        <3>2. OnTheWay(t)'  BY <2>1, <2>2, <2>3, <3>1 DEF OnTheWay
        <3>3. Left'
            BY <2>2, <3>1 DEF Left, AllOrNothing, DeletedIsForgotten, ResultIsTrue
        <3>. QED  BY <1>7, <2>3, <2>5, <3>2, <3>3, AloneGoesOn
    <2>. QED  BY <2>4, <2>5
<1>8. CASE \E t \in Thread : Clear(t)
    <2>1. PICK t \in Thread : Clear(t)  BY <1>8
    <2>0. t \in UnderWay /\ req[t].at = "clearing"  BY <2>1 DEF Clear, UnderWay
    <2>2. CASE Raise(t)  BY <2>0, <2>2, <1>7
    <2>3. CASE ~last.alone /\ ~Raise(t)  BY <2>1, <2>3, <1>b DEF Clear, Note
    <2>4. CASE last.alone /\ ~Raise(t)
        <3>. DEFINE r == [req[t] EXCEPT !.at = "collecting"]
        <3>1. r.at = "collecting" /\ r.links = req[t].links  BY <1>0 DEF Request
        <3>2. /\ stored' = stored \ PagesOfType(TypesOf(req[t].links))
              /\ Goes(t, r) /\ last' = [last EXCEPT !.cleared = TRUE] /\ status' = status
            BY <2>1, <2>4 DEF Clear, GoesTo, Note
        <3>3. /\ last'.alone = last.alone /\ last'.full = last.full
              /\ last'.links = last.links /\ last'.pages = last.pages
              /\ last'.begun = last.begun /\ last'.ended = last.ended
            BY <3>2, <1>0 DEF Indexing
        <3>. HIDE DEF r
        <3>4. req'[t] = r /\ \A u \in Thread : u # t => req'[u] = req[u]
            BY <3>2, <1>a
        <3>5. OnTheWay(t) /\ Left  BY <2>0, <2>4 DEF IndexInv
        <3>6. stored' = stored \ Sources /\ Sources' = Sources
            BY <2>0, <3>2, <3>3, <3>5 DEF OnTheWay, Sources
        <3>7. OnTheWay(t)'
            BY <3>1, <3>3, <3>4, <3>5, <3>6, <2>0 DEF OnTheWay
        <3>8. AllOrNothing'
            BY <3>6 DEF AllOrNothing, Sources
        <3>9. Left'
            BY <3>3, <3>5, <3>6, <3>8 DEF OnTheWay, Left, DeletedIsForgotten, ResultIsTrue
        <3>. QED  BY <2>0, <2>4, <3>4, <3>7, <3>9, AloneGoesOn
    <2>. QED  BY <2>2, <2>3, <2>4
<1>9. CASE \E t \in Thread : Collect(t)
    <2>1. PICK t \in Thread : Collect(t)  BY <1>9
    <2>2. PICK got \in SUBSET Reached(req[t].links), failed \in BOOLEAN :
              /\ Goes(t, [req[t] EXCEPT !.at = "storing", !.links = {}, !.pages = got,
                                        !.failures = failed])
              /\ Note([last EXCEPT !.pages = got])
        BY <2>1 DEF Collect
    <2>3. /\ t \in UnderWay /\ req[t].at = "collecting" /\ UNCHANGED <<stored, status>>
        BY <2>1 DEF Collect, UnderWay
    <2>4. CASE ~last.alone  BY <2>2, <2>4, <1>b DEF Note
    <2>5. CASE last.alone
        <3>. DEFINE r == [req[t] EXCEPT !.at = "storing", !.links = {}, !.pages = got,
                                        !.failures = failed]
        <3>1. r.at = "storing" /\ r.pages = got  BY <1>0 DEF Request
        <3>2. Goes(t, r) /\ last' = [last EXCEPT !.pages = got]
            BY <2>2, <2>5 DEF Note
        <3>3. /\ last'.alone = last.alone /\ last'.full = last.full
              /\ last'.links = last.links /\ last'.pages = got
              /\ last'.begun = last.begun /\ last'.ended = last.ended
              /\ last'.cleared = last.cleared
            BY <3>2, <1>0 DEF Indexing
        <3>. HIDE DEF r
        <3>4. req'[t] = r /\ \A u \in Thread : u # t => req'[u] = req[u]
            BY <3>2, <1>a
        <3>5. OnTheWay(t) /\ Left  BY <2>3, <2>5 DEF IndexInv
        <3>6. /\ got \subseteq Reached(last.links) /\ stored \cap Sources = {}
              /\ Sources' = Sources
            BY <2>2, <2>3, <3>3, <3>5 DEF OnTheWay, Sources
        <3>7. OnTheWay(t)'
            BY <2>3, <3>1, <3>3, <3>4, <3>5, <3>6 DEF OnTheWay
        <3>8. AllOrNothing'
            BY <2>3, <3>6 DEF AllOrNothing, Sources
        <3>9. Left'
            BY <2>3, <3>3, <3>5, <3>6, <3>8
            DEF OnTheWay, Left, DeletedIsForgotten, ResultIsTrue
        <3>. QED  BY <2>3, <2>5, <3>4, <3>7, <3>9, AloneGoesOn
    <2>. QED  BY <2>4, <2>5
<1>10. CASE \E t \in Thread : Store(t)
    <2>1. PICK t \in Thread : Store(t)  BY <1>10
    <2>0. t \in UnderWay /\ req[t].at = "storing"  BY <2>1 DEF Store, UnderWay
    <2>2. CASE Raise(t)  BY <2>0, <2>2, <1>7
    <2>3. CASE ~last.alone /\ ~Raise(t)  BY <2>1, <2>3, <1>b DEF Store
    <2>4. CASE last.alone /\ ~Raise(t)
        <3>. DEFINE r == [req[t] EXCEPT !.at = "covering"]
        <3>1. r.at = "covering" /\ r.pages = req[t].pages  BY <1>0 DEF Request
        <3>2. /\ stored' = stored \cup req[t].pages
              /\ Goes(t, r) /\ UNCHANGED <<last, status>>
            BY <2>1, <2>4 DEF Store, Committed, GoesTo
        <3>. HIDE DEF r
        <3>3. req'[t] = r /\ \A u \in Thread : u # t => req'[u] = req[u]
            BY <3>2, <1>a
        <3>4. OnTheWay(t) /\ Left  BY <2>0, <2>4 DEF IndexInv
        <3>5. stored' = stored \cup last.pages /\ stored \cap Sources = {}
            BY <2>0, <3>2, <3>4 DEF OnTheWay
        <3>6. last.pages \subseteq Sources /\ last.pages \subseteq Reached(last.links)
            <4>1. last.links \in SUBSET Link  BY <1>0 DEF Indexing
            <4>. QED  BY <4>1, <3>4, ReachedIsOfType DEF Left, Sources
        <3>7. OnTheWay(t)'
            BY <2>0, <3>1, <3>2, <3>3, <3>4, <3>5 DEF OnTheWay
        <3>8. AllOrNothing'
            <4>1. (stored \cup last.pages) \cap Sources = last.pages  BY <3>5, <3>6
            <4>. QED  BY <4>1, <3>2, <3>5 DEF AllOrNothing, Sources
        <3>9. Left'
            BY <3>2, <3>4, <3>5, <3>6, <3>8
            DEF OnTheWay, Left, DeletedIsForgotten, ResultIsTrue
        <3>. QED  BY <2>0, <2>4, <3>3, <3>7, <3>9, AloneGoesOn
    <2>. QED  BY <2>2, <2>3, <2>4
<1>11. CASE \E t \in Thread : Cover(t)
    <2>1. PICK t \in Thread : Cover(t)  BY <1>11
    <2>0. t \in UnderWay /\ req[t].at = "covering"  BY <2>1 DEF Cover, UnderWay
    <2>2. CASE Raise(t)  BY <2>0, <2>2, <1>7
    <2>3. CASE ~last.alone /\ ~Raise(t)  BY <2>1, <2>3, <1>b DEF Cover
    <2>4. CASE last.alone /\ ~Raise(t)
        <3>. DEFINE s == BuildStatus(t)
                    r == [req[t] EXCEPT !.at = "ending", !.pages = {}, !.failures = FALSE,
                                        !.result = s]
        <3>1. Goes(t, r) /\ UNCHANGED <<stored, last, status>>
            BY <2>1, <2>4 DEF Cover
        <3>2. s \in {"success", "partial_failed"} => req[t].pages # {}
            BY DEF BuildStatus
        <3>. HIDE DEF s
        <3>3. r.at = "ending" /\ r.result = s  BY <1>0 DEF Request
        <3>. HIDE DEF r
        <3>4. req'[t] = r /\ \A u \in Thread : u # t => req'[u] = req[u]
            BY <3>1, <1>a
        <3>5. OnTheWay(t) /\ Left  BY <2>0, <2>4 DEF IndexInv
        <3>6. OnTheWay(t)'
            BY <2>0, <3>1, <3>2, <3>3, <3>4, <3>5 DEF OnTheWay
        <3>7. Left'
            BY <3>1, <3>5 DEF Left, AllOrNothing, DeletedIsForgotten, ResultIsTrue
        <3>. QED  BY <2>0, <2>4, <3>4, <3>6, <3>7, AloneGoesOn
    <2>. QED  BY <2>2, <2>3, <2>4
<1>12. CASE \E t \in Thread : End(t)
    <2>1. PICK t \in Thread : End(t)  BY <1>12
    <2>2. /\ t \in UnderWay /\ req[t].at = "ending" /\ stored' = stored
          /\ status' = req[t].result /\ Goes(t, NoRequest)
        BY <2>1 DEF End, UnderWay, Report
    <2>3. req'[t] = NoRequest /\ \A u \in Thread : u # t => req'[u] = req[u]
        BY <2>2, <1>a
    <2>4. CASE ~last.alone  BY <2>1, <2>4, <1>b DEF End, Note
    <2>5. CASE last.alone
        <3>1. last' = [last EXCEPT !.ended = TRUE]  BY <2>1, <2>5 DEF End, Note
        <3>2. /\ last'.alone = last.alone /\ last'.full = last.full
              /\ last'.links = last.links /\ last'.pages = last.pages
              /\ last'.begun = last.begun /\ last'.cleared = last.cleared
            BY <3>1, <1>0 DEF Indexing
        <3>3. OnTheWay(t) /\ Left  BY <2>2, <2>5 DEF IndexInv
        <3>4. Left'
            BY <2>2, <3>2, <3>3
            DEF OnTheWay, Left, AllOrNothing, DeletedIsForgotten, ResultIsTrue
        <3>. QED  BY <2>2, <2>3, <2>5, <3>4, NoRequestIsSound, AloneGoesOn
    <2>. QED  BY <2>4, <2>5
<1>13. CASE Restart
    <2>1. \A t \in Thread : req'[t].at = "idle"
        BY <1>13, NoRequestIsSound DEF Restart
    <2>. QED  BY <1>13, <2>1, OutsideKeeps DEF Restart
<1>. QED
    BY <1>1, <1>2, <1>3, <1>4, <1>5, <1>6, <1>8, <1>9, <1>10, <1>11, <1>12, <1>13
    DEF Next, Runs

LEMMA IndexInvariance == Spec => []IndexInv
BY TypeInvariance, IndexInit, IndexNext, PTL DEF Spec

\* Wherever an indexing that no other overlaps fails, or the process ends, it leaves of its
\* sources all that it collected or nothing: no part of it, no rest of before.
THEOREM AllOrNothingHolds == Spec => []AllOrNothing
<1>1. IndexInv => AllOrNothing  BY DEF IndexInv, Left, AllOrNothing
<1>. QED  BY <1>1, IndexInvariance, PTL

\* Once a request to index all links is accepted there is no evidence of links deleted
\* before, unless another request overlaps it.
THEOREM DeletedIsForgottenHolds == Spec => []DeletedIsForgotten
<1>1. IndexInv => DeletedIsForgotten  BY DEF IndexInv, Left, DeletedIsForgotten
<1>. QED  BY <1>1, IndexInvariance, PTL

\* The success an indexing that no other overlaps reports is that of what is stored.
THEOREM ResultIsTrueHolds == Spec => []ResultIsTrue
<1>1. IndexInv => ResultIsTrue  BY DEF IndexInv, Left, ResultIsTrue
<1>. QED  BY <1>1, IndexInvariance, PTL

---------------------------------------------------------------------------
(* Induction, and functions defined by recursion *)

Less == {ss \in Nat \X Nat : ss[1] < ss[2]}

\* A set with 0 and the successor of each of its members has all the naturals.
LEMMA Induction ==
    ASSUME NEW S, 0 \in S, \A n \in Nat : n \in S => n + 1 \in S
    PROVE  \A n \in Nat : n \in S
  <1>1. IsWellFoundedOn(Less, Nat)
    BY NatLessThanWellFounded DEF OpToRel, Less
  <1> DEFINE T == Nat \ S
  <1>2. T \subseteq Nat
    OBVIOUS
  <1>3. T = {} \/ \E x \in T : \A y \in T : <<y, x>> \notin Less
    <2> HIDE DEF T
    <2> QED BY <1>1, <1>2, WFMin
  <1>4. ASSUME NEW x \in T, \A y \in T : <<y, x>> \notin Less
        PROVE  FALSE
    <2>1. \A y \in T : ~ (y < x)
      BY <1>4 DEF Less
    <2>2. x # 0 /\ x - 1 \in Nat
      OBVIOUS
    <2>3. x - 1 \in S
      BY <2>1, <2>2
    <2> QED BY <2>2, <2>3
  <1> QED BY <1>3, <1>4

\* The same up to a bound.
LEMMA BoundedInduction ==
    ASSUME NEW N \in Nat, NEW S, 0 \in S, \A n \in 0..N : n < N /\ n \in S => n + 1 \in S
    PROVE  \A n \in 0..N : n \in S
  <1> DEFINE T == S \cup {n \in Nat : n > N}
  <1>1. 0 \in T
    OBVIOUS
  <1>2. ASSUME NEW n \in Nat, n \in T
        PROVE  n + 1 \in T
    <2>1. CASE n < N
      <3>1. n \in S /\ n \in 0..N
        BY <1>2, <2>1
      <3> QED BY <2>1, <3>1
    <2>2. CASE n >= N
      BY <2>2
    <2> QED BY <2>1, <2>2
  <1> HIDE DEF T
  <1>3. \A n \in Nat : n \in T
    BY <1>1, <1>2, Induction
  <1> QED BY <1>3 DEF T

\* f starts at base and goes on by go from one member of D to the next.
Follows(f, N, D, base, go) ==
    /\ f[0] = base
    /\ \A n \in 1..N : f[n] = go[n][f[n - 1]]
    /\ \A n \in 0..N : f[n] \in D

\* There is such a function.
LEMMA Recursion ==
    ASSUME NEW N \in Nat, NEW D, NEW base \in D,
           NEW go, \A n \in 1..N : \A d \in D : go[n][d] \in D
    PROVE  \E f : Follows(f, N, D, base, go)
<1>. DEFINE Fits(f, m) == /\ f[0] = base
                          /\ \A n \in 1..m : f[n] = go[n][f[n - 1]]
                          /\ \A n \in 0..m : f[n] \in D
            S == {m \in 0..N : \E f : Fits(f, m)}
<1>1. 0 \in S
    <2>1. \A n \in 0..0 : n = 0  OBVIOUS
    <2>2. 1..0 = {}  OBVIOUS
    <2>. DEFINE g == [n \in {0} |-> base]
    <2>3. g[0] = base  OBVIOUS
    <2>. HIDE DEF g
    <2>4. Fits(g, 0)  BY <2>1, <2>2, <2>3
    <2>. QED  BY <2>4
<1>2. ASSUME NEW m \in 0..N, m < N, m \in S
      PROVE  m + 1 \in S
    <2>1. PICK f : Fits(f, m)  BY <1>2
    <2>. DEFINE g == [n \in 0..(m + 1) |-> IF n = m + 1 THEN go[m + 1][f[m]] ELSE f[n]]
    <2>2. m + 1 \in 1..N /\ m \in 0..m /\ m + 1 \in 0..(m + 1)  BY <1>2
    <2>3. f[m] \in D  BY <2>1, <2>2
    <2>4. go[m + 1][f[m]] \in D  BY <2>2, <2>3
    <2>5. ASSUME NEW n \in 0..m PROVE g[n] = f[n]  BY <1>2
    <2>6. g[m + 1] = go[m + 1][f[m]]  BY <2>2
    <2>. HIDE DEF g
    <2>7. g[0] = base  BY <1>2, <2>1, <2>5
    <2>8. ASSUME NEW n \in 1..(m + 1) PROVE g[n] = go[n][g[n - 1]]
        <3>1. CASE n = m + 1  BY <3>1, <2>2, <2>5, <2>6
        <3>2. CASE n # m + 1
            <4>1. n \in 1..m /\ n \in 0..m /\ n - 1 \in 0..m  BY <3>2
            <4>. QED  BY <4>1, <2>1, <2>5
        <3>. QED  BY <3>1, <3>2
    <2>9. ASSUME NEW n \in 0..(m + 1) PROVE g[n] \in D
        <3>1. CASE n = m + 1  BY <3>1, <2>4, <2>6
        <3>2. CASE n # m + 1
            <4>1. n \in 0..m  BY <3>2
            <4>. QED  BY <4>1, <2>1, <2>5
        <3>. QED  BY <3>1, <3>2
    <2>10. Fits(g, m + 1)  BY <2>7, <2>8, <2>9
    <2>. QED  BY <1>2, <2>10
<1>3. N \in S
    <2>. HIDE DEF S
    <2>1. \A m \in 0..N : m \in S  BY <1>1, <1>2, BoundedInduction
    <2>. QED  BY <2>1
<1>. QED  BY <1>3 DEF Follows

---------------------------------------------------------------------------
(* What of a sequence is not in a set *)

\* f goes through s and keeps what is not in D.
Keeps(f, S, s, D) ==
    /\ f[0] = <<>>
    /\ \A n \in 1..Len(s) : f[n] = IF s[n] \in D THEN f[n - 1] ELSE Append(f[n - 1], s[n])
    /\ \A n \in 0..Len(s) : f[n] \in Seq(S)
    /\ Without(s, D) = f[Len(s)]

\* Without does.
LEMMA WithoutSteps ==
    ASSUME NEW S, NEW s \in Seq(S), NEW D
    PROVE  \E f : Keeps(f, S, s, D)
<1>. DEFINE N == Len(s)
            Adds(n, d) == IF s[n] \in D THEN d ELSE Append(d, s[n])
            go == [n \in 1..N |-> [d \in Seq(S) |-> Adds(n, d)]]
            Rec(f) == f = [n \in 0..N |-> IF n = 0 THEN <<>>
                                          ELSE IF s[n] \in D THEN f[n - 1]
                                               ELSE Append(f[n - 1], s[n])]
<1>1. N \in Nat /\ \A n \in 1..N : s[n] \in S  OBVIOUS
<1>2. ASSUME NEW n \in 1..N, NEW d \in Seq(S)
      PROVE  Adds(n, d) \in Seq(S) /\ go[n][d] = Adds(n, d)
    <2>1. s[n] \in S  BY <1>1
    <2>. QED  BY <2>1
<1>. HIDE DEF N, go, Adds
<1>3. PICK f : /\ f[0] = <<>>
               /\ \A n \in 1..N : f[n] = go[n][f[n - 1]]
               /\ \A n \in 0..N : f[n] \in Seq(S)
    <2>1. <<>> \in Seq(S)  OBVIOUS
    <2>2. \A n \in 1..N : \A d \in Seq(S) : go[n][d] \in Seq(S)  BY <1>2
    <2>. DEFINE Q == Seq(S)
                none == <<>>
    <2>3. none \in Q /\ \A n \in 1..N : \A d \in Q : go[n][d] \in Q  BY <2>1, <2>2
    <2>. HIDE DEF Q, none
    <2>4. \E h : Follows(h, N, Q, none, go)
        BY <1>1, <2>3, Recursion
    <2>. QED  BY <2>4 DEF Follows, Q, none
<1>4. ASSUME NEW n \in 1..N PROVE n - 1 \in 0..N /\ n \in 0..N  BY <1>1
<1>5. \A n \in 1..N : f[n] = Adds(n, f[n - 1])  BY <1>2, <1>3, <1>4
<1>. DEFINE g == [n \in 0..N |-> f[n]]
<1>6. Rec(g)
    <2>1. ASSUME NEW n \in 0..N
          PROVE  f[n] = IF n = 0 THEN <<>>
                        ELSE IF s[n] \in D THEN g[n - 1] ELSE Append(g[n - 1], s[n])
        <3>1. CASE n = 0  BY <3>1, <1>3
        <3>2. CASE n # 0
            <4>1. n \in 1..N  BY <1>1, <3>2
            <4>2. g[n - 1] = f[n - 1]  BY <4>1, <1>4
            <4>. QED  BY <4>1, <4>2, <3>2, <1>5 DEF Adds
        <3>. QED  BY <3>1, <3>2
    <2>. QED  BY <2>1
<1>. HIDE DEF g
<1>. DEFINE c == CHOOSE h : Rec(h)
<1>7. Rec(c)  BY <1>6
<1>8. Without(s, D) = c[N]  BY DEF Without, N
<1>. HIDE DEF c
<1>9. /\ c[0] = <<>>
      /\ \A n \in 1..N : c[n] = IF s[n] \in D THEN c[n - 1] ELSE Append(c[n - 1], s[n])
    <2>1. 0 \in 0..N /\ \A n \in 1..N : n \in 0..N /\ n # 0  BY <1>1
    <2>2. \A n \in 0..N : c[n] = IF n = 0 THEN <<>>
                                 ELSE IF s[n] \in D THEN c[n - 1]
                                      ELSE Append(c[n - 1], s[n])
        BY <1>7
    <2>. QED  BY <2>1, <2>2
<1>10. \A n \in 0..N : c[n] \in Seq(S)
    <2>. DEFINE T == {n \in 0..N : c[n] \in Seq(S)}
    <2>1. 0 \in T
        <3>1. <<>> \in Seq(S) /\ 0 \in 0..N  BY <1>1
        <3>. QED  BY <3>1, <1>9
    <2>2. ASSUME NEW n \in 0..N, n < N, n \in T PROVE n + 1 \in T
        <3>1. n + 1 \in 1..N /\ n + 1 \in 0..N /\ (n + 1) - 1 = n  BY <1>1, <2>2
        <3>2. c[n + 1] = Adds(n + 1, c[n])  BY <3>1, <1>9 DEF Adds
        <3>. QED  BY <3>1, <3>2, <2>2, <1>2
    <2>. HIDE DEF T
    <2>3. \A n \in 0..N : n \in T  BY <1>1, <2>1, <2>2, BoundedInduction
    <2>. QED  BY <2>3 DEF T
<1>. QED  BY <1>8, <1>9, <1>10 DEF N, Keeps

\* It keeps the rest: what each element adds.
LEMMA WithoutType ==
    ASSUME NEW S, NEW s \in Seq(S), NEW D
    PROVE  Without(s, D) \in Seq(S)
<1>1. PICK f : Keeps(f, S, s, D)  BY WithoutSteps
<1>2. Len(s) \in 0..Len(s)  OBVIOUS
<1>. QED  BY <1>1, <1>2 DEF Keeps

LEMMA WithoutEmpty ==
    ASSUME NEW D
    PROVE  Without(<<>>, D) = <<>>
<1>1. <<>> \in Seq({}) /\ Len(<<>>) = 0  OBVIOUS
<1>2. PICK f : Keeps(f, {}, <<>>, D)  BY <1>1, WithoutSteps
<1>. QED  BY <1>1, <1>2 DEF Keeps

LEMMA WithoutAppend ==
    ASSUME NEW S, NEW s \in Seq(S), NEW D, NEW x \in S
    PROVE  Without(Append(s, x), D) = IF x \in D THEN Without(s, D)
                                      ELSE Append(Without(s, D), x)
<1>. DEFINE N == Len(s)
            t == Append(s, x)
<1>1. /\ N \in Nat /\ t \in Seq(S) /\ Len(t) = N + 1
      /\ t[N + 1] = x /\ \A n \in 1..N : t[n] = s[n]
    OBVIOUS
<1>2. PICK f : /\ f[0] = <<>>
               /\ \A n \in 1..N : f[n] = IF s[n] \in D THEN f[n - 1] ELSE Append(f[n - 1], s[n])
               /\ Without(s, D) = f[N]
    BY WithoutSteps DEF Keeps
<1>. HIDE DEF t, N
<1>3. PICK g : /\ g[0] = <<>>
               /\ \A n \in 1..(N + 1) :
                     g[n] = IF t[n] \in D THEN g[n - 1] ELSE Append(g[n - 1], t[n])
               /\ Without(t, D) = g[N + 1]
    <2>1. PICK g : Keeps(g, S, t, D)  BY <1>1, WithoutSteps
    <2>. QED  BY <1>1, <2>1 DEF Keeps
<1>4. \A n \in 0..N : g[n] = f[n]
    <2>. DEFINE T == {n \in 0..N : g[n] = f[n]}
    <2>1. 0 \in T  BY <1>1, <1>2, <1>3
    <2>2. ASSUME NEW n \in 0..N, n < N, n \in T PROVE n + 1 \in T
        <3>1. n + 1 \in 1..N /\ n + 1 \in 1..(N + 1) /\ (n + 1) - 1 = n  BY <1>1, <2>2
        <3>2. g[n + 1] = f[n + 1]  BY <3>1, <2>2, <1>1, <1>2, <1>3
        <3>. QED  BY <3>1, <3>2
    <2>. HIDE DEF T
    <2>3. \A n \in 0..N : n \in T  BY <1>1, <2>1, <2>2, BoundedInduction
    <2>. QED  BY <2>3 DEF T
<1>5. N + 1 \in 1..(N + 1) /\ (N + 1) - 1 = N /\ N \in 0..N  BY <1>1
<1>6. Without(t, D) = IF x \in D THEN f[N] ELSE Append(f[N], x)
    BY <1>1, <1>3, <1>4, <1>5
<1>. QED  BY <1>2, <1>6 DEF t

\* A fact about sequences that holds of the empty one and of one more element holds of
\* each: here as a set of them.
LEMMA SeqInduction ==
    ASSUME NEW S, NEW T, <<>> \in T,
           \A s \in Seq(S), x \in S : s \in T => Append(s, x) \in T
    PROVE  \A s \in Seq(S) : s \in T
<1>. SUFFICES ASSUME NEW s \in Seq(S) PROVE s \in T
    OBVIOUS
<1>. DEFINE N == Len(s)
            P == {n \in 0..N : SubSeq(s, 1, n) \in T}
<1>1. N \in Nat /\ \A n \in 1..N : s[n] \in S  OBVIOUS
<1>2. 0 \in P
    <2>1. SubSeq(s, 1, 0) = <<>>  BY SubSeqEmpty
    <2>2. 0 \in 0..N  BY <1>1
    <2>. QED  BY <2>1, <2>2
<1>3. ASSUME NEW n \in 0..N, n < N, n \in P PROVE n + 1 \in P
    <2>1. n + 1 \in 1..N /\ n + 1 \in 0..N  BY <1>1, <1>3
    <2>2. SubSeq(s, 1, n) \in Seq(S) /\ SubSeq(s, 1, n + 1) \in Seq(S)
        BY <1>1, <2>1
    <2>3. SubSeq(s, 1, n + 1) = Append(SubSeq(s, 1, n), s[n + 1])
        BY <1>1, <2>1, <2>2
    <2>. QED  BY <1>1, <1>3, <2>1, <2>2, <2>3
<1>4. N \in P
    <2>. HIDE DEF P
    <2>1. \A n \in 0..N : n \in P  BY <1>1, <1>2, <1>3, BoundedInduction
    <2>. QED  BY <1>1, <2>1
<1>5. SubSeq(s, 1, N) = s  OBVIOUS
<1>. QED  BY <1>4, <1>5

\* The elements of a sequence that was made longer.
LEMMA AppendSet ==
    ASSUME NEW S, NEW s \in Seq(S), NEW x \in S
    PROVE  ToSet(Append(s, x)) = ToSet(s) \cup {x}
<1>1. /\ DOMAIN s = 1..Len(s) /\ DOMAIN Append(s, x) = 1..(Len(s) + 1) /\ Len(s) \in Nat
      /\ \A n \in 1..Len(s) : Append(s, x)[n] = s[n]
      /\ Append(s, x)[Len(s) + 1] = x
    OBVIOUS
<1>2. 1..(Len(s) + 1) = (1..Len(s)) \cup {Len(s) + 1}  BY <1>1
<1>. QED  BY <1>1, <1>2 DEF ToSet

LEMMA ConcatSet ==
    ASSUME NEW S, NEW s \in Seq(S), NEW t \in Seq(S)
    PROVE  ToSet(s \o t) = ToSet(s) \cup ToSet(t)
<1>. DEFINE m == Len(s)
            n == Len(t)
            u == s \o t
<1>1. /\ DOMAIN s = 1..m /\ DOMAIN t = 1..n /\ DOMAIN u = 1..(m + n) /\ m \in Nat /\ n \in Nat
      /\ \A i \in 1..m : u[i] = s[i]
      /\ \A i \in 1..n : u[m + i] = t[i]
    OBVIOUS
<1>. HIDE DEF m, n, u
<1>2. ASSUME NEW i \in 1..(m + n) PROVE u[i] \in ToSet(s) \cup ToSet(t)
    <2>1. CASE i <= m
        <3>1. i \in 1..m  BY <1>1, <2>1
        <3>. QED  BY <3>1, <1>1 DEF ToSet
    <2>2. CASE i > m
        <3>1. i - m \in 1..n /\ m + (i - m) = i  BY <1>1, <2>2
        <3>. QED  BY <3>1, <1>1 DEF ToSet
    <2>. QED  BY <1>1, <2>1, <2>2
<1>3. ASSUME NEW i \in 1..m PROVE s[i] \in ToSet(u)
    <2>1. i \in 1..(m + n)  BY <1>1
    <2>. QED  BY <2>1, <1>1 DEF ToSet
<1>4. ASSUME NEW i \in 1..n PROVE t[i] \in ToSet(u)
    <2>1. m + i \in 1..(m + n)  BY <1>1
    <2>. QED  BY <2>1, <1>1 DEF ToSet
<1>5. ToSet(u) = ToSet(s) \cup ToSet(t)
    BY <1>1, <1>2, <1>3, <1>4 DEF ToSet
<1>. QED  BY <1>5 DEF u

\* What is left has the elements not in D, and no more of them.
LEMMA WithoutSet ==
    ASSUME NEW S, NEW s \in Seq(S), NEW D
    PROVE  ToSet(Without(s, D)) = ToSet(s) \ D /\ Len(Without(s, D)) <= Len(s)
<1>. DEFINE Holds(q) == ToSet(Without(q, D)) = ToSet(q) \ D /\ Len(Without(q, D)) <= Len(q)
            T == {q \in Seq(S) : Holds(q)}
<1>1. <<>> \in T
    <2>1. <<>> \in Seq(S) /\ ToSet(<<>>) = {} /\ Len(<<>>) <= Len(<<>>)  BY DEF ToSet
    <2>2. Holds(<<>>)  BY <2>1, WithoutEmpty
    <2>. QED  BY <2>1, <2>2
<1>2. ASSUME NEW q \in Seq(S), NEW x \in S, q \in T
      PROVE  Append(q, x) \in T
    <2>. DEFINE w == Without(q, D)
    <2>1. w \in Seq(S)  BY WithoutType
    <2>2. Append(q, x) \in Seq(S) /\ Len(Append(q, x)) = Len(q) + 1 /\ Len(q) \in Nat
        OBVIOUS
    <2>3. Append(w, x) \in Seq(S) /\ Len(Append(w, x)) = Len(w) + 1 /\ Len(w) \in Nat
        BY <2>1
    <2>4. Without(Append(q, x), D) = IF x \in D THEN w ELSE Append(w, x)
        BY WithoutAppend
    <2>5. ToSet(w) = ToSet(q) \ D /\ Len(w) <= Len(q)  BY <1>2
    <2>6. ToSet(Append(q, x)) = ToSet(q) \cup {x} /\ ToSet(Append(w, x)) = ToSet(w) \cup {x}
        BY <2>1, AppendSet
    <2>. HIDE DEF w
    <2>7. Holds(Append(q, x))  BY <2>2, <2>3, <2>4, <2>5, <2>6
    <2>. QED  BY <2>2, <2>7
<1>. HIDE DEF T
<1>3. s \in T  BY <1>1, <1>2, SeqInduction
<1>. QED  BY <1>3 DEF T

LEMMA WithoutConcat ==
    ASSUME NEW S, NEW s \in Seq(S), NEW t \in Seq(S), NEW D
    PROVE  Without(s \o t, D) = Without(s, D) \o Without(t, D)
<1>. DEFINE a == Without(s, D)
            T == {q \in Seq(S) : Without(s \o q, D) = a \o Without(q, D)}
<1>1. a \in Seq(S)  BY WithoutType
<1>. HIDE DEF a
<1>2. <<>> \in T
    <2>1. <<>> \in Seq(S) /\ s \o <<>> = s /\ a \o <<>> = a  BY <1>1, ConcatEmptySeq
    <2>. QED  BY <2>1, WithoutEmpty DEF a
<1>3. ASSUME NEW q \in Seq(S), NEW x \in S, q \in T
      PROVE  Append(q, x) \in T
    <2>. DEFINE w == Without(q, D)
    <2>1. w \in Seq(S)  BY WithoutType
    <2>2. Without(Append(q, x), D) = IF x \in D THEN w ELSE Append(w, x)
        BY WithoutAppend
    <2>. DEFINE sq == s \o q
    <2>3. sq \in Seq(S)  OBVIOUS
    <2>4. Without(Append(sq, x), D) =
              IF x \in D THEN Without(sq, D) ELSE Append(Without(sq, D), x)
        <3>. HIDE DEF sq
        <3>. QED  BY <2>3, WithoutAppend
    <2>5. Without(s \o q, D) = a \o w  BY <1>3
    <2>6. s \o Append(q, x) = Append(s \o q, x) /\ Append(q, x) \in Seq(S)  OBVIOUS
    <2>. HIDE DEF w
    <2>7. a \o Append(w, x) = Append(a \o w, x)  BY <1>1, <2>1
    <2>8. Without(s \o Append(q, x), D) = a \o Without(Append(q, x), D)
        BY <2>2, <2>4, <2>5, <2>6, <2>7
    <2>. QED  BY <2>6, <2>8
<1>. HIDE DEF T
<1>4. t \in T  BY <1>2, <1>3, SeqInduction
<1>. QED  BY <1>4 DEF T, a

\* Only which elements of s are in D matters.
LEMMA WithoutSame ==
    ASSUME NEW S, NEW s \in Seq(S), NEW D, NEW E, ToSet(s) \cap D = ToSet(s) \cap E
    PROVE  Without(s, D) = Without(s, E)
<1>. DEFINE T == {q \in Seq(S) : ToSet(q) \cap D = ToSet(q) \cap E => Without(q, D) = Without(q, E)}
<1>1. <<>> \in T
    <2>1. <<>> \in Seq(S)  OBVIOUS
    <2>. QED  BY <2>1, WithoutEmpty
<1>2. ASSUME NEW q \in Seq(S), NEW x \in S, q \in T
      PROVE  Append(q, x) \in T
    <2>1. ToSet(Append(q, x)) = ToSet(q) \cup {x}  BY AppendSet
    <2>2. Append(q, x) \in Seq(S)  OBVIOUS
    <2>3. ASSUME ToSet(Append(q, x)) \cap D = ToSet(Append(q, x)) \cap E
          PROVE  Without(Append(q, x), D) = Without(Append(q, x), E)
        <3>1. ToSet(q) \cap D = ToSet(q) \cap E /\ (x \in D <=> x \in E)
            BY <2>1, <2>3
        <3>2. Without(q, D) = Without(q, E)  BY <1>2, <3>1
        <3>3. /\ Without(Append(q, x), D) =
                     IF x \in D THEN Without(q, D) ELSE Append(Without(q, D), x)
              /\ Without(Append(q, x), E) =
                     IF x \in E THEN Without(q, E) ELSE Append(Without(q, E), x)
            BY WithoutAppend
        <3>. QED  BY <3>1, <3>2, <3>3
    <2>. QED  BY <2>2, <2>3
<1>. HIDE DEF T
<1>3. s \in T  BY <1>1, <1>2, SeqInduction
<1>. QED  BY <1>3 DEF T

LEMMA WithoutAll ==
    ASSUME NEW S, NEW s \in Seq(S), NEW D, ToSet(s) \subseteq D
    PROVE  Without(s, D) = <<>>
<1>1. Without(s, D) \in Seq(S) /\ ToSet(Without(s, D)) = {}  BY WithoutType, WithoutSet
<1>2. ASSUME NEW q \in Seq(S), q # <<>> PROVE ToSet(q) # {}
    <2>1. 1 \in DOMAIN q  BY <1>2
    <2>. QED  BY <2>1 DEF ToSet
<1>. QED  BY <1>1, <1>2

---------------------------------------------------------------------------
(* Collecting a link of Notion *)

\* A place that is still to be tried at a depth.
Waits(x, n) == \E i \in DOMAIN todo : todo[i] = [at |-> x, depth |-> n]

\* What was opened is not forgotten: what it names was asked for or waits, until
\* there is no room for another page.
NothingForgotten ==
    ~Full => \A v \in opened : \A k \in DOMAIN LinksAt[v.at] :
                 v.depth < MaxDepth => \/ LinksAt[v.at][k] \in asked
                                       \/ Waits(LinksAt[v.at][k], v.depth + 1)

\* A page counts once it was asked for, and only then gives a document.
NotionInv ==
    /\ todo \in Seq(Visit) /\ opened \subseteq Visit
    /\ IsFiniteSet(visited) /\ visited \subseteq asked /\ Cardinality(visited) <= MaxPages
    /\ pages \in Seq(PageAt) /\ IsInjective(pages) /\ ToSet(pages) \subseteq visited
    /\ NothingForgotten

\* At first there is nothing.
LEMMA NothingCollected ==
    ASSUME NEW none, none = <<>>, NEW void, void = {}
    PROVE  /\ none \in Seq(PageAt) /\ IsInjective(none) /\ ToSet(none) \subseteq void
           /\ IsFiniteSet(void) /\ Cardinality(void) <= MaxPages
<1>1. Cardinality(void) = 0 /\ IsFiniteSet(void) /\ MaxPages \in Nat
    BY FS_EmptySet, NotionAssumption
<1>2. DOMAIN none = {} /\ none \in Seq(PageAt)  OBVIOUS
<1>. QED  BY <1>1, <1>2 DEF IsInjective, ToSet

\* A sequence without repetition and one new element.
LEMMA AppendNew ==
    ASSUME NEW S, NEW s \in Seq(S), NEW x \in S, IsInjective(s), x \notin ToSet(s)
    PROVE  IsInjective(Append(s, x))
<1>1. /\ DOMAIN s = 1..Len(s) /\ DOMAIN Append(s, x) = 1..(Len(s) + 1) /\ Len(s) \in Nat
      /\ \A n \in 1..Len(s) : Append(s, x)[n] = s[n]
      /\ Append(s, x)[Len(s) + 1] = x
    OBVIOUS
<1>2. \A n \in 1..Len(s) : s[n] # x  BY <1>1 DEF ToSet
<1>3. \A n \in 1..(Len(s) + 1) : n = Len(s) + 1 \/ n \in 1..Len(s)  BY <1>1
<1>. QED  BY <1>1, <1>2, <1>3 DEF IsInjective

\* What was full stays full.
LEMMA FullStays ==
    ASSUME IsFiniteSet(visited), IsFiniteSet(visited'), visited \subseteq visited', Full
    PROVE  Full'
<1>1. /\ Cardinality(visited) <= Cardinality(visited')
      /\ Cardinality(visited) \in Nat /\ Cardinality(visited') \in Nat
    BY FS_Subset, FS_CardinalityType
<1>. QED  BY <1>1, NotionAssumption DEF Full

\* The first place is given up, and what waited behind it still waits.
LEMMA WaitsBehind ==
    ASSUME todo \in Seq(Visit), todo # <<>>, NEW s \in Seq(Visit), todo' = s \o Tail(todo),
           NEW x, NEW n, Waits(x, n)
    PROVE  Waits(x, n)' \/ Head(todo) = [at |-> x, depth |-> n]
<1>1. PICK i \in DOMAIN todo : todo[i] = [at |-> x, depth |-> n]  BY DEF Waits
<1>2. CASE i = 1  BY <1>1, <1>2
<1>3. CASE i # 1
    <2>1. /\ i \in 2..Len(todo) /\ Len(Tail(todo)) = Len(todo) - 1
          /\ Tail(todo) \in Seq(Visit) /\ Tail(todo)[i - 1] = todo[i]
        BY <1>1, <1>3
    <2>. DEFINE j == Len(s) + i - 1
    <2>2. j \in DOMAIN todo' /\ todo'[j] = Tail(todo)[i - 1]
        BY <2>1
    <2>. HIDE DEF j
    <2>. QED  BY <1>1, <2>1, <2>2 DEF Waits
<1>. QED  BY <1>2, <1>3

\* The places an answer names can be tried.
LEMMA BelowIsSeq ==
    ASSUME NEW v, LinksAt[v.at] \in Seq(Place), v.depth \in Nat
    PROVE  Below(v) \in Seq(Visit) /\ Len(Below(v)) = Len(LinksAt[v.at])
<1>. DEFINE n == Len(LinksAt[v.at])
            b == [i \in 1..n |-> [at |-> LinksAt[v.at][i], depth |-> v.depth + 1]]
<1>1. n \in Nat /\ DOMAIN LinksAt[v.at] = 1..n /\ \A i \in 1..n : LinksAt[v.at][i] \in Place
    OBVIOUS
<1>2. \A i \in 1..n : [at |-> LinksAt[v.at][i], depth |-> v.depth + 1] \in Visit
    BY <1>1 DEF Visit
<1>3. b \in Seq(Visit) /\ Len(b) = n
    <2>. HIDE DEF n
    <2>. QED  BY <1>1, <1>2
<1>. QED  BY <1>1, <1>3 DEF Below

\* What a page or a list names waits in front of the rest.
LEMMA WaitsBelow ==
    ASSUME todo \in Seq(Visit), todo # <<>>, NEW v, v = Head(todo),
           todo' = Below(v) \o Tail(todo), NEW k \in DOMAIN LinksAt[v.at]
    PROVE  Waits(LinksAt[v.at][k], v.depth + 1)'
<1>1. v \in Visit /\ Tail(todo) \in Seq(Visit)  OBVIOUS
<1>2. LinksAt[v.at] \in Seq(Place) /\ v.depth \in Nat
    BY <1>1, NotionAssumption DEF Visit
<1>. DEFINE s == Below(v)
<1>3. s \in Seq(Visit) /\ Len(s) = Len(LinksAt[v.at])
    BY <1>2, BelowIsSeq
<1>4. k \in 1..Len(s) /\ s[k] = [at |-> LinksAt[v.at][k], depth |-> v.depth + 1]
    BY <1>2, <1>3 DEF Below
<1>. HIDE DEF s
<1>5. todo' = s \o Tail(todo)  BY DEF s
<1>6. k \in DOMAIN todo' /\ todo'[k] = s[k]
    BY <1>1, <1>3, <1>4, <1>5
<1>. QED  BY <1>4, <1>6 DEF Waits

\* A place is passed over because it is too deep or was asked for.
LEMMA SkipKeeps ==
    ASSUME NotionInv, NotionSkip
    PROVE  NotionInv'
<1>. DEFINE h == Head(todo)
<1>1. /\ todo' = Tail(todo) /\ visited' = visited /\ UNCHANGED <<asked, opened, pages>>
      /\ todo # <<>> /\ Useless(h) /\ todo \in Seq(Visit)
    BY DEF NotionInv, NotionSkip, MarkUseless
<1>2. h \in Visit /\ Tail(todo) \in Seq(Visit)  BY <1>1
<1>3. <<>> \in Seq(Visit) /\ todo' = <<>> \o Tail(todo)  BY <1>1, <1>2
<1>4. ASSUME ~Full, NEW v \in opened, v.depth < MaxDepth,
             NEW x, x \in asked \/ Waits(x, v.depth + 1)
      PROVE  x \in asked' \/ Waits(x, v.depth + 1)'
    <2>1. CASE x \in asked  BY <1>1, <2>1
    <2>2. CASE h = [at |-> x, depth |-> v.depth + 1]
        <3>1. v.depth \in Nat /\ v.depth + 1 <= MaxDepth
            BY <1>4, NotionAssumption DEF NotionInv, Visit
        <3>2. x \in visited  BY <1>1, <1>4, <2>2, <3>1, NotionAssumption DEF Useless
        <3>. QED  BY <1>1, <3>2 DEF NotionInv
    <2>3. CASE Waits(x, v.depth + 1) /\ h # [at |-> x, depth |-> v.depth + 1]
        BY <1>1, <1>3, <2>3, WaitsBehind
    <2>. QED  BY <1>4, <2>1, <2>2, <2>3
<1>5. NothingForgotten'
    BY <1>1, <1>4 DEF NotionInv, NothingForgotten, Full
<1>. QED  BY <1>1, <1>2, <1>5 DEF NotionInv

\* A call that fails leaves out what lies behind it, and is not forgotten either.
LEMMA CallKeeps ==
    ASSUME NotionInv, NEW answered \in BOOLEAN, NotionCall(answered)
    PROVE  NotionInv'
<1>. DEFINE h == Head(todo)
            s == IF answered THEN Below(h) ELSE <<>>
<1>1. /\ visited' = visited \cup ({h.at} \cap PageAt) /\ asked' = asked \cup {h.at}
      /\ opened' = IF answered THEN opened \cup {h} ELSE opened
      /\ todo # <<>> /\ todo \in Seq(Visit)
    BY DEF NotionInv, NotionCall
<1>2. h \in Visit /\ Tail(todo) \in Seq(Visit)  BY <1>1
<1>3. s \in Seq(Visit)
    <2>1. LinksAt[h.at] \in Seq(Place) /\ h.depth \in Nat
        BY <1>2, NotionAssumption DEF Visit
    <2>. QED  BY <2>1, BelowIsSeq
<1>4. todo' = s \o Tail(todo)
    BY <1>2 DEF NotionCall
<1>5. /\ IsFiniteSet(visited') /\ visited \subseteq visited'
    <2>1. visited' \in {visited, visited \cup {h.at}}  BY <1>1
    <2>. QED  BY <1>1, <2>1, FS_AddElement DEF NotionInv
<1>6. Full => Full'  BY <1>5, FullStays DEF NotionInv
<1>7. ASSUME ~Full, NEW v \in opened, v.depth < MaxDepth,
             NEW x, x \in asked \/ Waits(x, v.depth + 1)
      PROVE  x \in asked' \/ Waits(x, v.depth + 1)'
    <2>1. CASE x \in asked  BY <1>1, <2>1
    <2>2. CASE h = [at |-> x, depth |-> v.depth + 1]  BY <1>1, <2>2
    <2>3. CASE Waits(x, v.depth + 1) /\ h # [at |-> x, depth |-> v.depth + 1]
        <3>. HIDE DEF s
        <3>. QED  BY <1>1, <1>3, <1>4, <2>3, WaitsBehind
    <2>. QED  BY <1>7, <2>1, <2>2, <2>3
<1>8. ASSUME answered, NEW v, v = h, NEW k \in DOMAIN LinksAt[v.at]
      PROVE  Waits(LinksAt[v.at][k], v.depth + 1)'
    BY <1>1, <1>4, <1>8, WaitsBelow
<1>9. NothingForgotten'
    <2>. SUFFICES ASSUME ~Full', NEW v \in opened', NEW k \in DOMAIN LinksAt[v.at],
                         v.depth < MaxDepth
                  PROVE  \/ LinksAt[v.at][k] \in asked'
                         \/ Waits(LinksAt[v.at][k], v.depth + 1)'
        BY DEF NothingForgotten
    <2>1. CASE v \in opened
        BY <1>6, <1>7, <2>1 DEF NotionInv, NothingForgotten
    <2>2. CASE v \notin opened
        <3>1. answered /\ v = h  BY <1>1, <2>2
        <3>. QED  BY <1>8, <3>1
    <2>. QED  BY <2>1, <2>2
<1>10. todo' \in Seq(Visit)
    <2>. HIDE DEF s
    <2>. QED  BY <1>2, <1>3, <1>4
<1>11. opened' \subseteq Visit  BY <1>1, <1>2 DEF NotionInv
<1>12. visited' \subseteq asked'  BY <1>1 DEF NotionInv
<1>13. h.at \notin visited /\ (h.at \in PageAt => ~Full)
    BY NotionAssumption DEF NotionCall, Useless
<1>14. Cardinality(visited') <= MaxPages
    <2>1. CASE h.at \notin PageAt
        <3>1. visited' = visited  BY <1>1, <2>1
        <3>. QED  BY <3>1 DEF NotionInv
    <2>2. CASE h.at \in PageAt
        <3>1. visited' = visited \cup {h.at}  BY <1>1, <2>2
        <3>. DEFINE x == h.at
        <3>2. Cardinality(visited \cup {x})
                  = IF x \in visited THEN Cardinality(visited) ELSE Cardinality(visited) + 1
            <4>. HIDE DEF x
            <4>. QED  BY FS_AddElement DEF NotionInv
        <3>3. Cardinality(visited) \in Nat /\ MaxPages \in Nat /\ Cardinality(visited) < MaxPages
            BY <1>13, <2>2, FS_CardinalityType, NotionAssumption DEF NotionInv, Full
        <3>. HIDE DEF x
        <3>4. Cardinality(visited \cup {x}) <= MaxPages  BY <3>2, <3>3
        <3>. QED  BY <3>1, <3>4 DEF x
    <2>. QED  BY <2>1, <2>2
<1>15. pages' \in Seq(PageAt) /\ IsInjective(pages') /\ ToSet(pages') \subseteq visited'
    <2>. DEFINE x == h.at
    <2>1. pages \in Seq(PageAt) /\ IsInjective(pages) /\ ToSet(pages) \subseteq visited
        BY DEF NotionInv
    <2>2. CASE answered /\ x \in PageAt
        <3>1. pages' = Append(pages, x)  BY <2>2 DEF NotionCall
        <3>2. x \in PageAt /\ x \notin ToSet(pages) /\ visited' = visited \cup {x}
            BY <1>1, <1>13, <2>1, <2>2
        <3>. HIDE DEF x
        <3>3. IsInjective(Append(pages, x))  BY <2>1, <3>2, AppendNew
        <3>4. ToSet(Append(pages, x)) = ToSet(pages) \cup {x}  BY <2>1, <3>2, AppendSet
        <3>5. Append(pages, x) \in Seq(PageAt)  BY <2>1, <3>2
        <3>. QED  BY <2>1, <3>1, <3>2, <3>3, <3>4, <3>5
    <2>3. CASE ~ (answered /\ x \in PageAt)
        <3>1. pages' = pages  BY <2>3 DEF NotionCall
        <3>. QED  BY <1>5, <2>1, <3>1
    <2>. QED  BY <2>2, <2>3
<1>. QED  BY <1>5, <1>9, <1>10, <1>11, <1>12, <1>14, <1>15 DEF NotionInv

\* Of all steps only those of a link of Notion concern what it names.
LEMMA NotionKeeps ==
    ASSUME NotionInv, [FetchNext]_fetchVars
    PROVE  NotionInv'
<1>1. ASSUME UNCHANGED notionVars PROVE NotionInv'
    BY <1>1 DEF notionVars, NotionInv, NothingForgotten, Full, Waits
<1>2. CASE NotionNext  BY <1>2, SkipKeeps, CallKeeps DEF NotionNext
<1>3. CASE StartNotion
    <2>1. PICK root \in PageAt : FetchPages(root)  BY <1>3 DEF StartNotion
    <2>2. todo' \in Seq(Visit)
        <3>1. [at |-> root, depth |-> 0] \in Visit  BY <2>1 DEF Visit, Place
        <3>. QED  BY <2>1, <3>1 DEF FetchPages
    <2>. QED
        BY <2>1, <2>2, NothingCollected DEF FetchPages, NotionInv, NothingForgotten
<1>4. CASE EndNotion \/ NotionRaises
    <2>1. todo' = <<>>  BY <1>4 DEF EndNotion, NotionRaises, CloseLink
    <2>2. todo' \in Seq(Visit)  BY <2>1
    <2>. QED
        BY <1>4, <2>1, <2>2, NothingCollected
        DEF EndNotion, NotionRaises, CloseLink, NotionInv, NothingForgotten
<1>5. CASE /\ FetchNext /\ ~(at = "notion" /\ NotionNext) /\ ~StartNotion
           /\ ~EndNotion /\ ~NotionRaises
    <2>1. UNCHANGED notionVars
        BY <1>5
        DEF FetchNext, StartGitHub, SkipLink, Collecting, EndGitHub, StartExtracting, Take,
            Extracted, ExtractFails, Assemble
    <2>. QED  BY <1>1, <2>1
<1>6. CASE UNCHANGED fetchVars  BY <1>1, <1>6 DEF fetchVars
<1>. QED  BY <1>2, <1>3, <1>4, <1>5, <1>6

LEMMA NotionStarts ==
    FetchInit => NotionInv
<1>. SUFFICES ASSUME FetchInit PROVE NotionInv
    OBVIOUS
<1>1. todo = <<>> /\ visited = {} /\ asked = {} /\ opened = {} /\ pages = <<>>
    BY DEF FetchInit, NotionInit
<1>2. todo \in Seq(Visit)  BY <1>1
<1>. QED  BY <1>1, <1>2, NothingCollected DEF NotionInv, NothingForgotten

\* However pages, lists and views refer to each other and whichever calls fail: no more
\* pages are fetched than allowed, none gives its document twice and, while there is room
\* for a page, every place named by what was read, and not too deep there, has been asked
\* for.
THEOREM NotionCompleteHolds == FetchSpec => []NotionComplete
<1>1. FetchInit => NotionInv  BY NotionStarts
<1>2. NotionInv => NotionComplete
    BY DEF NotionInv, NothingForgotten, NotionComplete, Waits, ToSet
<1>. QED  BY <1>1, <1>2, NotionKeeps, PTL DEF FetchSpec

---------------------------------------------------------------------------
(* The commits of a repository *)

\* Merging keeps what there is, in front, and brings each new element.
LEMMA MergeType ==
    ASSUME NEW S, NEW s \in Seq(S), NEW t \in Seq(S)
    PROVE  /\ Merge(s, t) \in Seq(S) /\ Without(t, ToSet(s)) \in Seq(S)
           /\ Merge(s, t) = s \o Without(t, ToSet(s))
           /\ ToSet(Merge(s, t)) = ToSet(s) \cup ToSet(t)
           /\ Len(Merge(s, t)) <= Len(s) + Len(t) /\ Len(s) <= Len(Merge(s, t))
<1>. DEFINE w == Without(t, ToSet(s))
<1>1. w \in Seq(S)  BY WithoutType
<1>2. ToSet(w) = ToSet(t) \ ToSet(s) /\ Len(w) <= Len(t)  BY WithoutSet
<1>. HIDE DEF w
<1>3. ToSet(s \o w) = ToSet(s) \cup ToSet(w)  BY <1>1, ConcatSet
<1>4. s \o w \in Seq(S) /\ Len(s \o w) = Len(s) + Len(w) /\ Len(w) \in Nat /\ Len(s) \in Nat
      /\ Len(t) \in Nat
    BY <1>1
<1>5. Merge(s, t) = s \o w  BY DEF Merge, w
<1>. QED  BY <1>1, <1>2, <1>3, <1>4, <1>5 DEF w

\* What is known brings nothing.
LEMMA MergeKnown ==
    ASSUME NEW S, NEW s \in Seq(S), NEW t \in Seq(S), NEW u \in Seq(S), ToSet(t) \subseteq ToSet(s)
    PROVE  Merge(s, t \o u) = Merge(s, u) /\ Merge(s, t) = s
<1>1. Without(t, ToSet(s)) = <<>>  BY WithoutAll
<1>2. Without(t \o u, ToSet(s)) = <<>> \o Without(u, ToSet(s))
    <2>1. Without(t \o u, ToSet(s)) = Without(t, ToSet(s)) \o Without(u, ToSet(s))
        BY WithoutConcat
    <2>. QED  BY <1>1, <2>1
<1>3. Without(u, ToSet(s)) \in Seq(S)  BY WithoutType
<1>4. <<>> \o Without(u, ToSet(s)) = Without(u, ToSet(s)) /\ s \o <<>> = s
    BY <1>3, ConcatEmptySeq
<1>. QED  BY <1>1, <1>2, <1>4 DEF Merge

\* Parts without an element in common may be merged one after the other.
LEMMA MergeParts ==
    ASSUME NEW S, NEW s \in Seq(S), NEW t \in Seq(S), NEW u \in Seq(S), ToSet(t) \cap ToSet(u) = {}
    PROVE  Merge(s, t \o u) = Merge(Merge(s, t), u)
<1>. DEFINE a == Without(t, ToSet(s))
            b == Without(u, ToSet(s))
<1>1. a \in Seq(S) /\ b \in Seq(S)  BY WithoutType
<1>2. Without(t \o u, ToSet(s)) = a \o b  BY WithoutConcat
<1>3. ToSet(Merge(s, t)) = ToSet(s) \cup ToSet(t)  BY MergeType
<1>4. ToSet(u) \cap ToSet(Merge(s, t)) = ToSet(u) \cap ToSet(s)  BY <1>3
<1>5. Without(u, ToSet(Merge(s, t))) = b  BY <1>4, WithoutSame
<1>6. Merge(s, t) = s \o a  BY DEF Merge
<1>. HIDE DEF a, b
<1>7. s \o (a \o b) = (s \o a) \o b
    <2>1. s \in Seq(S)  OBVIOUS
    <2>. QED  BY <1>1, <2>1, ConcatAssociative, SMTT(60)
<1>. QED  BY <1>2, <1>5, <1>6, <1>7 DEF Merge

LEMMA MinOfTwo ==
    ASSUME NEW m \in Int, NEW n \in Int
    PROVE  Min({m, n}) = IF m <= n THEN m ELSE n
<1>. DEFINE a == IF m <= n THEN m ELSE n
<1>1. a \in {m, n} /\ \A y \in {m, n} : a <= y  OBVIOUS
<1>2. \A x \in {m, n} : (\A y \in {m, n} : x <= y) => x = a  OBVIOUS
<1>. HIDE DEF a
<1>3. Min({m, n}) = a  BY <1>1, <1>2 DEF Min
<1>. QED  BY <1>3 DEF a

LEMMA TimesMore ==
    ASSUME NEW m \in Nat, NEW n \in Nat, NEW k \in Nat, m <= n
    PROVE  k * m <= k * n
<1>1. PICK d \in Nat : n = m + d
    <2>1. n - m \in Nat /\ n = m + (n - m)  OBVIOUS
    <2>. QED  BY <2>1
<1>2. k * n = k * m + k * d /\ k * d >= 0 /\ k * m \in Nat  BY <1>1
<1>. QED  BY <1>2

\* What the names are known by.
NumAuthors == Len(Authors)
CommitsOfName(n) == CommitsOf[Authors[n]]

LEMMA NamesHaveCommits ==
    /\ NumAuthors \in Nat
    /\ \A n \in 1..NumAuthors :
          /\ CommitsOfName(n) \in Seq(Commits)
          /\ \A i, j \in 1..Len(CommitsOfName(n)) :
                CommitsOfName(n)[i] = CommitsOfName(n)[j] => i = j
<1>1. Len(Authors) \in Nat /\ \A n \in 1..Len(Authors) : Authors[n] \in ToSet(Authors)
    BY GitHubAssumption DEF ToSet
<1>2. ASSUME NEW n \in 1..Len(Authors)
      PROVE  /\ CommitsOfName(n) \in Seq(Commits)
             /\ \A i, j \in 1..Len(CommitsOfName(n)) :
                   CommitsOfName(n)[i] = CommitsOfName(n)[j] => i = j
    <2>1. CommitsOf[Authors[n]] \in Seq(Commits) /\ IsInjective(CommitsOf[Authors[n]])
        BY <1>1, GitHubAssumption
    <2>. DEFINE c == CommitsOf[Authors[n]]
    <2>2. DOMAIN c = 1..Len(c)  BY <2>1
    <2>. HIDE DEF c
    <2>3. \A i, j \in DOMAIN c : c[i] = c[j] => i = j  BY <2>1 DEF IsInjective, c
    <2>. QED  BY <2>1, <2>2, <2>3 DEF c, CommitsOfName
<1>. QED  BY <1>1, <1>2 DEF NumAuthors

\* The commits of the names, one name after the other.
LEMMA CommitsOfFirstSteps ==
    /\ CommitsOfFirst[0] = <<>>
    /\ \A n \in 1..NumAuthors : CommitsOfFirst[n] = Merge(CommitsOfFirst[n - 1], CommitsOfName(n))
    /\ \A n \in 0..NumAuthors : CommitsOfFirst[n] \in Seq(Commits)
<1>. DEFINE N == NumAuthors
            Q == Seq(Commits)
            none == <<>>
            go == [n \in 1..N |-> [d \in Q |-> Merge(d, CommitsOfName(n))]]
            Rec(f) == f = [n \in 0..N |-> IF n = 0 THEN <<>> ELSE Merge(f[n - 1], CommitsOfName(n))]
<1>1. N \in Nat  BY NamesHaveCommits
<1>2. ASSUME NEW n \in 1..N, NEW d \in Q
      PROVE  Merge(d, CommitsOfName(n)) \in Q /\ go[n][d] = Merge(d, CommitsOfName(n))
    BY NamesHaveCommits, MergeType
<1>3. none \in Q  OBVIOUS
<1>. HIDE DEF N, Q, go
<1>4. PICK f : Follows(f, N, Q, none, go)
    <2>. HIDE DEF none
    <2>. QED  BY <1>1, <1>2, <1>3, Recursion
<1>5. ASSUME NEW n \in 1..N PROVE n - 1 \in 0..N /\ n \in 0..N /\ n # 0  BY <1>1
<1>6. \A n \in 1..N : f[n] = Merge(f[n - 1], CommitsOfName(n))  BY <1>2, <1>4, <1>5 DEF Follows
<1>. DEFINE g == [n \in 0..N |-> f[n]]
<1>7. Rec(g)
    <2>1. ASSUME NEW n \in 0..N
          PROVE  f[n] = IF n = 0 THEN <<>> ELSE Merge(g[n - 1], CommitsOfName(n))
        <3>1. CASE n = 0  BY <3>1, <1>4 DEF Follows
        <3>2. CASE n # 0
            <4>1. n \in 1..N  BY <1>1, <3>2
            <4>2. g[n - 1] = f[n - 1]  BY <4>1, <1>5
            <4>. QED  BY <4>1, <4>2, <3>2, <1>6
        <3>. QED  BY <3>1, <3>2
    <2>. QED  BY <2>1
<1>. HIDE DEF g
<1>8. Rec(CommitsOfFirst)
    <2>1. CommitsOfFirst = CHOOSE h : Rec(h)
        BY DEF CommitsOfFirst, N, NumAuthors, CommitsOfName
    <2>. QED  BY <1>7, <2>1
<1>9. /\ CommitsOfFirst[0] = <<>>
      /\ \A n \in 1..N : CommitsOfFirst[n] = Merge(CommitsOfFirst[n - 1], CommitsOfName(n))
    <2>1. 0 \in 0..N  BY <1>1
    <2>2. \A n \in 0..N : CommitsOfFirst[n] =
              IF n = 0 THEN <<>> ELSE Merge(CommitsOfFirst[n - 1], CommitsOfName(n))
        BY <1>8
    <2>. QED  BY <1>5, <2>1, <2>2
<1>10. \A n \in 0..N : CommitsOfFirst[n] \in Q
    <2>. DEFINE T == {n \in 0..N : CommitsOfFirst[n] \in Q}
    <2>1. 0 \in T  BY <1>1, <1>3, <1>9
    <2>2. ASSUME NEW n \in 0..N, n < N, n \in T PROVE n + 1 \in T
        <3>1. n + 1 \in 1..N /\ n + 1 \in 0..N /\ (n + 1) - 1 = n  BY <1>1, <2>2
        <3>. QED  BY <3>1, <1>2, <1>9, <2>2
    <2>. HIDE DEF T
    <2>3. \A n \in 0..N : n \in T  BY <1>1, <2>1, <2>2, BoundedInduction
    <2>. QED  BY <2>3 DEF T
<1>. QED  BY <1>9, <1>10 DEF N, Q

\* A listing cut in two.
LEMMA PartsOfCommits ==
    ASSUME NEW c \in Seq(Commits), \A i, j \in 1..Len(c) : c[i] = c[j] => i = j,
           NEW k \in 0..Len(c), NEW m \in k..Len(c)
    PROVE  /\ SubSeq(c, 1, k) \in Seq(Commits) /\ SubSeq(c, k + 1, m) \in Seq(Commits)
           /\ SubSeq(c, 1, k) \o SubSeq(c, k + 1, m) = SubSeq(c, 1, m)
           /\ SubSeq(c, 1, Len(c)) = c
           /\ ToSet(SubSeq(c, 1, k)) \cap ToSet(SubSeq(c, k + 1, m)) = {}
<1>1. Len(c) \in Nat /\ k \in Nat /\ m \in Nat /\ k <= m /\ m <= Len(c)
      /\ \A i \in 1..Len(c) : c[i] \in Commits
    OBVIOUS
<1>2. SubSeq(c, 1, k) \o SubSeq(c, k + 1, m) = SubSeq(c, 1, m)
    BY <1>1, ConcatAdjacentSubSeq
<1>3. SubSeq(c, 1, Len(c)) = c  BY SubSeqFull
<1>. DEFINE x == SubSeq(c, 1, k)
            y == SubSeq(c, k + 1, m)
<1>4. /\ x \in Seq(Commits) /\ DOMAIN x = 1..k /\ \A i \in 1..k : x[i] = c[i]
      /\ y \in Seq(Commits) /\ DOMAIN y = 1..(m - k) /\ \A i \in 1..(m - k) : y[i] = c[k + i]
    BY <1>1
<1>. HIDE DEF x, y
<1>5. ASSUME NEW i \in 1..k, NEW j \in 1..(m - k) PROVE x[i] # y[j]
    <2>1. i \in 1..Len(c) /\ k + j \in 1..Len(c) /\ i # k + j  BY <1>1
    <2>. QED  BY <2>1, <1>4
<1>6. ToSet(x) \cap ToSet(y) = {}  BY <1>4, <1>5 DEF ToSet
<1>. QED  BY <1>2, <1>3, <1>4, <1>6 DEF x, y

\* The commits of the names before n and the first k of name n.
Listed(n, k) == Merge(CommitsOfFirst[n - 1], SubSeq(CommitsOfName(n), 1, k))

\* What is listed is the beginning of all there are.
LEMMA ListedIsPart ==
    ASSUME NEW n \in 1..NumAuthors, NEW k \in 0..Len(CommitsOfName(n))
    PROVE  /\ Listed(n, k) \in Seq(Commits)
           /\ \E t \in Seq(Commits) : CommitsOfFirst[n] = Listed(n, k) \o t
<1>. DEFINE c == CommitsOfName(n)
            b == CommitsOfFirst[n - 1]
            x == SubSeq(c, 1, k)
            y == SubSeq(c, k + 1, Len(c))
<1>1. n \in 1..NumAuthors /\ n - 1 \in 0..NumAuthors  BY NamesHaveCommits
<1>2. c \in Seq(Commits) /\ b \in Seq(Commits) /\ \A i, j \in 1..Len(c) : c[i] = c[j] => i = j
    BY <1>1, NamesHaveCommits, CommitsOfFirstSteps
<1>3. CommitsOfFirst[n] = Merge(b, c)  BY CommitsOfFirstSteps
<1>4. k \in 0..Len(c) /\ Listed(n, k) = Merge(b, x)  BY DEF Listed
<1>. HIDE DEF c, b
<1>. DEFINE L == Len(c)
<1>5. x \in Seq(Commits) /\ y \in Seq(Commits) /\ x \o y = c /\ ToSet(x) \cap ToSet(y) = {}
    <2>1. L \in k..L  BY <1>2, <1>4
    <2>2. L = Len(c)  OBVIOUS
    <2>. HIDE DEF L
    <2>3. /\ SubSeq(c, 1, k) \in Seq(Commits) /\ SubSeq(c, k + 1, L) \in Seq(Commits)
          /\ SubSeq(c, 1, k) \o SubSeq(c, k + 1, L) = SubSeq(c, 1, L)
          /\ SubSeq(c, 1, Len(c)) = c
          /\ ToSet(SubSeq(c, 1, k)) \cap ToSet(SubSeq(c, k + 1, L)) = {}
        <3>1. L \in k..Len(c)  BY <2>1, <2>2
        <3>. QED  BY <1>2, <1>4, <3>1, PartsOfCommits
    <2>. QED  BY <2>2, <2>3
<1>. HIDE DEF x, y
<1>6. Merge(b, c) = Merge(Merge(b, x), y)
    <2>1. \A s, t, u \in Seq(Commits) : ToSet(t) \cap ToSet(u) = {} =>
              Merge(s, t \o u) = Merge(Merge(s, t), u)
        BY MergeParts
    <2>2. b \in Seq(Commits)  BY <1>2
    <2>3. Merge(b, x \o y) = Merge(Merge(b, x), y)  BY <1>5, <2>1, <2>2, Zenon
    <2>. QED  BY <1>5, <2>3
<1>7. Merge(b, x) \in Seq(Commits)  BY <1>2, <1>5, MergeType
<1>. DEFINE m == Merge(b, x)
<1>8. m \in Seq(Commits)  BY <1>7
<1>. HIDE DEF m
<1>9. Merge(m, y) = m \o Without(y, ToSet(m)) /\ Without(y, ToSet(m)) \in Seq(Commits)
    BY <1>5, <1>8, MergeType
<1>. QED  BY <1>3, <1>4, <1>6, <1>8, <1>9 DEF m

\* The same of whole names.
LEMMA FirstNamesArePart ==
    ASSUME NEW n \in 0..NumAuthors
    PROVE  \E t \in Seq(Commits) : AllCommits = CommitsOfFirst[n] \o t
<1>. DEFINE N == NumAuthors
            T == {m \in 0..N : n + m <= N =>
                     \E t \in Seq(Commits) : CommitsOfFirst[n + m] = CommitsOfFirst[n] \o t}
<1>1. N \in Nat /\ n \in 0..N  BY NamesHaveCommits
<1>2. 0 \in T
    <2>1. CommitsOfFirst[n] \in Seq(Commits)  BY <1>1, CommitsOfFirstSteps
    <2>2. CommitsOfFirst[n] = CommitsOfFirst[n] \o <<>> /\ <<>> \in Seq(Commits)
        BY <2>1, ConcatEmptySeq
    <2>3. n + 0 = n /\ 0 \in 0..N  BY <1>1
    <2>. QED  BY <2>2, <2>3
<1>3. ASSUME NEW m \in 0..N, m < N, m \in T PROVE m + 1 \in T
    <2>1. m + 1 \in 0..N  BY <1>1, <1>3
    <2>2. ASSUME n + (m + 1) <= N
          PROVE  \E t \in Seq(Commits) : CommitsOfFirst[n + (m + 1)] = CommitsOfFirst[n] \o t
        <3>1. n + m <= N /\ n + (m + 1) \in 1..N /\ n + m \in 0..N /\ (n + (m + 1)) - 1 = n + m
            BY <1>1, <2>2
        <3>2. PICK t \in Seq(Commits) : CommitsOfFirst[n + m] = CommitsOfFirst[n] \o t
            BY <1>3, <3>1
        <3>. DEFINE a == CommitsOfFirst[n]
                    b == CommitsOfFirst[n + m]
                    c == CommitsOfName(n + (m + 1))
        <3>3. a \in Seq(Commits) /\ b \in Seq(Commits) /\ c \in Seq(Commits)
            BY <1>1, <3>1, CommitsOfFirstSteps, NamesHaveCommits
        <3>4. CommitsOfFirst[n + (m + 1)] = Merge(b, c)  BY <3>1, CommitsOfFirstSteps
        <3>5. b = a \o t  BY <3>2
        <3>. HIDE DEF a, b, c
        <3>9. Merge(b, c) = b \o Without(c, ToSet(b)) /\ Without(c, ToSet(b)) \in Seq(Commits)
            BY <3>3, MergeType
        <3>. DEFINE w == Without(c, ToSet(b))
        <3>6. Merge(b, c) = b \o w /\ w \in Seq(Commits)  BY <3>9
        <3>. HIDE DEF w
        <3>7. (a \o t) \o w = a \o (t \o w)
            <4>1. a \in Seq(Commits)  BY <3>3
            <4>2. t \in Seq(Commits)  OBVIOUS
            <4>3. w \in Seq(Commits)  BY <3>6
            <4>. QED  BY <4>1, <4>2, <4>3, ConcatAssociative
        <3>8. t \o w \in Seq(Commits)  BY <3>6
        <3>. QED  BY <3>4, <3>5, <3>6, <3>7, <3>8 DEF a
    <2>. QED  BY <2>1, <2>2
<1>. HIDE DEF T
<1>4. \A m \in 0..N : m \in T  BY <1>1, <1>2, <1>3, BoundedInduction
<1>5. N - n \in 0..N /\ n + (N - n) = N  BY <1>1
<1>6. N - n \in T  BY <1>4, <1>5
<1>7. AllCommits = CommitsOfFirst[N]  BY DEF AllCommits, NumAuthors
<1>. QED  BY <1>1, <1>5, <1>6, <1>7 DEF T

\* Both together.
LEMMA ListedBeginsAll ==
    ASSUME NEW n \in 1..NumAuthors, NEW k \in 0..Len(CommitsOfName(n))
    PROVE  \E v \in Seq(Commits) : AllCommits = Listed(n, k) \o v
<1>1. PICK t \in Seq(Commits) : CommitsOfFirst[n] = Listed(n, k) \o t  BY ListedIsPart
<1>2. n \in 0..NumAuthors  BY NamesHaveCommits
<1>3. PICK u \in Seq(Commits) : AllCommits = CommitsOfFirst[n] \o u
    BY <1>2, FirstNamesArePart
<1>. DEFINE l == Listed(n, k)
<1>4. l \in Seq(Commits)  BY ListedIsPart
<1>. HIDE DEF l
<1>5. (l \o t) \o u = l \o (t \o u)
    <2>1. t \in Seq(Commits)  OBVIOUS
    <2>2. u \in Seq(Commits)  OBVIOUS
    <2>. QED  BY <1>4, <2>1, <2>2, ConcatAssociative
<1>6. t \o u \in Seq(Commits)  OBVIOUS
<1>. QED  BY <1>1, <1>3, <1>5, <1>6 DEF l

\* None of a name's commits, and all of them.
LEMMA ListedEnds ==
    ASSUME NEW n \in 1..NumAuthors
    PROVE  /\ Listed(n, 0) = CommitsOfFirst[n - 1]
           /\ Listed(n, Len(CommitsOfName(n))) = CommitsOfFirst[n]
<1>1. n - 1 \in 0..NumAuthors  BY NamesHaveCommits
<1>. DEFINE b == CommitsOfFirst[n - 1]
            c == CommitsOfName(n)
<1>2. b \in Seq(Commits) /\ c \in Seq(Commits)  BY <1>1, NamesHaveCommits, CommitsOfFirstSteps
<1>3. CommitsOfFirst[n] = Merge(b, c)  BY CommitsOfFirstSteps
<1>4. Listed(n, 0) = Merge(b, SubSeq(c, 1, 0)) /\ Listed(n, Len(c)) = Merge(b, SubSeq(c, 1, Len(c)))
    BY DEF Listed
<1>. HIDE DEF b, c
<1>5. SubSeq(c, 1, Len(c)) = c /\ SubSeq(c, 1, 0) = <<>>  BY <1>2, SubSeqFull, SubSeqEmpty
<1>6. Merge(b, <<>>) = b
    <2>1. b \o <<>> = b  BY <1>2, ConcatEmptySeq
    <2>. QED  BY <2>1, WithoutEmpty DEF Merge
<1>. QED  BY <1>3, <1>4, <1>5, <1>6 DEF b, c

\* A repository nothing was asked of yet.
Fresh == author = 1 /\ page = 1 /\ shas = <<>> /\ missed = FALSE

\* The commits known are those of the names before, and of this name at least those of
\* the pages before: in pages as large as the next one, for pages only get smaller.
Paged ==
    \E k \in 0..Len(CommitsOfName(author)) :
        (page - 1) * PerPage <= k /\ shas = Listed(author, k)

CommitsInv ==
    /\ author \in 1..(NumAuthors + 1) /\ page \in Nat \ {0} /\ missed \in BOOLEAN
    /\ shas \in Seq(Commits) /\ Len(shas) <= MaxCommits
    /\ step \in {"off", "root", "tree"} => Fresh
    /\ step = "commits" /\ ~missed =>
          /\ author <= NumAuthors => Paged
          /\ author > NumAuthors => shas = AllCommits
    /\ CommitsComplete

\* The size of a page.
LEMMA PerPageIs ==
    ASSUME shas \in Seq(Commits), Len(shas) <= MaxCommits
    PROVE  /\ PerPage = (IF PageLimit <= MaxCommits - Len(shas)
                         THEN PageLimit ELSE MaxCommits - Len(shas))
           /\ PerPage \in Nat /\ PerPage <= MaxCommits - Len(shas)
           /\ Len(shas) < MaxCommits => PerPage > 0
<1>1. PageLimit \in Nat \ {0} /\ MaxCommits \in Nat \ {0} /\ Len(shas) \in Nat
    BY GitHubAssumption
<1>. DEFINE l == MaxCommits - Len(shas)
<1>2. l \in Nat /\ PageLimit \in Int /\ l \in Int  BY <1>1
<1>3. PerPage = Min({PageLimit, l})  BY DEF PerPage
<1>. HIDE DEF l
<1>4. PerPage = IF PageLimit <= l THEN PageLimit ELSE l  BY <1>2, <1>3, MinOfTwo
<1>. QED  BY <1>1, <1>2, <1>4 DEF l

\* The page asked for: from after lo on to hi.
LEMMA PageIs ==
    ASSUME CommitsInv, CommitsOpen
    PROVE  \E lo, hi \in Nat :
              /\ author \in 1..NumAuthors /\ Authors[author] \in ToSet(Authors)
              /\ PerPage \in Nat \ {0} /\ lo = (page - 1) * PerPage
              /\ hi <= Len(CommitsOfName(author)) /\ hi <= lo + PerPage
              /\ PageOf(Authors[author]) = SubSeq(CommitsOfName(author), lo + 1, hi)
              /\ PageOf(Authors[author]) \in Seq(Commits)
              /\ Len(PageOf(Authors[author])) <= PerPage
              /\ IF LastPage(PageOf(Authors[author])) THEN hi = Len(CommitsOfName(author))
                 ELSE hi = page * PerPage
<1>. DEFINE C == CommitsOfName(author)
            PP == PerPage
            L == Len(C)
            hi == Min({page * PP, L})
            lo == (page - 1) * PP
            got == PageOf(Authors[author])
<1>1. author \in 1..NumAuthors /\ page \in Nat \ {0} /\ NumAuthors \in Nat
    BY NamesHaveCommits DEF CommitsInv, CommitsOpen, NumAuthors
<1>2. Authors[author] \in ToSet(Authors)
    BY <1>1, GitHubAssumption DEF ToSet, NumAuthors
<1>3. PP \in Nat \ {0}
    BY PerPageIs DEF CommitsInv, CommitsOpen
<1>4. C \in Seq(Commits) /\ L \in Nat  BY <1>1, NamesHaveCommits
<1>5. got = SubSeq(C, lo + 1, hi)  BY DEF PageOf, CommitsOfName
<1>6. page * PP = lo + PP /\ lo \in Nat
    <2>. HIDE DEF PP
    <2>1. PICK q \in Nat : page = q + 1
        <3>1. page - 1 \in Nat /\ page = (page - 1) + 1  BY <1>1
        <3>. QED  BY <3>1
    <2>2. q * PP \in Nat /\ (q + 1) * PP = q * PP + PP /\ page - 1 = q  BY <1>3, <2>1
    <2>. QED  BY <2>1, <2>2
<1>7. hi = IF page * PP <= L THEN page * PP ELSE L
    <2>. HIDE DEF PP, L
    <2>. DEFINE m == page * PP
    <2>1. m \in Int /\ L \in Int  BY <1>1, <1>3, <1>4
    <2>. HIDE DEF m
    <2>2. Min({m, L}) = IF m <= L THEN m ELSE L  BY <2>1, MinOfTwo
    <2>. QED  BY <2>2 DEF m
<1>. HIDE DEF PP, hi, lo, got, C, L
<1>8. hi \in Nat /\ hi <= L /\ hi <= lo + PP  BY <1>3, <1>4, <1>6, <1>7
<1>9. L = Len(C)  BY DEF L
<1>10. got \in Seq(Commits) /\ Len(got) = IF lo + 1 <= hi THEN hi - lo ELSE 0
    BY <1>4, <1>5, <1>6, <1>8, <1>9
<1>11. LastPage(got) <=> Len(got) < PP
    <2>1. got = <<>> => Len(got) = 0  OBVIOUS
    <2>. QED  BY <1>3, <1>10, <2>1 DEF LastPage, PP
<1>12. Len(got) <= PP  BY <1>3, <1>6, <1>8, <1>10
<1>13. IF LastPage(got) THEN hi = L ELSE hi = page * PP
    BY <1>3, <1>4, <1>6, <1>7, <1>8, <1>10, <1>11
<1>. QED
    BY <1>1, <1>2, <1>3, <1>4, <1>5, <1>6, <1>8, <1>10, <1>12, <1>13 DEF PP, lo, got, C, L

\* What of a listing a part of it holds.
LEMMA PartSet ==
    ASSUME NEW c \in Seq(Commits), NEW k \in 0..Len(c), NEW lo \in Nat, NEW hi \in Nat, hi <= k
    PROVE  /\ SubSeq(c, lo + 1, hi) \in Seq(Commits) /\ SubSeq(c, 1, k) \in Seq(Commits)
           /\ ToSet(SubSeq(c, lo + 1, hi)) \subseteq ToSet(SubSeq(c, 1, k))
<1>. DEFINE x == SubSeq(c, lo + 1, hi)
            y == SubSeq(c, 1, k)
<1>1. /\ y \in Seq(Commits) /\ DOMAIN y = 1..k /\ \A i \in 1..k : y[i] = c[i]
      /\ k \in Nat /\ k <= Len(c)
    OBVIOUS
<1>2. CASE lo + 1 > hi
    <2>1. x = <<>>  BY <1>2, SubSeqEmpty
    <2>2. x \in Seq(Commits) /\ ToSet(x) = {}  BY <2>1 DEF ToSet
    <2>. QED  BY <1>1, <2>2
<1>3. CASE lo + 1 <= hi
    <2>1. /\ x \in Seq(Commits) /\ DOMAIN x = 1..(hi - lo)
          /\ \A i \in 1..(hi - lo) : x[i] = c[lo + i]
        BY <1>1, <1>3
    <2>. HIDE DEF x, y
    <2>2. ASSUME NEW i \in 1..(hi - lo) PROVE lo + i \in 1..k /\ x[i] = y[lo + i]
        BY <1>1, <2>1
    <2>3. ToSet(x) \subseteq ToSet(y)  BY <1>1, <2>1, <2>2 DEF ToSet
    <2>. QED  BY <1>1, <2>1, <2>3 DEF x, y
<1>. QED  BY <1>2, <1>3

\* A page that begins where what is known may end brings the rest of itself.
LEMMA PageMerges ==
    ASSUME NEW n \in 1..NumAuthors, NEW k \in 0..Len(CommitsOfName(n)),
           NEW lo \in Nat, lo <= k, NEW hi \in 0..Len(CommitsOfName(n))
    PROVE  Merge(Listed(n, k), SubSeq(CommitsOfName(n), lo + 1, hi))
               = Listed(n, IF hi <= k THEN k ELSE hi)
<1>. DEFINE c == CommitsOfName(n)
            b == CommitsOfFirst[n - 1]
            x == SubSeq(c, 1, k)
<1>1. n - 1 \in 0..NumAuthors  BY NamesHaveCommits
<1>2. c \in Seq(Commits) /\ b \in Seq(Commits) /\ \A i, j \in 1..Len(c) : c[i] = c[j] => i = j
    BY <1>1, NamesHaveCommits, CommitsOfFirstSteps
<1>3. k \in 0..Len(c) /\ hi \in 0..Len(c)  OBVIOUS
<1>4. \A m : Listed(n, m) = Merge(b, SubSeq(c, 1, m))  BY DEF Listed
<1>. HIDE DEF c, b
<1>5. x \in Seq(Commits)  BY <1>2, <1>3
<1>. DEFINE s == Merge(b, x)
<1>6. s \in Seq(Commits) /\ ToSet(x) \subseteq ToSet(s)
    <2>. HIDE DEF x
    <2>1. b \in Seq(Commits)  BY <1>2
    <2>2. Merge(b, x) \in Seq(Commits) /\ ToSet(Merge(b, x)) = ToSet(b) \cup ToSet(x)
        BY <1>5, <2>1, MergeType
    <2>. QED  BY <2>2
<1>7. CASE hi <= k
    <2>. DEFINE t == SubSeq(c, lo + 1, hi)
    <2>1. t \in Seq(Commits) /\ ToSet(t) \subseteq ToSet(x)  BY <1>2, <1>3, <1>7, PartSet
    <2>. HIDE DEF t, s, x
    <2>2. ToSet(t) \subseteq ToSet(s)  BY <1>6, <2>1
    <2>3. Merge(s, t) = s  BY <1>6, <2>1, <2>2, MergeKnown
    <2>. QED  BY <1>4, <1>7, <2>3 DEF s, x, t, c
<1>8. CASE k < hi
    <2>. DEFINE t == SubSeq(c, lo + 1, k)
                u == SubSeq(c, k + 1, hi)
                v == SubSeq(c, lo + 1, hi)
                y == SubSeq(c, 1, hi)
    <2>1. t \in Seq(Commits) /\ ToSet(t) \subseteq ToSet(x)
        <3>1. k \in Nat /\ k <= k  BY <1>2, <1>3
        <3>. QED  BY <1>2, <1>3, <3>1, PartSet
    <2>2. hi \in k..Len(c)  BY <1>2, <1>3, <1>8
    <2>3. u \in Seq(Commits) /\ x \o u = y /\ ToSet(x) \cap ToSet(u) = {}
        BY <1>2, <1>3, <2>2, PartsOfCommits
    <2>4. v = t \o u  BY <1>2, <1>3, <1>8, ConcatAdjacentSubSeq
    <2>. HIDE DEF t, u, v, y, s, x
    <2>5. ToSet(t) \subseteq ToSet(s)  BY <1>6, <2>1
    <2>6. Merge(s, t \o u) = Merge(s, u)
        <3>1. u \in Seq(Commits)  BY <2>3
        <3>2. t \in Seq(Commits)  BY <2>1
        <3>3. s \in Seq(Commits)  BY <1>6
        <3>. QED  BY <2>5, <3>1, <3>2, <3>3, MergeKnown
    <2>7. Merge(b, x \o u) = Merge(Merge(b, x), u)
        <3>1. \A p, q, r \in Seq(Commits) : ToSet(q) \cap ToSet(r) = {} =>
                  Merge(p, q \o r) = Merge(Merge(p, q), r)
            BY MergeParts
        <3>2. b \in Seq(Commits)  BY <1>2
        <3>. QED  BY <1>5, <2>3, <3>1, <3>2, Zenon
    <2>8. Listed(n, hi) = Merge(s, v)  BY <1>4, <2>3, <2>4, <2>6, <2>7 DEF s, y
    <2>9. Listed(n, k) = s  BY <1>4 DEF s, x
    <2>. QED  BY <1>3, <1>8, <2>8, <2>9 DEF v, c
<1>. QED  BY <1>2, <1>3, <1>7, <1>8

\* The next name starts with what the names before left.
LEMMA NextName ==
    ASSUME NEW n \in 0..NumAuthors, NumAuthors >= n + 1
    PROVE  Listed(n + 1, 0) = CommitsOfFirst[n] /\ 0 \in 0..Len(CommitsOfName(n + 1))
<1>1. n + 1 \in 1..NumAuthors /\ (n + 1) - 1 = n  BY NamesHaveCommits
<1>2. Len(CommitsOfName(n + 1)) \in Nat  BY <1>1, NamesHaveCommits
<1>3. Listed(n + 1, 0) = CommitsOfFirst[(n + 1) - 1]
    <2>. DEFINE m == n + 1
    <2>1. m \in 1..NumAuthors  BY <1>1
    <2>. HIDE DEF m
    <2>2. Listed(m, 0) = CommitsOfFirst[m - 1]  BY <2>1, ListedEnds
    <2>. QED  BY <2>2 DEF m
<1>. QED  BY <1>1, <1>2, <1>3

LEMMA AskCommitsKeeps ==
    ASSUME CommitsInv, NEW answered \in BOOLEAN, AskCommits(answered)
    PROVE  CommitsInv'
<1>. DEFINE N == NumAuthors
            got == IF answered THEN PageOf(Authors[author]) ELSE <<>>
<1>1. /\ step = "commits" /\ step' = "commits" /\ CommitsOpen
      /\ shas' = Merge(shas, got) /\ missed' = (missed \/ ~answered)
      /\ IF LastPage(got) THEN author' = author + 1 /\ page' = 1
         ELSE page' = page + 1 /\ author' = author
    BY DEF AskCommits
<1>2. PICK lo, hi \in Nat :
          /\ author \in 1..N
          /\ PerPage \in Nat \ {0} /\ lo = (page - 1) * PerPage
          /\ hi <= Len(CommitsOfName(author)) /\ hi <= lo + PerPage
          /\ PageOf(Authors[author]) = SubSeq(CommitsOfName(author), lo + 1, hi)
          /\ PageOf(Authors[author]) \in Seq(Commits)
          /\ Len(PageOf(Authors[author])) <= PerPage
          /\ IF LastPage(PageOf(Authors[author])) THEN hi = Len(CommitsOfName(author))
             ELSE hi = page * PerPage
    BY <1>1, PageIs
<1>3. /\ N \in Nat /\ page \in Nat \ {0} /\ missed \in BOOLEAN
      /\ shas \in Seq(Commits) /\ Len(shas) <= MaxCommits /\ Len(shas) \in Nat
      /\ MaxCommits \in Nat
    BY NamesHaveCommits, GitHubAssumption DEF CommitsInv
<1>4. got \in Seq(Commits) /\ Len(got) <= PerPage /\ Len(got) \in Nat
    <2>1. <<>> \in Seq(Commits) /\ Len(<<>>) = 0  OBVIOUS
    <2>. QED  BY <1>2, <2>1
<1>5. ~answered => LastPage(got)  BY DEF LastPage
<1>6. answered => got = PageOf(Authors[author])  OBVIOUS
<1>. HIDE DEF got, N
<1>7. shas' \in Seq(Commits) /\ Len(shas') <= Len(shas) + Len(got) /\ Len(shas) <= Len(shas')
    <2>1. /\ Merge(shas, got) \in Seq(Commits)
          /\ Len(Merge(shas, got)) <= Len(shas) + Len(got) /\ Len(shas) <= Len(Merge(shas, got))
        BY <1>3, <1>4, MergeType
    <2>. QED  BY <1>1, <2>1
<1>8. PerPage <= MaxCommits - Len(shas)  BY <1>3, PerPageIs
<1>9. Len(shas') \in Nat /\ Len(shas') <= MaxCommits
    BY <1>2, <1>3, <1>4, <1>7, <1>8
<1>10. /\ author' \in 1..(N + 1) /\ page' \in Nat \ {0} /\ missed' \in BOOLEAN
    BY <1>1, <1>2, <1>3
<1>11. PerPage' \in Nat /\ PerPage' <= PerPage
    <2>1. /\ PerPage = (IF PageLimit <= MaxCommits - Len(shas)
                         THEN PageLimit ELSE MaxCommits - Len(shas))
        BY <1>3, PerPageIs
    <2>2. MaxCommits' = MaxCommits /\ PageLimit' = PageLimit /\ PageLimit \in Nat
        BY GitHubAssumption
    <2>3. PerPage' = (IF PageLimit <= MaxCommits - Len(shas')
                      THEN PageLimit ELSE MaxCommits - Len(shas'))
        <3>1. MaxCommits - Len(shas') \in Int /\ PageLimit \in Int  BY <1>3, <1>9, <2>2
        <3>2. PerPage' = Min({PageLimit, MaxCommits - Len(shas')})  BY DEF PerPage
        <3>. DEFINE l == MaxCommits - Len(shas')
        <3>3. l \in Int  BY <3>1
        <3>. HIDE DEF l
        <3>4. Min({PageLimit, l}) = IF PageLimit <= l THEN PageLimit ELSE l
            BY <3>1, <3>3, MinOfTwo
        <3>. QED  BY <3>2, <3>4 DEF l
    <2>. QED  BY <1>3, <1>7, <1>9, <2>1, <2>2, <2>3
<1>12. ASSUME ~missed'
       PROVE  /\ author' <= N => Paged'
              /\ author' > N => shas' = AllCommits
    <2>1. answered /\ ~missed  BY <1>1, <1>3, <1>12
    <2>2. PICK k \in 0..Len(CommitsOfName(author)) :
              (page - 1) * PerPage <= k /\ shas = Listed(author, k)
        BY <1>1, <1>2, <2>1 DEF CommitsInv, Paged, N
    <2>. DEFINE C == CommitsOfName(author)
                K == IF hi <= k THEN k ELSE hi
    <2>3. Len(C) \in Nat /\ K \in 0..Len(C) /\ hi \in 0..Len(C) /\ hi <= K
        BY <1>2, <2>2, NamesHaveCommits DEF N
    <2>4. shas' = Listed(author, K)
        <3>1. got = SubSeq(C, lo + 1, hi)  BY <1>2, <1>6, <2>1
        <3>2. author \in 1..NumAuthors /\ lo <= k  BY <1>2, <2>2 DEF N
        <3>3. Merge(Listed(author, k), SubSeq(C, lo + 1, hi)) = Listed(author, K)
            BY <2>2, <2>3, <3>2, PageMerges
        <3>. QED  BY <1>1, <2>2, <3>1, <3>3
    <2>5. CASE LastPage(got)
        <3>1. K = Len(C)
            <4>1. hi = Len(C)  BY <1>2, <1>6, <2>1, <2>5
            <4>. QED  BY <2>2, <2>3, <4>1
        <3>2. shas' = CommitsOfFirst[author]  BY <1>2, <2>4, <3>1, ListedEnds DEF N
        <3>3. author' = author + 1 /\ page' = 1  BY <1>1, <2>5
        <3>4. ASSUME author' <= N PROVE Paged'
            <4>1. author \in 0..NumAuthors /\ NumAuthors >= author + 1
                BY <1>2, <1>3, <3>3, <3>4 DEF N
            <4>2. Listed(author + 1, 0) = CommitsOfFirst[author]
                  /\ 0 \in 0..Len(CommitsOfName(author + 1))
                BY <4>1, NextName
            <4>3. (page' - 1) * PerPage' <= 0
                <5>1. page' - 1 = 0  BY <3>3
                <5>2. 0 * PerPage' = 0
                    <6>1. \A q \in Nat : 0 * q = 0  OBVIOUS
                    <6>. QED  BY <1>11, <6>1
                <5>. QED  BY <5>1, <5>2
            <4>4. /\ 0 \in 0..Len(CommitsOfName(author)')
                  /\ shas' = Listed(author, 0)'
                BY <3>2, <3>3, <4>2 DEF CommitsOfName, Listed
            <4>. QED  BY <4>3, <4>4 DEF Paged
        <3>5. ASSUME author' > N PROVE shas' = AllCommits
            <4>1. author = N  BY <1>2, <1>3, <3>3, <3>5
            <4>. QED  BY <3>2, <4>1 DEF AllCommits, N, NumAuthors
        <3>. QED  BY <3>4, <3>5
    <2>6. CASE ~LastPage(got)
        <3>1. hi = page * PerPage /\ page' = page + 1 /\ author' = author
            BY <1>1, <1>2, <1>6, <2>1, <2>6
        <3>2. (page' - 1) * PerPage' <= K
            <4>1. page' - 1 = page  BY <1>3, <3>1
            <4>2. page * PerPage' <= page * PerPage
                <5>1. \A m, n, q \in Nat : m <= n => q * m <= q * n  BY TimesMore
                <5>2. PerPage \in Nat /\ page \in Nat  BY <1>2, <1>3
                <5>. QED  BY <1>11, <5>1, <5>2, Zenon
            <4>3. page * PerPage' \in Nat
                <5>1. \A m, n \in Nat : m * n \in Nat  OBVIOUS
                <5>2. page \in Nat  BY <1>3
                <5>. QED  BY <1>11, <5>1, <5>2, Zenon
            <4>. QED  BY <2>3, <3>1, <4>1, <4>2, <4>3
        <3>3. K \in 0..Len(CommitsOfName(author)') /\ shas' = Listed(author, K)'
            BY <2>3, <2>4, <3>1 DEF CommitsOfName, Listed
        <3>4. Paged'
            <4>. HIDE DEF K
            <4>. QED  BY <3>2, <3>3 DEF Paged
        <3>. QED  BY <1>2, <1>3, <3>1, <3>4
    <2>. QED  BY <2>5, <2>6
<1>. QED
    BY <1>1, <1>7, <1>9, <1>10, <1>12 DEF CommitsInv, CommitsComplete, N, NumAuthors

\* When no name is left or there are enough, what is listed is the beginning of all.
LEMMA CommitsDoneKeeps ==
    ASSUME CommitsInv, CommitsDone
    PROVE  CommitsInv'
<1>1. /\ step = "commits" /\ step' = "details" /\ ~CommitsOpen
      /\ UNCHANGED <<author, page, shas, missed>>
    BY DEF CommitsDone
<1>. DEFINE all == AllCommits
<1>2. /\ author \in 1..(NumAuthors + 1) /\ NumAuthors \in Nat
      /\ shas \in Seq(Commits) /\ Len(shas) <= MaxCommits /\ Len(shas) \in Nat
      /\ MaxCommits \in Nat
    BY NamesHaveCommits, GitHubAssumption DEF CommitsInv
<1>3. all \in Seq(Commits) /\ Len(all) \in Nat
    <2>1. CommitsOfFirst[NumAuthors] \in Seq(Commits)  BY <1>2, CommitsOfFirstSteps
    <2>. QED  BY <2>1 DEF AllCommits, NumAuthors
<1>4. ASSUME ~missed
      PROVE  \E v \in Seq(Commits) : /\ all = shas \o v
                                     /\ Len(shas) < MaxCommits => v = <<>>
    <2>1. CASE author > NumAuthors
        <3>1. shas = all  BY <1>1, <1>4, <2>1 DEF CommitsInv
        <3>2. <<>> \in Seq(Commits) /\ shas \o <<>> = shas  BY <1>2, ConcatEmptySeq
        <3>. QED  BY <3>1, <3>2
    <2>2. CASE author <= NumAuthors
        <3>1. author \in 1..NumAuthors  BY <1>2, <2>2
        <3>2. PICK k \in 0..Len(CommitsOfName(author)) : shas = Listed(author, k)
            BY <1>1, <1>4, <2>2 DEF CommitsInv, Paged
        <3>3. PICK v \in Seq(Commits) : all = shas \o v  BY <3>1, <3>2, ListedBeginsAll
        <3>4. ~(Len(shas) < MaxCommits)  BY <1>1, <2>2 DEF CommitsOpen, NumAuthors
        <3>. QED  BY <3>3, <3>4
    <2>. QED  BY <1>2, <2>1, <2>2
<1>5. ASSUME ~missed PROVE shas = SubSeq(all, 1, Min({MaxCommits, Len(all)}))
    <2>1. PICK v \in Seq(Commits) :
              /\ all = shas \o v
              /\ Len(shas) < MaxCommits => v = <<>>
        BY <1>4, <1>5
    <2>. HIDE DEF all
    <2>2. Len(all) = Len(shas) + Len(v) /\ Len(v) \in Nat
        BY <1>2, <2>1
    <2>3. v = <<>> => Len(v) = 0  OBVIOUS
    <2>4. Min({MaxCommits, Len(all)}) = Len(shas)
        <3>1. Min({MaxCommits, Len(all)}) =
                  IF MaxCommits <= Len(all) THEN MaxCommits ELSE Len(all)
            <4>. DEFINE l == Len(all)
            <4>1. l \in Int /\ MaxCommits \in Int  BY <1>2, <1>3
            <4>. HIDE DEF l
            <4>2. Min({MaxCommits, l}) = IF MaxCommits <= l THEN MaxCommits ELSE l
                BY <4>1, MinOfTwo
            <4>. QED  BY <4>2 DEF l
        <3>. QED  BY <1>2, <1>3, <2>1, <2>2, <2>3, <3>1
    <2>5. SubSeq(shas \o v, 1, Len(shas)) = shas
        BY <1>2
    <2>. QED  BY <2>1, <2>4, <2>5
<1>6. CommitsComplete'
    <2>1. all' = all  BY DEF AllCommits, CommitsOfFirst
    <2>. QED  BY <1>1, <1>5 DEF CommitsComplete
<1>. QED  BY <1>1, <1>2, <1>6 DEF CommitsInv

\* No commit is listed at first.
LEMMA NothingListed ==
    /\ 1 \in 1..(NumAuthors + 1) /\ 1 \in Nat \ {0} /\ FALSE \in BOOLEAN
    /\ <<>> \in Seq(Commits) /\ Len(<<>>) <= MaxCommits
<1>1. NumAuthors \in Nat /\ MaxCommits \in Nat  BY NamesHaveCommits, GitHubAssumption
<1>2. <<>> \in Seq(Commits) /\ Len(<<>>) = 0  OBVIOUS
<1>. QED  BY <1>1, <1>2

\* Of all steps only those of a repository concern its commits.
LEMMA CommitsKeep ==
    ASSUME CommitsInv, [FetchNext]_fetchVars
    PROVE  CommitsInv'
<1>. DEFINE own == <<author, page, shas, missed>>
<1>1. ASSUME UNCHANGED own, \/ step' = step \/ step' = "raised"
                            \/ step = "details" /\ step' \in {"files", "done"}
                            \/ step = "files" /\ step' = "done"
                            \/ step = "root" /\ step' = "tree"
      PROVE  CommitsInv'
    <2>1. CommitsComplete'
        BY <1>1 DEF CommitsInv, CommitsComplete
    <2>2. PerPage' = PerPage  BY <1>1 DEF PerPage
    <2>3. Paged' <=> Paged
        BY <1>1, <2>2 DEF Paged, Listed, CommitsOfName
    <2>. QED  BY <1>1, <2>1, <2>3 DEF CommitsInv, Fresh
<1>2. ASSUME Fresh', step' \in {"off", "root"}
      PROVE  CommitsInv'
    <2>1. /\ author' \in 1..(NumAuthors + 1) /\ page' \in Nat \ {0} /\ missed' \in BOOLEAN
          /\ shas' \in Seq(Commits) /\ Len(shas') <= MaxCommits
        BY <1>2, NothingListed DEF Fresh
    <2>2. NumAuthors' = NumAuthors  BY DEF NumAuthors
    <2>3. step' \notin {"commits", "details", "files", "done"}  BY <1>2
    <2>. QED  BY <1>2, <2>1, <2>2, <2>3 DEF CommitsInv, CommitsComplete
<1>3. ASSUME TreeDone PROVE CommitsInv'
    <2>1. Fresh /\ UNCHANGED own /\ step' = "commits"
        BY <1>3 DEF TreeDone, CommitsInv
    <2>2. NumAuthors \in Nat  BY NamesHaveCommits
    <2>3. ASSUME author <= NumAuthors PROVE Paged'
        <3>1. 1 \in 1..NumAuthors /\ author' = 1 /\ page' = 1 /\ shas' = <<>>
            BY <2>1, <2>2, <2>3 DEF Fresh
        <3>2. Listed(1, 0) = <<>>  BY <3>1, ListedEnds, CommitsOfFirstSteps
        <3>3. 0 \in 0..Len(CommitsOfName(1))  BY <3>1, NamesHaveCommits
        <3>4. PerPage' = PerPage /\ PerPage \in Nat
            BY <2>1, PerPageIs DEF PerPage, CommitsInv
        <3>5. (page' - 1) * PerPage' <= 0
            <4>1. page' - 1 = 0 /\ \A q \in Nat : 0 * q = 0  BY <3>1
            <4>. QED  BY <3>4, <4>1
        <3>6. 0 \in 0..Len(CommitsOfName(author)') /\ shas' = Listed(author, 0)'
            BY <3>1, <3>2, <3>3 DEF CommitsOfName, Listed
        <3>. QED  BY <3>5, <3>6 DEF Paged
    <2>4. ASSUME author > NumAuthors PROVE shas = AllCommits
        <3>1. NumAuthors = 0  BY <2>1, <2>2, <2>4 DEF Fresh
        <3>. QED  BY <2>1, <3>1, CommitsOfFirstSteps DEF Fresh, AllCommits, NumAuthors
    <2>5. AllCommits' = AllCommits  BY DEF AllCommits
    <2>. QED  BY <2>1, <2>3, <2>4, <2>5 DEF CommitsInv, CommitsComplete, NumAuthors
<1>4. CASE RetrySession
    BY <1>2, <1>4 DEF RetrySession, OpenSession, Fresh
<1>5. CASE RetryFiles  BY <1>1, <1>5 DEF RetryFiles
<1>6. CASE SessionRaises  BY <1>1, <1>6 DEF SessionRaises
<1>7. CASE \E readme, answered \in BOOLEAN : AskRoot(readme, answered)
    BY <1>1, <1>7 DEF AskRoot
<1>8. CASE \E answered \in SUBSET Dir : AskBatch(answered)
    BY <1>1, <1>8 DEF AskBatch
<1>9. CASE TreeDone  BY <1>3, <1>9
<1>10. CASE \E answered \in BOOLEAN : AskCommits(answered)
    BY <1>10, AskCommitsKeeps
<1>11. CASE CommitsDone  BY <1>11, CommitsDoneKeeps
<1>12. CASE \E answered \in SUBSET Commits : AskDetails(answered)
    <2>1. PICK answered \in SUBSET Commits : AskDetails(answered)  BY <1>12
    <2>2. UNCHANGED own /\ step = "details" /\ step' \in {"files", "done"}
        BY <2>1 DEF AskDetails
    <2>. QED  BY <1>1, <2>2
<1>13. CASE \E answered \in SUBSET File : AskFiles(answered)
    BY <1>1, <1>13 DEF AskFiles
<1>14. CASE StartGitHub
    BY <1>2, <1>14 DEF StartGitHub, FetchRepo, OpenSession, Fresh
<1>15. CASE EndGitHub
    BY <1>2, <1>15 DEF EndGitHub, CloseRepo, Fresh
<1>16. CASE UNCHANGED gitHubVars
    BY <1>1, <1>16 DEF gitHubVars
<1>17. CASE FetchNext /\ ~GitHubNext /\ ~StartGitHub /\ ~EndGitHub
    <2>1. UNCHANGED gitHubVars
        BY <1>17
        DEF FetchNext, StartNotion, SkipLink, Collecting, EndNotion, NotionRaises,
            StartExtracting, Take, Extracted, ExtractFails, Assemble
    <2>. QED  BY <1>16, <2>1
<1>18. CASE UNCHANGED fetchVars  BY <1>16, <1>18 DEF fetchVars
<1>. QED
    BY <1>4, <1>5, <1>6, <1>7, <1>8, <1>9, <1>10, <1>11, <1>12, <1>13, <1>14, <1>15, <1>17, <1>18
    DEF GitHubNext

LEMMA CommitsStart ==
    FetchInit => CommitsInv
<1>1. ASSUME Fresh
      PROVE  /\ author \in 1..(NumAuthors + 1) /\ page \in Nat \ {0} /\ missed \in BOOLEAN
             /\ shas \in Seq(Commits) /\ Len(shas) <= MaxCommits
    BY <1>1, NothingListed DEF Fresh
<1>2. FetchInit => Fresh /\ step = "off"  BY DEF FetchInit, GitHubInit, Fresh
<1>. QED  BY <1>1, <1>2 DEF CommitsInv, CommitsComplete

\* However the lists of the names overlap and whatever the sizes of the pages: when
\* every page was answered the commits are the first of all, none left out, none twice.
THEOREM CommitsCompleteHolds == FetchSpec => []CommitsComplete
<1>1. FetchInit => CommitsInv  BY CommitsStart
<1>2. CommitsInv => CommitsComplete  BY DEF CommitsInv
<1>. QED  BY <1>1, <1>2, CommitsKeep, PTL DEF FetchSpec

---------------------------------------------------------------------------
(* The directories of a repository *)

\* The least of some numbers.
LEMMA LeastOf ==
    ASSUME NEW S \in SUBSET Nat, S # {}
    PROVE  Min(S) \in S /\ \A n \in S : Min(S) <= n
<1>1. IsWellFoundedOn(Less, Nat)  BY NatLessThanWellFounded DEF OpToRel, Less
<1>2. \E m \in S : \A n \in S : <<n, m>> \notin Less  BY <1>1, WFMin
<1>3. PICK m \in S : \A n \in S : <<n, m>> \notin Less  BY <1>2
<1>4. \A n \in S : ~ (n < m)  BY <1>3 DEF Less
<1>5. \A n \in S : m <= n  BY <1>4
<1>. QED  BY <1>5 DEF Min

\* A sequence has no more elements than places.
LEMMA CountedWith ==
    ASSUME NEW D, IsFiniteSet(D), NEW S, NEW s \in Seq(S)
    PROVE  /\ IsFiniteSet(D \cup ToSet(s))
           /\ Cardinality(D \cup ToSet(s)) <= Cardinality(D) + Len(s)
<1>. DEFINE Holds(q) == /\ IsFiniteSet(D \cup ToSet(q))
                        /\ Cardinality(D \cup ToSet(q)) <= Cardinality(D) + Len(q)
            T == {q \in Seq(S) : Holds(q)}
<1>1. <<>> \in T
    <2>. DEFINE none == <<>>
    <2>1. none \in Seq(S) /\ Len(none) = 0 /\ D \cup ToSet(none) = D  BY DEF ToSet
    <2>2. Cardinality(D) \in Nat  BY FS_CardinalityType
    <2>. HIDE DEF none
    <2>3. Holds(none)
        <3>. DEFINE E == D \cup ToSet(none)
        <3>1. E = D  BY <2>1
        <3>. HIDE DEF E
        <3>2. IsFiniteSet(E) /\ Cardinality(E) <= Cardinality(D) + Len(none)
            BY <2>1, <2>2, <3>1
        <3>. QED  BY <3>2 DEF E
    <2>4. none \in T  BY <2>1, <2>3
    <2>. QED  BY <2>4 DEF none
<1>2. ASSUME NEW q \in Seq(S), NEW x \in S, q \in T PROVE Append(q, x) \in T
    <2>1. ToSet(Append(q, x)) = ToSet(q) \cup {x}  BY AppendSet
    <2>2. Append(q, x) \in Seq(S) /\ Len(Append(q, x)) = Len(q) + 1 /\ Len(q) \in Nat
        OBVIOUS
    <2>. DEFINE U == D \cup ToSet(q)
    <2>3. IsFiniteSet(U) /\ Cardinality(U) <= Cardinality(D) + Len(q)  BY <1>2
    <2>4. D \cup ToSet(Append(q, x)) = U \cup {x}  BY <2>1
    <2>. HIDE DEF U
    <2>5. /\ IsFiniteSet(U \cup {x})
          /\ Cardinality(U \cup {x}) = IF x \in U THEN Cardinality(U) ELSE Cardinality(U) + 1
        <3>1. IsFiniteSet(U)  BY <2>3
        <3>. QED  BY <3>1, FS_AddElement
    <2>6. Cardinality(U) \in Nat /\ Cardinality(D) \in Nat  BY <2>3, FS_CardinalityType
    <2>7. Holds(Append(q, x))
        <3>. DEFINE E == D \cup ToSet(Append(q, x))
                    V == U \cup {x}
        <3>1. E = V  BY <2>4
        <3>. HIDE DEF E, V
        <3>2. IsFiniteSet(V) /\ Cardinality(V) <= Cardinality(U) + 1
            BY <2>5, <2>6 DEF V
        <3>3. IsFiniteSet(E) /\ Cardinality(E) <= Cardinality(D) + Len(Append(q, x))
            <4>1. Cardinality(V) \in Nat  BY <3>2, FS_CardinalityType
            <4>. QED  BY <2>2, <2>3, <2>6, <3>1, <3>2, <4>1
        <3>. QED  BY <3>3 DEF E
    <2>. QED  BY <2>2, <2>7
<1>. HIDE DEF T
<1>3. s \in T  BY <1>1, <1>2, SeqInduction
<1>. QED  BY <1>3 DEF T

\* The directories that are passed over.
PassedOver == dirs \cup {d \in Dir : Level[d] >= MaxLevel}

\* The queue is taken up to a place, where the batch is full or the queue at its end.
LEMMA TakenIs ==
    ASSUME queue \in Seq(Dir)
    PROVE  /\ Taken \in 0..Len(queue)
           /\ Taken = Len(queue) \/ Len(Wanted(SubSeq(queue, 1, Taken))) = Room
           /\ \A n \in 0..Len(queue) : n < Taken =>
                 n # Len(queue) /\ Len(Wanted(SubSeq(queue, 1, n))) # Room
<1>. DEFINE S == {n \in 0..Len(queue) :
                     n = Len(queue) \/ Len(Wanted(SubSeq(queue, 1, n))) = Room}
<1>1. Len(queue) \in Nat  OBVIOUS
<1>2. S \in SUBSET Nat /\ Len(queue) \in S  BY <1>1
<1>3. Taken = Min(S)  BY DEF Taken
<1>. DEFINE T == S
<1>4. Min(T) \in T /\ \A n \in T : Min(T) <= n
    <2>1. T \in SUBSET Nat /\ T # {}  BY <1>2
    <2>. HIDE DEF T
    <2>. QED  BY <2>1, LeastOf
<1>5. Taken \in S /\ \A n \in S : Taken <= n  BY <1>3, <1>4
<1>. QED  BY <1>1, <1>5

\* No more are asked for than there is room for.
LEMMA BatchFits ==
    ASSUME queue \in Seq(Dir), Room \in Nat
    PROVE  Batch \in Seq(Dir) /\ Len(Batch) <= Room
<1>. DEFINE pre(n) == SubSeq(queue, 1, n)
            P == {n \in 0..Taken : Len(Wanted(pre(n))) <= Room}
<1>1. /\ Taken \in 0..Len(queue) /\ Taken \in Nat /\ Len(queue) \in Nat
      /\ \A n \in 1..Len(queue) : queue[n] \in Dir
    BY TakenIs
<1>2. ASSUME NEW n \in 0..Taken
      PROVE  pre(n) \in Seq(Dir) /\ Wanted(pre(n)) \in Seq(Dir)
    <2>1. pre(n) \in Seq(Dir)  BY <1>1
    <2>. HIDE DEF pre
    <2>. QED  BY <2>1, WithoutType DEF Wanted
<1>3. 0 \in P
    <2>1. pre(0) = <<>>  BY SubSeqEmpty
    <2>2. Wanted(pre(0)) = <<>>  BY <2>1, WithoutEmpty DEF Wanted
    <2>. QED  BY <1>1, <2>2
<1>4. ASSUME NEW n \in 0..Taken, n < Taken, n \in P PROVE n + 1 \in P
    <2>1. n + 1 \in 1..Len(queue) /\ n + 1 \in 0..Taken /\ n \in 0..Len(queue)
        BY <1>1, <1>4
    <2>2. Len(Wanted(pre(n))) # Room  BY <1>4, <2>1, TakenIs
    <2>3. pre(n + 1) = Append(pre(n), queue[n + 1])  BY <1>1, <2>1
    <2>. DEFINE x == queue[n + 1]
                p == pre(n)
                w == Wanted(p)
    <2>4. x \in Dir /\ p \in Seq(Dir) /\ w \in Seq(Dir) /\ Len(w) <= Room
        BY <1>1, <1>2, <1>4, <2>1
    <2>. HIDE DEF x, p
    <2>5. Wanted(Append(p, x)) = IF x \in PassedOver THEN w ELSE Append(w, x)
        BY <2>4, WithoutAppend DEF Wanted, PassedOver
    <2>. HIDE DEF w
    <2>6. Len(Append(w, x)) = Len(w) + 1 /\ Len(w) \in Nat  BY <2>4
    <2>7. Len(w) # Room  BY <2>2 DEF w, p
    <2>8. Len(Wanted(Append(p, x))) <= Room  BY <2>4, <2>5, <2>6, <2>7
    <2>. QED  BY <2>1, <2>3, <2>8 DEF p, x
<1>5. Taken \in P
    <2>. HIDE DEF P
    <2>1. \A n \in 0..Taken : n \in P  BY <1>1, <1>3, <1>4, BoundedInduction
    <2>. QED  BY <1>1, <2>1
<1>. QED  BY <1>1, <1>2, <1>5 DEF Batch

\* What is taken of the queue is asked for, or passed over.
LEMMA BatchSet ==
    ASSUME queue \in Seq(Dir)
    PROVE  /\ ToSet(Batch) = ToSet(SubSeq(queue, 1, Taken)) \ PassedOver
           /\ ToSet(Batch) \subseteq Dir
           /\ SubSeq(queue, Taken + 1, Len(queue)) \in Seq(Dir)
           /\ ToSet(queue) = ToSet(SubSeq(queue, 1, Taken))
                                \cup ToSet(SubSeq(queue, Taken + 1, Len(queue)))
<1>. DEFINE x == SubSeq(queue, 1, Taken)
            y == SubSeq(queue, Taken + 1, Len(queue))
<1>1. Taken \in 0..Len(queue) /\ Taken \in Nat /\ Len(queue) \in Nat  BY TakenIs
<1>2. x \in Seq(Dir) /\ y \in Seq(Dir)  BY <1>1
<1>3. x \o y = queue
    <2>. DEFINE t == Taken
                l == Len(queue)
    <2>0. t \in Nat /\ l \in Nat /\ t <= l /\ l = Len(queue)  BY <1>1
    <2>1. x \o y = SubSeq(queue, 1, l)
        <3>. HIDE DEF t, l
        <3>1. 1 \in 1..(Len(queue) + 1) /\ t \in (1 - 1)..Len(queue) /\ l \in t..Len(queue)
            BY <2>0
        <3>2. SubSeq(queue, 1, t) \o SubSeq(queue, t + 1, l) = SubSeq(queue, 1, l)
            BY <3>1, ConcatAdjacentSubSeq
        <3>. QED  BY <3>2 DEF t, l
    <2>. QED  BY <2>1, SubSeqFull
<1>4. Batch = Without(x, PassedOver)  BY DEF Batch, Wanted, PassedOver
<1>. HIDE DEF x, y
<1>5. ToSet(Batch) = ToSet(x) \ PassedOver
    <2>1. /\ ToSet(Without(x, PassedOver)) = ToSet(x) \ PassedOver
          /\ Len(Without(x, PassedOver)) <= Len(x)
        <3>1. x \in Seq(Dir)  BY <1>2
        <3>. QED  BY <3>1, WithoutSet
    <2>. QED  BY <1>4, <2>1
<1>6. ToSet(queue) = ToSet(x) \cup ToSet(y)
    <2>1. ToSet(x \o y) = ToSet(x) \cup ToSet(y)  BY <1>2, ConcatSet
    <2>. QED  BY <1>3, <2>1
<1>7. ToSet(x) \subseteq Dir
    <2>1. DOMAIN x = 1..Len(x) /\ \A i \in 1..Len(x) : x[i] \in Dir  BY <1>2
    <2>. QED  BY <2>1 DEF ToSet
<1>. QED  BY <1>2, <1>5, <1>6, <1>7 DEF x, y

\* The queue after the batch: what was left of it, and what was named and is not known.
LEMMA RequeuedSet ==
    ASSUME queue \in Seq(Dir), Batch \in Seq(Dir), NEW answered,
           SubSeq(queue, Taken + 1, Len(queue)) \in Seq(Dir)
    PROVE  /\ Requeued(answered) \in Seq(Dir)
           /\ Batch = <<>> => Requeued(answered) = SubSeq(queue, Taken + 1, Len(queue))
           /\ ToSet(SubSeq(queue, Taken + 1, Len(queue))) \subseteq ToSet(Requeued(answered))
           /\ \A n \in 1..Len(Batch) : Batch[n] \in answered =>
                 ToSet(DirsIn[Batch[n]])
                     \subseteq dirs \cup ToSet(Batch) \cup ToSet(Requeued(answered))
<1>. DEFINE Q == Seq(Dir)
            N == Len(Batch)
            rest == SubSeq(queue, Taken + 1, Len(queue))
            Known(n, q) == dirs \cup {Batch[m] : m \in 1..n} \cup ToSet(q)
            Named1(n) == Named(Batch[n], Batch[n] \in answered)
            More(n, q) == Without(Named1(n), Known(n, q))
            Adds(n, q) == q \o More(n, q)
            go == [n \in 1..N |-> [q \in Q |-> Adds(n, q)]]
            Rec(f) == f = [n \in 0..N |-> IF n = 0 THEN rest ELSE Adds(n, f[n - 1])]
<1>1. N \in Nat /\ rest \in Q  OBVIOUS
<1>2. ASSUME NEW n \in 1..N
      PROVE  Batch[n] \in Dir /\ Named1(n) \in Q
    <2>1. Batch[n] \in Dir  OBVIOUS
    <2>2. DirsIn[Batch[n]] \in Seq(Dir) /\ <<>> \in Seq(Dir)  BY <2>1, GitHubAssumption, SMTT(30)
    <2>. QED  BY <2>1, <2>2 DEF Named
<1>3. ASSUME NEW n \in 1..N, NEW q \in Q
      PROVE  /\ More(n, q) \in Q /\ Adds(n, q) \in Q /\ go[n][q] = Adds(n, q)
             /\ ToSet(Adds(n, q)) = ToSet(q) \cup (ToSet(Named1(n)) \ Known(n, q))
    <2>1. Named1(n) \in Seq(Dir)  BY <1>2
    <2>. DEFINE m == More(n, q)
                a == Named1(n)
                k == Known(n, q)
    <2>2. go[n][q] = q \o m  OBVIOUS
    <2>3. q \in Seq(Dir)  OBVIOUS
    <2>4. m = Without(a, k)  OBVIOUS
    <2>5. a \in Seq(Dir)  BY <2>1
    <2>. HIDE DEF Q, m, a, k, go
    <2>6. Without(a, k) \in Seq(Dir)  BY <2>5, WithoutType
    <2>7. ToSet(Without(a, k)) = ToSet(a) \ k /\ Len(Without(a, k)) <= Len(a)
        BY <2>5, WithoutSet
    <2>8. m \in Seq(Dir)  BY <2>4, <2>6
    <2>9. q \o m \in Seq(Dir)  BY <2>3, <2>8
    <2>10. ToSet(q \o m) = ToSet(q) \cup ToSet(m)  BY <2>3, <2>8, ConcatSet
    <2>. QED  BY <2>2, <2>4, <2>7, <2>8, <2>9, <2>10 DEF Q, m, a, k
<1>4. Requeued(answered) = (CHOOSE h : Rec(h))[N]
    BY DEF Requeued
<1>5. ASSUME NEW n \in 1..N PROVE n - 1 \in 0..N /\ n \in 0..N /\ n # 0  BY <1>1
<1>6. ASSUME NEW n \in 1..N
      PROVE  \A m \in 1..n : Batch[m] \in ToSet(Batch)
    <2>1. DOMAIN Batch = 1..N /\ \A m \in 1..n : m \in 1..N  BY <1>1
    <2>. QED  BY <2>1 DEF ToSet
<1>. HIDE DEF N, Q, rest, go, More, Named1
<1>7. PICK f : Follows(f, N, Q, rest, go)
    <2>1. \A n \in 1..N : \A d \in Q : go[n][d] \in Q  BY <1>3
    <2>. HIDE DEF Adds
    <2>. QED  BY <1>1, <2>1, Recursion
<1>8. \A n \in 1..N : f[n] = Adds(n, f[n - 1])  BY <1>3, <1>5, <1>7 DEF Follows
<1>. DEFINE g == [n \in 0..N |-> f[n]]
<1>9. Rec(g)
    <2>1. ASSUME NEW n \in 0..N
          PROVE  f[n] = IF n = 0 THEN rest ELSE Adds(n, g[n - 1])
        <3>1. CASE n = 0  BY <3>1, <1>7 DEF Follows
        <3>2. CASE n # 0
            <4>1. n \in 1..N  BY <1>1, <3>2
            <4>2. g[n - 1] = f[n - 1]  BY <4>1, <1>5
            <4>3. f[n] = Adds(n, f[n - 1])  BY <4>1, <1>8
            <4>. HIDE DEF g, Adds
            <4>. QED  BY <4>2, <4>3, <3>2
        <3>. QED  BY <3>1, <3>2
    <2>. HIDE DEF Adds
    <2>. QED  BY <2>1
<1>. HIDE DEF g
<1>. DEFINE c == CHOOSE h : Rec(h)
<1>10. Rec(c)  BY <1>9
<1>. HIDE DEF c
<1>. HIDE DEF Adds
<1>11. c[0] = rest /\ \A n \in 1..N : c[n] = Adds(n, c[n - 1])
    <2>1. \A n \in 0..N : c[n] = IF n = 0 THEN rest ELSE Adds(n, c[n - 1])  BY <1>10
    <2>2. 0 \in 0..N  BY <1>1
    <2>. QED  BY <1>5, <2>1, <2>2
\* So far: what was left, and what the first n named.
<1>. DEFINE T == {n \in 0..N : /\ c[n] \in Q /\ ToSet(rest) \subseteq ToSet(c[n])
                               /\ \A m \in 1..n : ToSet(Named1(m))
                                      \subseteq dirs \cup ToSet(Batch) \cup ToSet(c[n])}
<1>12. 0 \in T
    <2>1. 1..0 = {} /\ 0 \in 0..N  BY <1>1
    <2>. QED  BY <2>1, <1>1, <1>11
<1>13. ASSUME NEW n \in 0..N, n < N, n \in T PROVE n + 1 \in T
    <2>1. n + 1 \in 1..N /\ n + 1 \in 0..N /\ (n + 1) - 1 = n
          /\ \A m \in 1..(n + 1) : m = n + 1 \/ m \in 1..n
        BY <1>1, <1>13
    <2>2. c[n] \in Q  BY <1>13
    <2>3. c[n + 1] = Adds(n + 1, c[n])  BY <2>1, <1>11
    <2>4. c[n + 1] \in Q /\ ToSet(c[n + 1]) =
              ToSet(c[n]) \cup (ToSet(Named1(n + 1)) \ Known(n + 1, c[n]))
        <3>. DEFINE m == n + 1
                    q == c[n]
        <3>1. m \in 1..N /\ q \in Q  BY <2>1, <2>2
        <3>. HIDE DEF m, q, Known
        <3>2. Adds(m, q) \in Q
              /\ ToSet(Adds(m, q)) = ToSet(q) \cup (ToSet(Named1(m)) \ Known(m, q))
            BY <1>3, <3>1
        <3>. QED  BY <2>3, <3>2 DEF m, q
    <2>5. Known(n + 1, c[n]) \subseteq dirs \cup ToSet(Batch) \cup ToSet(c[n])
        BY <1>6, <2>1
    <2>. HIDE DEF Known
    <2>6. ToSet(c[n]) \subseteq ToSet(c[n + 1]) /\ ToSet(rest) \subseteq ToSet(c[n + 1])
        BY <1>13, <2>4
    <2>7. ASSUME NEW m \in 1..(n + 1)
          PROVE  ToSet(Named1(m)) \subseteq dirs \cup ToSet(Batch) \cup ToSet(c[n + 1])
        <3>1. CASE m = n + 1  BY <2>4, <2>5, <2>6, <3>1
        <3>2. CASE m \in 1..n
            <4>1. ToSet(Named1(m)) \subseteq dirs \cup ToSet(Batch) \cup ToSet(c[n])
                BY <1>13, <3>2
            <4>. QED  BY <2>6, <4>1
        <3>. QED  BY <2>1, <3>1, <3>2
    <2>. QED  BY <2>1, <2>4, <2>6, <2>7
<1>14. N \in T
    <2>. HIDE DEF T
    <2>1. \A n \in 0..N : n \in T  BY <1>1, <1>12, <1>13, BoundedInduction
    <2>2. N \in 0..N  BY <1>1
    <2>. QED  BY <2>1, <2>2
<1>15. Requeued(answered) = c[N]  BY <1>4 DEF c
<1>16. \A n \in 1..N : Batch[n] \in answered => Named1(n) = DirsIn[Batch[n]]
    BY DEF Named1, Named
<1>17. Batch = <<>> => N = 0  BY DEF N
<1>. HIDE DEF Rec
<1>. QED  BY <1>11, <1>14, <1>15, <1>16, <1>17 DEF N, Q, rest

\* What an answer named, above the limit of depth, was asked for or waits.
NamedAreKnown ==
    \A d \in listed : \A x \in ToSet(DirsIn[d]) :
        Level[x] < MaxLevel => x \in dirs \cup ToSet(queue)

TreeInv ==
    /\ queue \in Seq(Dir) /\ IsFiniteSet(dirs) /\ listed \subseteq Dir \cup {Root}
    /\ step = "tree" => NamedAreKnown
    /\ TreeComplete

LEMMA AskBatchKeeps ==
    ASSUME TreeInv, NEW answered \in SUBSET Dir, AskBatch(answered)
    PROVE  TreeInv'
<1>. DEFINE rest == SubSeq(queue, Taken + 1, Len(queue))
            again == Requeued(answered)
<1>1. /\ step = "tree" /\ step' = "tree" /\ Cardinality(dirs) < MaxDirs
      /\ answered \subseteq ToSet(Batch)
      /\ queue' = again /\ dirs' = dirs \cup ToSet(Batch) /\ listed' = listed \cup answered
    BY DEF AskBatch, TreeOpen
<1>2. queue \in Seq(Dir) /\ IsFiniteSet(dirs) /\ listed \subseteq Dir \cup {Root}
      /\ NamedAreKnown
    BY <1>1 DEF TreeInv
<1>3. Cardinality(dirs) \in Nat /\ MaxDirs \in Nat /\ Concurrency \in Nat
    BY <1>2, FS_CardinalityType, GitHubAssumption
<1>4. Room \in Nat /\ Room <= MaxDirs - Cardinality(dirs)  BY <1>1, <1>3 DEF Room
<1>5. Batch \in Seq(Dir) /\ Len(Batch) <= Room /\ Len(Batch) \in Nat
    BY <1>2, <1>4, BatchFits
<1>6. /\ ToSet(Batch) = ToSet(SubSeq(queue, 1, Taken)) \ PassedOver
      /\ ToSet(Batch) \subseteq Dir
      /\ rest \in Seq(Dir)
      /\ ToSet(queue) = ToSet(SubSeq(queue, 1, Taken)) \cup ToSet(rest)
    BY <1>2, BatchSet
<1>7. /\ again \in Seq(Dir) /\ ToSet(rest) \subseteq ToSet(again)
      /\ \A n \in 1..Len(Batch) : Batch[n] \in answered =>
            ToSet(DirsIn[Batch[n]]) \subseteq dirs \cup ToSet(Batch) \cup ToSet(again)
    BY <1>2, <1>5, <1>6, RequeuedSet
<1>. HIDE DEF rest, again
<1>8. /\ IsFiniteSet(dirs')
      /\ Cardinality(dirs') <= MaxDirs
    <2>1. /\ IsFiniteSet(dirs \cup ToSet(Batch))
          /\ Cardinality(dirs \cup ToSet(Batch)) <= Cardinality(dirs) + Len(Batch)
        <3>1. IsFiniteSet(dirs)  BY <1>2
        <3>2. Batch \in Seq(Dir)  BY <1>5
        <3>. QED  BY <3>1, <3>2, CountedWith
    <2>. DEFINE all == dirs \cup ToSet(Batch)
    <2>2. dirs' = all  BY <1>1
    <2>3. IsFiniteSet(all) /\ Cardinality(all) <= Cardinality(dirs) + Len(Batch)  BY <2>1
    <2>. HIDE DEF all
    <2>4. Cardinality(all) \in Nat  BY <2>3, FS_CardinalityType
    <2>5. Cardinality(all) <= MaxDirs  BY <1>3, <1>4, <1>5, <2>3, <2>4
    <2>. QED  BY <2>2, <2>3, <2>5
<1>9. ASSUME NEW d \in listed', NEW x \in ToSet(DirsIn[d]), Level[x] < MaxLevel
      PROVE  x \in dirs' \cup ToSet(queue')
    <2>1. CASE d \in listed
        <3>1. x \in dirs \cup ToSet(queue)  BY <1>2, <1>9, <2>1 DEF NamedAreKnown
        <3>2. x \in ToSet(SubSeq(queue, 1, Taken)) => x \in dirs \cup ToSet(Batch)
            <4>1. x \in Dir => ~ (Level[x] >= MaxLevel)
                BY <1>9, GitHubAssumption
            <4>. QED  BY <1>6, <4>1 DEF PassedOver
        <3>. QED  BY <1>1, <1>6, <1>7, <3>1, <3>2
    <2>2. CASE d \in answered
        <3>1. PICK n \in DOMAIN Batch : d = Batch[n]  BY <1>1, <2>2 DEF ToSet
        <3>2. n \in 1..Len(Batch)  BY <1>5
        <3>3. ToSet(DirsIn[d]) \subseteq dirs \cup ToSet(Batch) \cup ToSet(again)
            BY <1>7, <2>2, <3>1, <3>2
        <3>. QED  BY <1>1, <1>9, <3>3
    <2>. QED  BY <1>1, <2>1, <2>2
<1>10. NamedAreKnown'  BY <1>9 DEF NamedAreKnown
<1>11. listed' \subseteq Dir \cup {Root}  BY <1>1, <1>2
<1>. QED  BY <1>1, <1>7, <1>8, <1>10, <1>11 DEF TreeInv, TreeComplete

\* Of all steps only those of a repository concern its directories.
LEMMA TreeKeeps ==
    ASSUME TreeInv, [FetchNext]_fetchVars
    PROVE  TreeInv'
<1>. DEFINE own == <<queue, dirs, listed>>
<1>1. ASSUME UNCHANGED own, \/ step' = step \/ step' = "raised"
                            \/ /\ step \in {"commits", "details", "files"}
                               /\ step' \in {"details", "files", "done"}
      PROVE  TreeInv'
    BY <1>1 DEF TreeInv, TreeComplete, NamedAreKnown
<1>2. ASSUME queue' = <<>>, dirs' = {}, listed' = {}, step' \in {"off", "root"}
      PROVE  TreeInv'
    <2>1. <<>> \in Seq(Dir) /\ IsFiniteSet({}) /\ Cardinality({}) = 0 /\ MaxDirs \in Nat
        BY FS_EmptySet, GitHubAssumption
    <2>. QED  BY <1>2, <2>1 DEF TreeInv, TreeComplete
<1>3. CASE RetrySession  BY <1>2, <1>3 DEF RetrySession, OpenSession
<1>4. CASE RetryFiles  BY <1>1, <1>4 DEF RetryFiles
<1>5. CASE SessionRaises  BY <1>1, <1>5 DEF SessionRaises
<1>6. CASE \E readme, answered \in BOOLEAN : AskRoot(readme, answered)
    <2>1. PICK readme, answered \in BOOLEAN : AskRoot(readme, answered)  BY <1>6
    <2>2. /\ step' = "tree" /\ dirs' = dirs
          /\ queue' = IF answered THEN DirsIn[Root] ELSE <<>>
          /\ listed' = IF answered THEN {Root} ELSE {}
        BY <2>1 DEF AskRoot, Named
    <2>3. DirsIn[Root] \in Seq(Dir) /\ <<>> \in Seq(Dir)  BY GitHubAssumption
    <2>4. NamedAreKnown'  BY <2>2 DEF NamedAreKnown
    <2>. QED  BY <2>2, <2>3, <2>4 DEF TreeInv, TreeComplete
<1>7. CASE \E answered \in SUBSET Dir : AskBatch(answered)
    BY <1>7, AskBatchKeeps
<1>8. CASE TreeDone
    <2>1. /\ step = "tree" /\ step' = "commits" /\ queue' = <<>>
          /\ queue = <<>> \/ ~ (Cardinality(dirs) < MaxDirs)
          /\ UNCHANGED <<dirs, listed>> /\ NamedAreKnown
        BY <1>8 DEF TreeDone, TreeOpen, TreeInv
    <2>2. queue = <<>> => ToSet(queue) = {}  BY DEF ToSet
    <2>3. <<>> \in Seq(Dir)  OBVIOUS
    <2>. QED  BY <2>1, <2>2, <2>3 DEF TreeInv, TreeComplete, NamedAreKnown
<1>9. CASE \E answered \in BOOLEAN : AskCommits(answered)
    BY <1>1, <1>9 DEF AskCommits
<1>10. CASE CommitsDone  BY <1>1, <1>10 DEF CommitsDone
<1>11. CASE \E answered \in SUBSET Commits : AskDetails(answered)
    <2>1. PICK answered \in SUBSET Commits : AskDetails(answered)  BY <1>11
    <2>2. UNCHANGED own /\ step = "details" /\ step' \in {"files", "done"}
        BY <2>1 DEF AskDetails
    <2>. QED  BY <1>1, <2>2
<1>12. CASE \E answered \in SUBSET File : AskFiles(answered)
    BY <1>1, <1>12 DEF AskFiles
<1>13. CASE StartGitHub
    BY <1>2, <1>13 DEF StartGitHub, FetchRepo, OpenSession
<1>14. CASE EndGitHub
    BY <1>2, <1>14 DEF EndGitHub, CloseRepo
<1>15. CASE UNCHANGED gitHubVars
    BY <1>1, <1>15 DEF gitHubVars
<1>16. CASE FetchNext /\ ~GitHubNext /\ ~StartGitHub /\ ~EndGitHub
    <2>1. UNCHANGED gitHubVars
        BY <1>16
        DEF FetchNext, StartNotion, SkipLink, Collecting, EndNotion, NotionRaises,
            StartExtracting, Take, Extracted, ExtractFails, Assemble
    <2>. QED  BY <1>15, <2>1
<1>17. CASE UNCHANGED fetchVars  BY <1>15, <1>17 DEF fetchVars
<1>. QED
    BY <1>3, <1>4, <1>5, <1>6, <1>7, <1>8, <1>9, <1>10, <1>11, <1>12, <1>13, <1>14, <1>16, <1>17
    DEF GitHubNext

LEMMA TreeStarts ==
    FetchInit => TreeInv
<1>1. <<>> \in Seq(Dir) /\ IsFiniteSet({}) /\ Cardinality({}) = 0 /\ MaxDirs \in Nat
    BY FS_EmptySet, GitHubAssumption
<1>2. ASSUME queue = <<>>, dirs = {}, listed = {}, step = "off"
      PROVE  TreeInv
    <2>1. IsFiniteSet(dirs) /\ Cardinality(dirs) = 0  BY <1>1, <1>2
    <2>. QED  BY <1>1, <1>2, <2>1 DEF TreeInv, TreeComplete
<1>. QED  BY <1>2 DEF FetchInit, GitHubInit

\* However large the batches and whichever calls fail: no more directories are asked for
\* than allowed and, when there are fewer, none that was named was forgotten.
THEOREM TreeCompleteHolds == FetchSpec => []TreeComplete
<1>1. FetchInit => TreeInv  BY TreeStarts
<1>2. TreeInv => TreeComplete  BY DEF TreeInv
<1>. QED  BY <1>1, <1>2, TreeKeeps, PTL DEF FetchSpec

---------------------------------------------------------------------------
(* The chunks of the documents *)

Places == Nat \X Nat

\* One chunk comes before another.
Sorted(s) ==
    \A i, j \in DOMAIN s : i < j =>
        \/ s[i][1] < s[j][1]
        \/ s[i][1] = s[j][1] /\ s[i][2] < s[j][2]

\* The chunks of document n, when it has r of them.
Part(n, r) == [k \in 1..r |-> <<n, k>>]

\* The chunks of the first n documents, when results says how many each has.
OfFirst(n, res) == {c \in (1..n) \X (1..Sections) : c[2] <= res[c[1]]}

LEMMA PartIs ==
    ASSUME NEW n \in Nat, NEW r \in Nat
    PROVE  /\ Part(n, r) \in Seq(Places) /\ Len(Part(n, r)) = r
           /\ \A k \in 1..r : Part(n, r)[k] = <<n, k>>
<1>1. \A k \in 1..r : <<n, k>> \in Places  BY DEF Places
<1>. DEFINE y == [k \in 1..r |-> <<n, k>>]
<1>2. \A k \in 1..r : y[k] = <<n, k>> /\ y[k] \in Places  BY <1>1
<1>3. DOMAIN y = 1..r /\ y \in [1..r -> Places]  BY <1>1
<1>. HIDE DEF y
<1>4. y \in Seq(Places) /\ Len(y) = r  BY <1>3
<1>. QED  BY <1>2, <1>4 DEF y, Part

\* The chunks of one more document.
LEMMA OneMore ==
    ASSUME NEW n \in Nat, NEW r \in 0..Sections, NEW x \in Seq(Places), Sorted(x),
           NEW res, res[n + 1] = r, ToSet(x) = OfFirst(n, res)
    PROVE  /\ x \o Part(n + 1, r) \in Seq(Places) /\ Sorted(x \o Part(n + 1, r))
           /\ ToSet(x \o Part(n + 1, r)) = OfFirst(n + 1, res)
<1>. DEFINE y == Part(n + 1, r)
            l == Len(x)
            u == x \o y
<1>1. Sections \in Nat /\ r \in Nat /\ r <= Sections  BY FetchAssumption
<1>2. y \in Seq(Places) /\ Len(y) = r /\ \A k \in 1..r : y[k] = <<n + 1, k>>
    <2>. DEFINE m == n + 1
    <2>1. m \in Nat  OBVIOUS
    <2>. HIDE DEF m
    <2>2. /\ Part(m, r) \in Seq(Places) /\ Len(Part(m, r)) = r
          /\ \A k \in 1..r : Part(m, r)[k] = <<m, k>>
        BY <1>1, <2>1, PartIs
    <2>. QED  BY <2>2 DEF m
<1>. HIDE DEF y
<1>3. /\ l \in Nat /\ DOMAIN x = 1..l /\ u \in Seq(Places) /\ DOMAIN u = 1..(l + r)
      /\ \A i \in 1..l : u[i] = x[i] /\ x[i] \in ToSet(x)
      /\ \A i \in 1..r : u[l + i] = y[i]
    <2>1. l \in Nat /\ DOMAIN x = 1..l  OBVIOUS
    <2>2. \A i \in 1..l : x[i] \in ToSet(x)  BY <2>1 DEF ToSet
    <2>3. /\ u \in Seq(Places) /\ DOMAIN u = 1..(l + r)
          /\ \A i \in 1..l : u[i] = x[i]
          /\ \A i \in 1..r : u[l + i] = y[i]
        BY <1>1, <1>2
    <2>. QED  BY <2>1, <2>2, <2>3
<1>4. ToSet(u) = ToSet(x) \cup ToSet(y)  BY <1>2, ConcatSet
<1>. HIDE DEF u, l
<1>5. \A i \in 1..l : u[i][1] \in Nat /\ u[i][1] <= n  BY <1>3 DEF OfFirst
<1>6. \A i \in (l + 1)..(l + r) : u[i][1] = n + 1 /\ u[i][2] = i - l
    <2>1. ASSUME NEW i \in (l + 1)..(l + r) PROVE u[i] = <<n + 1, i - l>>
        <3>1. i - l \in 1..r /\ l + (i - l) = i  BY <1>1, <1>3
        <3>2. u[l + (i - l)] = y[i - l]  BY <1>3, <3>1
        <3>. QED  BY <1>2, <3>1, <3>2
    <2>. QED  BY <2>1
<1>7. ASSUME NEW i \in 1..(l + r), NEW j \in 1..(l + r), i < j
      PROVE  \/ u[i][1] < u[j][1]
             \/ u[i][1] = u[j][1] /\ u[i][2] < u[j][2]
    <2>1. CASE j <= l
        <3>1. i \in 1..l /\ j \in 1..l  BY <1>1, <1>3, <1>7, <2>1
        <3>. QED  BY <1>3, <1>7, <3>1 DEF Sorted
    <2>2. CASE i <= l /\ j > l
        <3>1. i \in 1..l /\ j \in (l + 1)..(l + r)  BY <1>1, <1>3, <2>2
        <3>. QED  BY <1>5, <1>6, <3>1
    <2>3. CASE i > l
        <3>1. i \in (l + 1)..(l + r) /\ j \in (l + 1)..(l + r)  BY <1>1, <1>3, <1>7, <2>3
        <3>2. i - l < j - l  BY <1>1, <1>3, <1>7
        <3>. QED  BY <1>6, <3>1, <3>2
    <2>. QED  BY <1>1, <1>3, <2>1, <2>2, <2>3
<1>8. Sorted(u)  BY <1>3, <1>7 DEF Sorted
<1>9. ToSet(y) = {c \in {n + 1} \X (1..Sections) : c[2] <= r}
    <2>1. DOMAIN y = 1..r  BY <1>2
    <2>2. ToSet(y) = {<<n + 1, k>> : k \in 1..r}  BY <1>2, <2>1 DEF ToSet
    <2>3. \A k \in 1..Sections : k <= r <=> k \in 1..r  BY <1>1
    <2>4. \A k \in 1..r : k \in 1..Sections  BY <1>1
    <2>. QED  BY <2>2, <2>3, <2>4
<1>10. OfFirst(n + 1, res) = OfFirst(n, res) \cup {c \in {n + 1} \X (1..Sections) : c[2] <= r}
    <2>1. 1..(n + 1) = (1..n) \cup {n + 1}  OBVIOUS
    <2>. QED  BY <2>1 DEF OfFirst
<1>. QED  BY <1>3, <1>4, <1>8, <1>9, <1>10 DEF u, y

\* The chunks put together in the order of the documents.
LEMMA ChunksOfAll ==
    ASSUME NEW Doc, rawDocs \in Seq(Doc), results \in [DOMAIN rawDocs -> 0..Sections]
    PROVE  /\ Sorted(ChunksOf(InOrder))
           /\ ToSet(ChunksOf(InOrder)) = OfFirst(Len(rawDocs), results)
<1>. DEFINE N == Len(rawDocs)
            Q == Seq(Places)
            none == <<>>
            order == [i \in 1..N |-> i]
            Adds(n, q) == q \o Part(n, results[n])
            go == [n \in 1..N |-> [q \in Q |-> Adds(n, q)]]
            Rec(f) == f = [n \in 0..Len(order) |->
                              IF n = 0 THEN <<>>
                              ELSE f[n - 1] \o Part(order[n], results[order[n]])]
<1>1. /\ N \in Nat /\ DOMAIN rawDocs = 1..N /\ none \in Q /\ Sections \in Nat
      /\ \A n \in 1..N : n \in Nat /\ results[n] \in 0..Sections /\ results[n] \in Nat
    <2>1. Sections \in Nat  BY FetchAssumption
    <2>. QED  BY <2>1
<1>2. InOrder = order  BY DEF InOrder
<1>3. Len(order) = N /\ \A n \in 1..N : order[n] = n  BY <1>1
<1>4. ChunksOf(order) = (CHOOSE h : Rec(h))[Len(order)]
    BY DEF ChunksOf, Part
<1>. HIDE DEF N, order
<1>5. ASSUME NEW n \in 1..N, NEW q \in Q
      PROVE  Adds(n, q) \in Q /\ go[n][q] = Adds(n, q)
    <2>1. Part(n, results[n]) \in Seq(Places)  BY <1>1, PartIs
    <2>. QED  BY <2>1
<1>. HIDE DEF Q, go
<1>6. PICK f : Follows(f, N, Q, none, go)
    <2>1. \A n \in 1..N : \A d \in Q : go[n][d] \in Q  BY <1>5
    <2>. HIDE DEF Adds, none
    <2>. QED  BY <1>1, <2>1, Recursion
<1>7. ASSUME NEW n \in 1..N PROVE n - 1 \in 0..N /\ n \in 0..N /\ n # 0  BY <1>1
<1>8. \A n \in 1..N : f[n] = Adds(n, f[n - 1])  BY <1>5, <1>6, <1>7 DEF Follows
<1>. DEFINE g == [n \in 0..N |-> f[n]]
<1>9. Rec(g)
    <2>1. ASSUME NEW n \in 0..N
          PROVE  f[n] = IF n = 0 THEN <<>> ELSE g[n - 1] \o Part(order[n], results[order[n]])
        <3>1. CASE n = 0  BY <3>1, <1>6 DEF Follows
        <3>2. CASE n # 0
            <4>1. n \in 1..N  BY <1>1, <3>2
            <4>2. g[n - 1] = f[n - 1] /\ order[n] = n  BY <1>3, <4>1, <1>7
            <4>3. f[n] = f[n - 1] \o Part(n, results[n])  BY <4>1, <1>8
            <4>. HIDE DEF g
            <4>. QED  BY <4>2, <4>3, <3>2
        <3>. QED  BY <3>1, <3>2
    <2>. QED  BY <1>3, <2>1
<1>. HIDE DEF g
<1>. DEFINE c == CHOOSE h : Rec(h)
<1>10. Rec(c)  BY <1>9
<1>. HIDE DEF c
<1>11. c[0] = <<>> /\ \A n \in 1..N : c[n] = Adds(n, c[n - 1])
    <2>1. \A n \in 0..N : c[n] =
              IF n = 0 THEN <<>> ELSE c[n - 1] \o Part(order[n], results[order[n]])
        BY <1>3, <1>10
    <2>2. 0 \in 0..N  BY <1>1
    <2>. QED  BY <1>3, <1>7, <2>1, <2>2
<1>. DEFINE T == {n \in 0..N : /\ c[n] \in Seq(Places) /\ Sorted(c[n])
                               /\ ToSet(c[n]) = OfFirst(n, results)}
<1>12. 0 \in T
    <2>1. c[0] \in Seq(Places) /\ DOMAIN c[0] = {} /\ 0 \in 0..N  BY <1>1, <1>11
    <2>2. ToSet(c[0]) = {} /\ Sorted(c[0])  BY <2>1 DEF ToSet, Sorted
    <2>3. OfFirst(0, results) = {}
        <3>1. 1..0 = {}  OBVIOUS
        <3>. QED  BY <3>1 DEF OfFirst
    <2>. QED  BY <2>1, <2>2, <2>3
<1>13. ASSUME NEW n \in 0..N, n < N, n \in T PROVE n + 1 \in T
    <2>1. n + 1 \in 1..N /\ n + 1 \in 0..N /\ (n + 1) - 1 = n /\ n \in Nat
        BY <1>1, <1>13
    <2>. DEFINE x == c[n]
                r == results[n + 1]
    <2>2. x \in Seq(Places) /\ Sorted(x) /\ ToSet(x) = OfFirst(n, results)  BY <1>13
    <2>3. r \in 0..Sections /\ results[n + 1] = r  BY <1>1, <2>1
    <2>4. c[n + 1] = x \o Part(n + 1, r)  BY <1>11, <2>1
    <2>. HIDE DEF x, r
    <2>5. /\ x \o Part(n + 1, r) \in Seq(Places) /\ Sorted(x \o Part(n + 1, r))
          /\ ToSet(x \o Part(n + 1, r)) = OfFirst(n + 1, results)
        BY <2>1, <2>2, <2>3, OneMore
    <2>. QED  BY <2>1, <2>4, <2>5
<1>14. N \in T
    <2>. HIDE DEF T
    <2>1. \A n \in 0..N : n \in T  BY <1>1, <1>12, <1>13, BoundedInduction
    <2>. QED  BY <1>1, <2>1
<1>15. ChunksOf(InOrder) = c[N]  BY <1>2, <1>3, <1>4 DEF c
<1>. QED  BY <1>14, <1>15 DEF N

\* The documents a repository can give.
Patches == {Patch(p[1], p[2]) : p \in Commits \X File}
Codes == {Code(f) : f \in File}
RepoDocs == {Readme} \cup Patches \cup Codes

LEMMA ImageFinite ==
    ASSUME NEW S, IsFiniteSet(S), NEW f, DOMAIN f = S
    PROVE  IsFiniteSet({f[x] : x \in S})
<1>. DEFINE T == {f[x] : x \in S}
            g == [x \in S |-> f[x]]
<1>1. g \in Surjection(S, T)
    <2>1. g \in [S -> T] /\ \A t \in T : \E x \in S : g[x] = t  OBVIOUS
    <2>. QED  BY <2>1 DEF Surjection
<1>. HIDE DEF T, g
<1>2. IsFiniteSet(T)  BY <1>1, FS_Surjection
<1>. QED  BY <1>2 DEF T

LEMMA SeqSetFinite ==
    ASSUME NEW S, NEW s \in Seq(S)
    PROVE  IsFiniteSet(ToSet(s))
<1>1. IsFiniteSet({}) /\ {} \cup ToSet(s) = ToSet(s)  BY FS_EmptySet
<1>. DEFINE none == {}
<1>2. IsFiniteSet(none) /\ none \cup ToSet(s) = ToSet(s)  BY <1>1
<1>. HIDE DEF none
<1>3. IsFiniteSet(none \cup ToSet(s))
    <2>1. /\ IsFiniteSet(none \cup ToSet(s))
          /\ Cardinality(none \cup ToSet(s)) <= Cardinality(none) + Len(s)
        BY <1>2, CountedWith
    <2>. QED  BY <2>1
<1>. QED  BY <1>2, <1>3

LEMMA RepoDocsFinite == IsFiniteSet(RepoDocs)
<1>1. IsFiniteSet(File) /\ IsFiniteSet(ToSet(Authors))
    <2>1. Ranked \in Seq(File) /\ Authors \in Seq(DOMAIN CommitsOf)  BY GitHubAssumption
    <2>2. IsFiniteSet(ToSet(Ranked))  BY <2>1, SeqSetFinite
    <2>. QED  BY <2>1, <2>2, SeqSetFinite DEF File
<1>2. IsFiniteSet(Commits)
    <2>. DEFINE A == ToSet(Authors)
                f == [a \in A |-> ToSet(CommitsOf[a])]
    <2>1. \A a \in A : f[a] = ToSet(CommitsOf[a]) /\ IsFiniteSet(f[a])
        <3>1. \A a \in A : CommitsOf[a] \in Seq(Commits)  BY GitHubAssumption
        <3>2. \A a \in A : IsFiniteSet(ToSet(CommitsOf[a]))  BY <3>1, SeqSetFinite
        <3>. QED  BY <3>2
    <2>2. DOMAIN f = A /\ IsFiniteSet(A)  BY <1>1
    <2>3. Commits = UNION {f[a] : a \in A}  BY <2>1 DEF Commits
    <2>. HIDE DEF A, f
    <2>. DEFINE S == {f[a] : a \in A}
    <2>4. IsFiniteSet(S)  BY <2>2, ImageFinite
    <2>5. \A T \in S : IsFiniteSet(T)  BY <2>1
    <2>. HIDE DEF S
    <2>6. IsFiniteSet(UNION S)  BY <2>4, <2>5, FS_UNION
    <2>. QED  BY <2>3, <2>6 DEF S
<1>3. IsFiniteSet(Patches)
    <2>. DEFINE S == Commits \X File
                f == [p \in S |-> Patch(p[1], p[2])]
    <2>1. IsFiniteSet(S)  BY <1>1, <1>2, FS_Product
    <2>2. DOMAIN f = S /\ Patches = {f[p] : p \in S}  BY DEF Patches
    <2>. HIDE DEF S, f
    <2>3. IsFiniteSet({f[p] : p \in S})  BY <2>1, <2>2, ImageFinite
    <2>. QED  BY <2>2, <2>3
<1>4. IsFiniteSet(Codes)
    <2>. DEFINE f == [p \in File |-> Code(p)]
    <2>1. DOMAIN f = File /\ Codes = {f[p] : p \in File}  BY DEF Codes
    <2>. HIDE DEF f
    <2>2. IsFiniteSet({f[p] : p \in File})  BY <1>1, <2>1, ImageFinite
    <2>. QED  BY <2>1, <2>2
<1>5. IsFiniteSet({Readme})  BY FS_Singleton
<1>6. IsFiniteSet({Readme} \cup Patches)  BY <1>3, <1>5, FS_Union
<1>. QED  BY <1>4, <1>6, FS_Union DEF RepoDocs

\* A finite set put in an order.
LEMMA SetToSeqIs ==
    ASSUME NEW S, IsFiniteSet(S)
    PROVE  SetToSeq(S) \in Seq(S)
<1>. DEFINE n == Cardinality(S)
<1>1. n \in Nat /\ ExistsBijection(1..n, S)  BY FS_CardinalityType
<1>2. PICK f : f \in Bijection(1..n, S)  BY <1>1 DEF ExistsBijection
<1>3. f \in [1..n -> S] /\ IsInjective(f)  BY <1>2 DEF Bijection, Injection
<1>4. SetToSeq(S) \in [1..n -> S]  BY <1>3 DEF SetToSeq
<1>. HIDE DEF n
<1>. QED  BY <1>1, <1>4

AllDocs == RepoDocs \cup {PageDoc(x) : x \in PageAt}

\* The documents are a sequence, and each has its number of chunks from the time on
\* they are looked into.
DocsInv ==
    /\ found \subseteq RepoDocs /\ rawDocs \in Seq(AllDocs)
    /\ at \in {"extracting", "done"} => results \in [DOMAIN rawDocs -> 0..Sections]
    /\ ChunksInOrder

\* What the steps of a repository add to its documents.
LEMMA RepoKeepsDocs ==
    ASSUME found \subseteq RepoDocs, GitHubNext
    PROVE  found' \subseteq RepoDocs
<1>1. CASE \E answered \in SUBSET Commits : AskDetails(answered)
    <2>1. PICK answered \in SUBSET Commits : AskDetails(answered)  BY <1>1
    <2>2. found' = found \cup UNION {{Patch(c, f) : f \in FilesOf[c]} : c \in answered}
        BY <2>1 DEF AskDetails
    <2>3. ASSUME NEW c \in answered, NEW f \in FilesOf[c] PROVE Patch(c, f) \in Patches
        <3>1. c \in Commits /\ f \in File  BY GitHubAssumption
        <3>2. <<c, f>> \in Commits \X File /\ Patch(c, f) = Patch(<<c, f>>[1], <<c, f>>[2])
            BY <3>1
        <3>. QED  BY <3>2 DEF Patches
    <2>. QED  BY <2>2, <2>3 DEF RepoDocs
<1>2. CASE \E answered \in SUBSET File : AskFiles(answered)
    BY <1>2 DEF AskFiles, RepoDocs, Codes
<1>3. CASE \E readme, answered \in BOOLEAN : AskRoot(readme, answered)
    BY <1>3 DEF AskRoot, RepoDocs
<1>4. CASE RetrySession \/ RetryFiles \/ SessionRaises
    BY <1>4 DEF RetrySession, OpenSession, RetryFiles, SessionRaises
<1>5. CASE \/ \E answered \in SUBSET Dir : AskBatch(answered)
           \/ TreeDone
           \/ \E answered \in BOOLEAN : AskCommits(answered)
           \/ CommitsDone
    BY <1>5 DEF AskBatch, TreeDone, AskCommits, CommitsDone
<1>. QED  BY <1>1, <1>2, <1>3, <1>4, <1>5 DEF GitHubNext

\* What is collected, looked into and put together.
LEMMA DocsKeep ==
    ASSUME DocsInv, NotionInv, [FetchNext]_fetchVars
    PROVE  DocsInv'
<1>1. ASSUME UNCHANGED <<at, rawDocs, failures, results, chunks>>, found' \subseteq RepoDocs
      PROVE  DocsInv'
    BY <1>1 DEF DocsInv, ChunksInOrder, Done
<1>2. ASSUME found' \subseteq RepoDocs, rawDocs' \in Seq(AllDocs),
             at' \in {"between", "notion", "github"}
      PROVE  DocsInv'
    BY <1>2 DEF DocsInv, ChunksInOrder, Done
<1>4. CASE StartNotion
    BY <1>2, <1>4 DEF StartNotion, FetchPages, gitHubVars, DocsInv
<1>5. CASE StartGitHub
    BY <1>2, <1>5 DEF StartGitHub, FetchRepo, OpenSession, notionVars, DocsInv
<1>6. CASE SkipLink
    BY <1>1, <1>6 DEF SkipLink, poolVars, notionVars, gitHubVars, DocsInv
<1>7. CASE at = "notion" /\ NotionNext /\ UNCHANGED <<ownVars, gitHubVars>>
    BY <1>1, <1>7 DEF ownVars, gitHubVars, DocsInv
<1>8. CASE at = "github" /\ GitHubNext /\ UNCHANGED <<ownVars, notionVars>>
    <2>1. found' \subseteq RepoDocs  BY <1>8, RepoKeepsDocs DEF DocsInv
    <2>. QED  BY <1>1, <1>8, <2>1 DEF ownVars, notionVars, DocsInv
<1>9. CASE EndNotion
    <2>. DEFINE more == [i \in DOMAIN pages |-> PageDoc(pages[i])]
    <2>1. pages \in Seq(PageAt) /\ rawDocs \in Seq(AllDocs)  BY DEF DocsInv, NotionInv
    <2>2. more \in Seq(AllDocs)
        <3>. DEFINE n == Len(pages)
                    m == [i \in 1..n |-> PageDoc(pages[i])]
        <3>1. DOMAIN pages = 1..n /\ n \in Nat /\ \A i \in 1..n : pages[i] \in PageAt
            BY <2>1
        <3>2. \A i \in 1..n : PageDoc(pages[i]) \in AllDocs  BY <3>1 DEF AllDocs
        <3>3. m \in [1..n -> AllDocs]  BY <3>2
        <3>4. more = m  BY <3>1
        <3>. HIDE DEF n, m, more
        <3>. QED  BY <3>1, <3>3, <3>4
    <2>3. rawDocs' = rawDocs \o more  BY <1>9 DEF EndNotion
    <2>. HIDE DEF more
    <2>4. rawDocs' \in Seq(AllDocs)  BY <2>1, <2>2, <2>3
    <2>. QED  BY <1>2, <1>9, <2>4 DEF EndNotion, CloseLink, gitHubVars, DocsInv
<1>17. CASE NotionRaises
    BY <1>2, <1>17 DEF NotionRaises, gitHubVars, DocsInv
<1>10. CASE EndGitHub
    <2>1. SetToSeq(found) \in Seq(AllDocs)
        <3>1. IsFiniteSet(found)  BY RepoDocsFinite, FS_Subset DEF DocsInv
        <3>2. SetToSeq(found) \in Seq(found)  BY <3>1, SetToSeqIs
        <3>3. found \subseteq AllDocs  BY DEF DocsInv, AllDocs
        <3>. DEFINE s == SetToSeq(found)
        <3>4. s \in Seq(found)  BY <3>2
        <3>. HIDE DEF s
        <3>5. s \in Seq(AllDocs)  BY <3>3, <3>4
        <3>. QED  BY <3>5 DEF s
    <2>2. rawDocs' \in {rawDocs, rawDocs \o SetToSeq(found)}  BY <1>10 DEF EndGitHub
    <2>3. rawDocs \in Seq(AllDocs)  BY DEF DocsInv
    <2>4. rawDocs \o SetToSeq(found) \in Seq(AllDocs)  BY <2>1, <2>3
    <2>5. rawDocs' \in Seq(AllDocs)  BY <2>2, <2>3, <2>4
    <2>. QED  BY <1>2, <1>10, <2>5 DEF EndGitHub, CloseRepo, notionVars, DocsInv
<1>11. CASE StartExtracting
    <2>1. /\ at' = "extracting" /\ results' = [i \in DOMAIN rawDocs |-> 0]
          /\ UNCHANGED <<rawDocs, failures, chunks, found>>
        BY <1>11 DEF StartExtracting, notionVars, gitHubVars
    <2>2. 0 \in 0..Sections  BY FetchAssumption
    <2>3. results' \in [DOMAIN rawDocs' -> 0..Sections]  BY <2>1, <2>2
    <2>. QED  BY <2>1, <2>3 DEF DocsInv, ChunksInOrder, Done
<1>12. CASE Take
    BY <1>1, <1>12 DEF Take, notionVars, gitHubVars, DocsInv
<1>13. ASSUME NEW i \in running, NEW n \in 0..Sections, Extracted(i, n)
       PROVE  DocsInv'
    <2>1. /\ at = "extracting" /\ at' = at /\ results' = [results EXCEPT ![i] = n]
          /\ UNCHANGED <<rawDocs, failures, chunks, found>>
        BY <1>13 DEF Extracted, notionVars, gitHubVars
    <2>2. results' \in [DOMAIN rawDocs' -> 0..Sections]  BY <2>1 DEF DocsInv
    <2>. QED  BY <2>1, <2>2 DEF DocsInv, ChunksInOrder, Done
<1>14. ASSUME NEW i \in running, ExtractFails(i)
       PROVE  DocsInv'
    <2>1. /\ at = "extracting" /\ at' = at
          /\ UNCHANGED <<rawDocs, results, chunks, found>>
        BY <1>14 DEF ExtractFails, notionVars, gitHubVars
    <2>. QED  BY <2>1 DEF DocsInv, ChunksInOrder, Done
<1>15. ASSUME NEW split \in BOOLEAN, Assemble(split)
       PROVE  DocsInv'
    <2>1. /\ at = "extracting" /\ at' = "done"
          /\ UNCHANGED <<rawDocs, results, found>>
          /\ split => chunks' = ChunksOf(InOrder)
          /\ ~split => [of |-> 0, stage |-> "chunk"] \in failures'
        BY <1>15 DEF Assemble, notionVars, gitHubVars
    <2>2. rawDocs \in Seq(AllDocs) /\ results \in [DOMAIN rawDocs -> 0..Sections]
        BY <2>1 DEF DocsInv
    <2>3. /\ Sorted(ChunksOf(InOrder))
          /\ ToSet(ChunksOf(InOrder)) = OfFirst(Len(rawDocs), results)
        BY <2>2, ChunksOfAll
    <2>4. DOMAIN rawDocs = 1..Len(rawDocs)  BY <2>2
    <2>. DEFINE all == ChunksOf(InOrder)
    <2>5. split => chunks' = all /\ Sorted(all) /\ ToSet(all) = OfFirst(Len(rawDocs), results)
        BY <2>1, <2>3
    <2>. HIDE DEF all
    <2>6. ChunksInOrder'
        <3>1. CASE split
            BY <2>1, <2>4, <2>5, <3>1 DEF ChunksInOrder, Sorted, OfFirst
        <3>2. CASE ~split  BY <2>1, <3>2 DEF ChunksInOrder
        <3>. QED  BY <3>1, <3>2
    <2>. QED  BY <2>1, <2>2, <2>6 DEF DocsInv
<1>16. CASE UNCHANGED fetchVars
    BY <1>1, <1>16 DEF fetchVars, ownVars, notionVars, gitHubVars, DocsInv
<1>. QED
    BY <1>4, <1>5, <1>6, <1>7, <1>8, <1>9, <1>10, <1>11, <1>12, <1>13, <1>14, <1>15, <1>16,
       <1>17
    DEF FetchNext, Collecting

LEMMA DocsStart ==
    FetchInit => DocsInv
<1>. SUFFICES ASSUME FetchInit PROVE DocsInv
    OBVIOUS
<1>1. found = {} /\ rawDocs = <<>> /\ at = "between"  BY DEF FetchInit, GitHubInit
<1>2. rawDocs \in Seq(AllDocs)  BY <1>1
<1>. QED  BY <1>1, <1>2 DEF DocsInv, ChunksInOrder, Done

\* Whichever worker ends first and whichever documents fail, the chunks are those of the
\* documents in their order.
THEOREM ChunksInOrderHolds == FetchSpec => []ChunksInOrder
<1>1. FetchInit => NotionInv  BY NotionStarts
<1>2. FetchInit => DocsInv  BY DocsStart
<1>3. DocsInv => ChunksInOrder  BY DEF DocsInv
<1>. QED  BY <1>1, <1>2, <1>3, NotionKeeps, DocsKeep, PTL DEF FetchSpec

---------------------------------------------------------------------------
(* Collecting comes to an end *)

\* What is left, in its six places.
LEMMA SixPlaces ==
    ASSUME NEW a \in Nat, NEW b \in Nat, NEW c \in Nat, NEW d \in Nat, NEW e \in Nat, NEW f \in Nat
    PROVE  <<a, b, c, d, e, f>> \in [1..6 -> Nat]
<1>. DEFINE w == <<a, b, c, d, e, f>>
<1>1. w \in Seq(Nat) /\ Len(w) = 6
    OBVIOUS
<1>. HIDE DEF w
<1>2. w \in [1..Len(w) -> Nat]
    BY <1>1, LenProperties
<1>. QED  BY <1>1, <1>2 DEF w

\* Which is less.
LEMMA LowerIs ==
    ASSUME NEW m, NEW n,
           \/ m[1] < n[1]
           \/ m[1] = n[1] /\ m[2] < n[2]
           \/ m[1] = n[1] /\ m[2] = n[2] /\ m[3] < n[3]
           \/ m[1] = n[1] /\ m[2] = n[2] /\ m[3] = n[3] /\ m[4] < n[4]
           \/ m[1] = n[1] /\ m[2] = n[2] /\ m[3] = n[3] /\ m[4] = n[4] /\ m[5] < n[5]
           \/ m[1] = n[1] /\ m[2] = n[2] /\ m[3] = n[3] /\ m[4] = n[4] /\ m[5] = n[5] /\ m[6] < n[6]
    PROVE  Lower(m, n)
<1>. DEFINE At(i) == m[i] < n[i] /\ \A j \in 1..(i - 1) : m[j] = n[j]
<1>1. m[1] < n[1] => At(1)  OBVIOUS
<1>2. m[1] = n[1] /\ m[2] < n[2] => At(2)  OBVIOUS
<1>3. m[1] = n[1] /\ m[2] = n[2] /\ m[3] < n[3] => At(3)  OBVIOUS
<1>4. m[1] = n[1] /\ m[2] = n[2] /\ m[3] = n[3] /\ m[4] < n[4] => At(4)  OBVIOUS
<1>5. m[1] = n[1] /\ m[2] = n[2] /\ m[3] = n[3] /\ m[4] = n[4] /\ m[5] < n[5] => At(5)
    OBVIOUS
<1>6. m[1] = n[1] /\ m[2] = n[2] /\ m[3] = n[3] /\ m[4] = n[4] /\ m[5] = n[5] /\ m[6] < n[6] => At(6)
    OBVIOUS
<1>7. At(1) \/ At(2) \/ At(3) \/ At(4) \/ At(5) \/ At(6)
    BY <1>1, <1>2, <1>3, <1>4, <1>5, <1>6
<1>8. {1, 2, 3, 4, 5, 6} \subseteq 1..6  OBVIOUS
<1>. HIDE DEF At
<1>9. \E i \in 1..6 : At(i)  BY <1>7, <1>8
<1>. QED  BY <1>9 DEF Lower, At

\* How many of the places to try are lists.
LEMMA ListsCount ==
    ASSUME NEW t \in Seq(Visit)
    PROVE  IsFiniteSet(Lists(t)) /\ Cardinality(Lists(t)) \in Nat
<1>1. Lists(t) \subseteq 1..Len(t) /\ Len(t) \in Nat  BY DEF Lists
<1>2. IsFiniteSet(1..Len(t))  BY <1>1, FS_Interval
<1>. QED  BY <1>1, <1>2, FS_Subset, FS_CardinalityType

\* The same places further back.
LEMMA ListsShift ==
    ASSUME NEW t \in Seq(Visit), NEW k \in Nat
    PROVE  /\ IsFiniteSet({k + i : i \in Lists(t)})
           /\ Cardinality({k + i : i \in Lists(t)}) = Cardinality(Lists(t))
<1>. DEFINE S == Lists(t)
            T == {k + i : i \in S}
            f == [i \in S |-> k + i]
<1>1. S \subseteq Nat /\ IsFiniteSet(S)  BY ListsCount DEF Lists
<1>2. f \in [S -> T] /\ \A n \in T : \E i \in S : f[i] = n  OBVIOUS
<1>3. \A i, j \in S : f[i] = f[j] => i = j  BY <1>1
<1>4. f \in Bijection(S, T)
    BY <1>2, <1>3 DEF Bijection, Injection, Surjection, IsInjective
<1>. HIDE DEF S, T, f
<1>5. ExistsBijection(S, T)  BY <1>4 DEF ExistsBijection
<1>6. IsFiniteSet(T) /\ Cardinality(T) = Cardinality(S)  BY <1>1, <1>5, FS_Bijection
<1>. QED  BY <1>6 DEF S, T

\* Pages in front do not count.
LEMMA ListsBehindPages ==
    ASSUME NEW s \in Seq(Visit), NEW t \in Seq(Visit), Lists(s) = {}
    PROVE  Cardinality(Lists(s \o t)) = Cardinality(Lists(t))
<1>. DEFINE k == Len(s)
            l == Len(t)
            u == s \o t
<1>1. /\ k \in Nat /\ l \in Nat /\ DOMAIN s = 1..k /\ DOMAIN t = 1..l /\ DOMAIN u = 1..(k + l)
      /\ \A i \in 1..k : u[i] = s[i]
      /\ \A i \in 1..l : u[k + i] = t[i]
    OBVIOUS
<1>. HIDE DEF k, l, u
<1>2. \A i \in 1..k : s[i].at \in PageAt  BY <1>1 DEF Lists
<1>3. ASSUME NEW i \in Lists(u) PROVE \E j \in Lists(t) : i = k + j
    <2>1. i \in 1..(k + l) /\ u[i].at \notin PageAt  BY <1>1 DEF Lists
    <2>2. i > k
        <3>1. CASE i \in 1..k  BY <1>1, <1>2, <2>1, <3>1
        <3>. QED  BY <1>1, <2>1, <3>1
    <2>3. i - k \in 1..l /\ k + (i - k) = i  BY <1>1, <2>1, <2>2
    <2>4. i - k \in Lists(t)  BY <1>1, <2>1, <2>3 DEF Lists
    <2>. QED  BY <2>3, <2>4
<1>4. ASSUME NEW j \in Lists(t) PROVE k + j \in Lists(u)
    <2>1. j \in 1..l /\ t[j].at \notin PageAt  BY <1>1 DEF Lists
    <2>2. k + j \in 1..(k + l) /\ u[k + j] = t[j]  BY <1>1, <2>1
    <2>. QED  BY <1>1, <2>1, <2>2 DEF Lists
<1>5. Lists(u) = {k + j : j \in Lists(t)}  BY <1>3, <1>4
<1>6. Cardinality({k + j : j \in Lists(t)}) = Cardinality(Lists(t))  BY <1>1, ListsShift
<1>. QED  BY <1>5, <1>6 DEF u

\* One list less, when the first place is one.
LEMMA ListsOfTail ==
    ASSUME NEW t \in Seq(Visit), t # <<>>
    PROVE  Cardinality(Lists(t)) = IF Head(t).at \in PageAt THEN Cardinality(Lists(Tail(t)))
                                   ELSE Cardinality(Lists(Tail(t))) + 1
<1>. DEFINE r == Tail(t)
            l == Len(t)
            S == {1 + j : j \in Lists(r)}
<1>1. /\ l \in Nat /\ l >= 1 /\ DOMAIN t = 1..l /\ r \in Seq(Visit) /\ DOMAIN r = 1..(l - 1)
      /\ \A i \in 1..(l - 1) : r[i] = t[1 + i]
      /\ Head(t) = t[1]
    OBVIOUS
<1>. HIDE DEF r, l
<1>2. IsFiniteSet(S) /\ Cardinality(S) = Cardinality(Lists(r))
    BY <1>1, ListsShift
<1>3. 1 \notin S /\ \A i \in S : i \in 2..l
    <2>1. \A j \in Lists(r) : j \in 1..(l - 1)  BY <1>1 DEF Lists
    <2>. QED  BY <1>1, <2>1
<1>4. ASSUME NEW i \in 2..l PROVE i \in Lists(t) <=> i \in S
    <2>1. i - 1 \in 1..(l - 1) /\ 1 + (i - 1) = i /\ i \in 1..l  BY <1>1
    <2>2. r[i - 1] = t[i]  BY <1>1, <2>1
    <2>3. i \in Lists(t) <=> i - 1 \in Lists(r)  BY <1>1, <2>1, <2>2 DEF Lists
    <2>4. i - 1 \in Lists(r) => i \in S  BY <2>1
    <2>5. i \in S => i - 1 \in Lists(r)
        <3>1. \A j \in Lists(r) : j \in Nat  BY <1>1 DEF Lists
        <3>. QED  BY <2>1, <3>1
    <2>. QED  BY <2>3, <2>4, <2>5
<1>5. 1 \in Lists(t) <=> Head(t).at \notin PageAt  BY <1>1 DEF Lists
<1>6. \A i \in Lists(t) : i = 1 \/ i \in 2..l  BY <1>1 DEF Lists
<1>7. CASE Head(t).at \in PageAt
    <2>1. Lists(t) = S  BY <1>3, <1>4, <1>5, <1>6, <1>7
    <2>. HIDE DEF S
    <2>. QED  BY <1>2, <1>7, <2>1 DEF r
<1>8. CASE Head(t).at \notin PageAt
    <2>1. Lists(t) = S \cup {1}  BY <1>3, <1>4, <1>5, <1>6, <1>8
    <2>. HIDE DEF S
    <2>2. Cardinality(S \cup {1}) = IF 1 \in S THEN Cardinality(S) ELSE Cardinality(S) + 1
        BY <1>2, FS_AddElement
    <2>. QED  BY <1>2, <1>3, <1>8, <2>1, <2>2 DEF r
<1>. QED  BY <1>7, <1>8

\* The links are taken one after the other, and the one under way is the first left.
LinksInv ==
    /\ links \in Seq(PageAt \cup {"repo", "other"})
    /\ at \in {"between", "notion", "github", "extracting", "done"}
    /\ at \in {"notion", "github"} => links # <<>>

\* No more sessions are opened than allowed, and no page is asked for that lies more than
\* one behind the last.
RepoInv ==
    /\ step \in Step /\ attempt \in 0..MaxAttempts
    /\ step = "commits" /\ author <= NumAuthors => page <= Len(CommitsOfName(author)) + 1

\* The documents in hand are some of those collected, and not done with.
PoolInv ==
    /\ running \subseteq DOMAIN rawDocs /\ finished \in Seq(Nat)
    /\ running \cap ToSet(finished) = {}
    /\ running # {} => at \in {"extracting", "done"}

WorkInv == NotionInv /\ TreeInv /\ CommitsInv /\ DocsInv /\ LinksInv /\ RepoInv /\ PoolInv

LEMMA LinksKeep ==
    ASSUME LinksInv, [FetchNext]_fetchVars
    PROVE  LinksInv'
<1>1. links # <<>> => Tail(links) \in Seq(PageAt \cup {"repo", "other"})
    BY DEF LinksInv
<1>2. CASE StartNotion  BY <1>2 DEF StartNotion, LinksInv
<1>3. CASE StartGitHub  BY <1>3 DEF StartGitHub, LinksInv
<1>4. CASE SkipLink  BY <1>1, <1>4 DEF SkipLink, LinksInv
<1>5. CASE Collecting  BY <1>5 DEF Collecting, ownVars, LinksInv
<1>6. CASE EndNotion \/ NotionRaises  BY <1>1, <1>6 DEF EndNotion, NotionRaises, LinksInv
<1>7. CASE EndGitHub  BY <1>1, <1>7 DEF EndGitHub, LinksInv
<1>8. CASE StartExtracting  BY <1>8 DEF StartExtracting, LinksInv
<1>9. CASE Take  BY <1>9 DEF Take, LinksInv
<1>10. CASE \E i \in running : ExtractFails(i) \/ \E n \in 0..Sections : Extracted(i, n)
    BY <1>10 DEF ExtractFails, Extracted, LinksInv
<1>11. CASE \E split \in BOOLEAN : Assemble(split)
    BY <1>11 DEF Assemble, LinksInv
<1>12. CASE UNCHANGED fetchVars  BY <1>12 DEF fetchVars, ownVars, LinksInv
<1>. QED
    BY <1>2, <1>3, <1>4, <1>5, <1>6, <1>7, <1>8, <1>9, <1>10, <1>11, <1>12 DEF FetchNext

LEMMA PoolKeeps ==
    ASSUME PoolInv, DocsInv, [FetchNext]_fetchVars
    PROVE  PoolInv'
<1>1. ASSUME UNCHANGED <<running, finished>>, running = {} PROVE PoolInv'
    BY <1>1 DEF PoolInv
<1>2. ASSUME UNCHANGED <<at, rawDocs, running, finished>> PROVE PoolInv'
    BY <1>2 DEF PoolInv
<1>3. rawDocs \in Seq(AllDocs) /\ DOMAIN rawDocs = 1..Len(rawDocs) /\ Len(rawDocs) \in Nat
    BY DEF DocsInv
<1>4. CASE StartNotion  BY <1>1, <1>4 DEF StartNotion, poolVars, PoolInv
<1>5. CASE StartGitHub  BY <1>1, <1>5 DEF StartGitHub, poolVars, PoolInv
<1>6. CASE SkipLink  BY <1>1, <1>6 DEF SkipLink, poolVars, PoolInv
<1>7. CASE Collecting  BY <1>2, <1>7 DEF Collecting, ownVars
<1>8. CASE EndNotion \/ NotionRaises
    BY <1>1, <1>8 DEF EndNotion, NotionRaises, poolVars, PoolInv
<1>9. CASE EndGitHub  BY <1>1, <1>9 DEF EndGitHub, poolVars, PoolInv
<1>10. CASE StartExtracting  BY <1>1, <1>10 DEF StartExtracting, PoolInv
<1>11. CASE Take
    <2>1. /\ at = "extracting" /\ running' = running \cup {Min(Untaken)}
          /\ UNCHANGED <<at, rawDocs, finished>> /\ Untaken # {}
        BY <1>11 DEF Take
    <2>2. Min(Untaken) \in Untaken
        <3>1. Untaken \in SUBSET Nat  BY <1>3 DEF Untaken
        <3>. QED  BY <2>1, <3>1, LeastOf
    <2>. QED  BY <2>1, <2>2 DEF PoolInv, Untaken
<1>12. ASSUME NEW i \in running, running' = running \ {i}, finished' = Append(finished, i),
              UNCHANGED <<at, rawDocs>>
       PROVE  PoolInv'
    <2>1. i \in Nat /\ finished \in Seq(Nat)  BY <1>3 DEF PoolInv
    <2>2. finished' \in Seq(Nat) /\ ToSet(finished') = ToSet(finished) \cup {i}
        BY <1>12, <2>1, AppendSet
    <2>. QED  BY <1>12, <2>2 DEF PoolInv
<1>13. CASE \E i \in running : ExtractFails(i) \/ \E n \in 0..Sections : Extracted(i, n)
    BY <1>12, <1>13 DEF ExtractFails, Extracted
<1>14. CASE \E split \in BOOLEAN : Assemble(split)
    BY <1>14 DEF Assemble, PoolInv
<1>15. CASE UNCHANGED fetchVars  BY <1>2, <1>15 DEF fetchVars, ownVars
<1>. QED
    BY <1>4, <1>5, <1>6, <1>7, <1>8, <1>9, <1>10, <1>11, <1>13, <1>14, <1>15 DEF FetchNext

\* A page that is not the last lies before the end of what there is.
LEMMA PageEnds ==
    ASSUME CommitsInv, CommitsOpen, ~LastPage(PageOf(Authors[author]))
    PROVE  page <= Len(CommitsOfName(author))
<1>1. PICK lo, hi \in Nat :
          /\ author \in 1..NumAuthors /\ PerPage \in Nat \ {0}
          /\ hi <= Len(CommitsOfName(author)) /\ hi = page * PerPage
    BY PageIs
<1>2. page \in Nat \ {0} /\ Len(CommitsOfName(author)) \in Nat
    BY <1>1, NamesHaveCommits DEF CommitsInv
<1>. DEFINE PP == PerPage
<1>3. PP \in Nat \ {0} /\ hi = page * PP  BY <1>1
<1>. HIDE DEF PP
<1>4. page * PP >= page
    <2>1. PICK q \in Nat : PP = q + 1
        <3>1. PP - 1 \in Nat /\ PP = (PP - 1) + 1  BY <1>3
        <3>. QED  BY <3>1
    <2>2. \A m, k \in Nat : m * (k + 1) = m * k + m /\ m * k \in Nat  OBVIOUS
    <2>3. page * PP = page * q + page /\ page * q \in Nat  BY <1>2, <2>1, <2>2
    <2>. QED  BY <1>2, <2>3
<1>. QED  BY <1>1, <1>2, <1>3, <1>4

LEMMA RepoKeeps ==
    ASSUME RepoInv, CommitsInv, [FetchNext]_fetchVars
    PROVE  RepoInv'
<1>0. MaxAttempts \in Nat \ {0} /\ NumAuthors' = NumAuthors  BY GitHubAssumption DEF NumAuthors
<1>1. ASSUME step' \in Step, step' # "commits", attempt' \in 0..MaxAttempts PROVE RepoInv'
    BY <1>1 DEF RepoInv
<1>2. ASSUME UNCHANGED <<step, attempt, author, page>> PROVE RepoInv'
    BY <1>0, <1>2 DEF RepoInv, CommitsOfName
<1>3. CASE RetrySession
    BY <1>0, <1>1, <1>3 DEF RetrySession, OpenSession, NextAttempt, RepoInv, Step
<1>4. CASE RetryFiles
    BY <1>0, <1>1, <1>4 DEF RetryFiles, NextAttempt, RepoInv
<1>5. CASE SessionRaises
    BY <1>1, <1>5 DEF SessionRaises, RepoInv, Step
<1>6. CASE \E readme, answered \in BOOLEAN : AskRoot(readme, answered)
    BY <1>1, <1>6 DEF AskRoot, RepoInv, Step
<1>7. CASE \E answered \in SUBSET Dir : AskBatch(answered)
    BY <1>2, <1>7 DEF AskBatch
<1>8. CASE TreeDone
    <2>1. /\ step' = "commits" /\ UNCHANGED <<attempt, author, page>>
          /\ author = 1 /\ page = 1
        BY <1>8 DEF TreeDone, CommitsInv, Fresh
    <2>2. 1 <= NumAuthors => Len(CommitsOfName(1)) \in Nat  BY NamesHaveCommits
    <2>3. CommitsOfName(1)' = CommitsOfName(1)  BY DEF CommitsOfName
    <2>. QED  BY <1>0, <2>1, <2>2, <2>3 DEF RepoInv, Step
<1>9. CASE \E answered \in BOOLEAN : AskCommits(answered)
    <2>1. PICK answered \in BOOLEAN : AskCommits(answered)  BY <1>9
    <2>. DEFINE got == IF answered THEN PageOf(Authors[author]) ELSE <<>>
    <2>2. /\ step = "commits" /\ step' = "commits" /\ CommitsOpen /\ attempt' = attempt
          /\ IF LastPage(got) THEN author' = author + 1 /\ page' = 1
             ELSE page' = page + 1 /\ author' = author
        BY <2>1 DEF AskCommits
    <2>3. author \in 1..NumAuthors /\ page \in Nat \ {0} /\ NumAuthors \in Nat
        BY <2>2, NamesHaveCommits DEF CommitsInv, CommitsOpen, NumAuthors
    <2>4. CASE LastPage(got)
        <3>1. author' <= NumAuthors => Len(CommitsOfName(author')) \in Nat
            BY <2>2, <2>3, <2>4, NamesHaveCommits
        <3>. QED  BY <1>0, <2>2, <2>4, <3>1 DEF RepoInv, CommitsOfName
    <2>5. CASE ~LastPage(got)
        <3>1. answered  BY <2>5 DEF LastPage
        <3>2. page <= Len(CommitsOfName(author)) /\ Len(CommitsOfName(author)) \in Nat
            BY <2>2, <2>3, <2>5, <3>1, PageEnds, NamesHaveCommits
        <3>. QED  BY <1>0, <2>2, <2>3, <2>5, <3>2 DEF RepoInv, CommitsOfName
    <2>. QED  BY <2>4, <2>5
<1>10. CASE CommitsDone
    BY <1>1, <1>10 DEF CommitsDone, RepoInv, Step
<1>11. CASE \E answered \in SUBSET Commits : AskDetails(answered)
    <2>1. step' \in {"files", "done"} /\ attempt' \in {attempt, 1}
        BY <1>11 DEF AskDetails
    <2>. QED  BY <1>0, <1>1, <2>1 DEF RepoInv, Step
<1>12. CASE \E answered \in SUBSET File : AskFiles(answered)
    BY <1>1, <1>12 DEF AskFiles, RepoInv, Step
<1>13. CASE StartGitHub
    BY <1>0, <1>1, <1>13 DEF StartGitHub, FetchRepo, OpenSession, Step
<1>14. CASE EndGitHub
    BY <1>0, <1>1, <1>14 DEF EndGitHub, CloseRepo, Step
<1>15. CASE FetchNext /\ ~GitHubNext /\ ~StartGitHub /\ ~EndGitHub
    <2>1. UNCHANGED gitHubVars
        BY <1>15
        DEF FetchNext, StartNotion, SkipLink, Collecting, EndNotion, NotionRaises,
            StartExtracting, Take, Extracted, ExtractFails, Assemble
    <2>. QED  BY <1>2, <2>1 DEF gitHubVars
<1>16. CASE UNCHANGED fetchVars  BY <1>2, <1>16 DEF fetchVars, gitHubVars
<1>. QED
    BY <1>3, <1>4, <1>5, <1>6, <1>7, <1>8, <1>9, <1>10, <1>11, <1>12, <1>13, <1>14, <1>15, <1>16
    DEF GitHubNext

\* There is a number at each place.
LEMMA WorkIsCounted ==
    ASSUME WorkInv
    PROVE  WorkLeft \in [1..6 -> Nat]
<1>1. Len(links) \in Nat /\ Stages \in Nat  BY DEF WorkInv, LinksInv, Stages
<1>2. ASSUME NEW a \in Nat, NEW b \in Nat, NEW c \in Nat, NEW d \in Nat,
             LeftInside = <<a, b, c, d>>
      PROVE  WorkLeft \in [1..6 -> Nat]
    <2>1. WorkLeft = <<Len(links), Stages, a, b, c, d>>  BY <1>2 DEF WorkLeft
    <2>. QED  BY <1>1, <2>1, SixPlaces
<1>3. CASE at = "notion"
    <2>1. todo \in Seq(Visit) /\ IsFiniteSet(visited) /\ Cardinality(visited) <= MaxPages
        BY DEF WorkInv, NotionInv
    <2>2. MaxPages - Cardinality(visited) \in Nat
        <3>1. Cardinality(visited) \in Nat /\ MaxPages \in Nat
            BY <2>1, FS_CardinalityType, NotionAssumption
        <3>. QED  BY <2>1, <3>1
    <2>3. Cardinality(Lists(todo)) \in Nat /\ Len(todo) \in Nat  BY <2>1, ListsCount
    <2>4. LeftInside = <<MaxPages - Cardinality(visited), Cardinality(Lists(todo)), Len(todo), 0>>
        BY <1>3 DEF LeftInside, NotionLeft
    <2>. QED  BY <1>2, <2>2, <2>3, <2>4
<1>4. CASE at = "github"
    <2>1. /\ attempt \in 0..MaxAttempts /\ MaxAttempts \in Nat
          /\ IsFiniteSet(dirs) /\ Cardinality(dirs) <= MaxDirs
          /\ author \in 1..(NumAuthors + 1) /\ page \in Nat /\ NumAuthors \in Nat
        BY NamesHaveCommits, GitHubAssumption
        DEF WorkInv, RepoInv, TreeInv, TreeComplete, CommitsInv
    <2>2. MaxDirs - Cardinality(dirs) \in Nat
        <3>1. Cardinality(dirs) \in Nat /\ MaxDirs \in Nat
            BY <2>1, FS_CardinalityType, GitHubAssumption
        <3>. QED  BY <2>1, <3>1
    <2>3. step = "commits" => PagesLeft \in Nat /\ NumAuthors + 1 - author \in Nat
        <3>1. author <= NumAuthors => Len(CommitsOfName(author)) \in Nat
            BY <2>1, NamesHaveCommits
        <3>. QED  BY <2>1, <3>1 DEF WorkInv, RepoInv, PagesLeft, CommitsOfName, NumAuthors
    <2>. DEFINE s == 1 + MaxAttempts - attempt
                q == IF queue = <<>> THEN 0 ELSE 1
                k == MaxDirs - Cardinality(dirs)
                l == MaxAttempts - attempt
                u == NumAuthors + 1 - author
    <2>4. s \in Nat /\ q \in Nat /\ l \in Nat /\ k \in Nat  BY <2>1, <2>2
    <2>5. LeftInside = CASE step = "root" -> <<s, 4, 0, 0>>
                         [] step = "tree" -> <<s, 3, k, q>>
                         [] step = "commits" -> <<s, 2, u, PagesLeft>>
                         [] step = "details" -> <<s, 1, 0, 0>>
                         [] step = "files" -> <<0, 1, l, 0>>
                         [] OTHER -> <<0, 0, 0, 0>>
        BY <1>4 DEF LeftInside, GitHubLeft, NumAuthors
    <2>6. step = "commits" => u \in Nat  BY <2>3
    <2>. HIDE DEF s, q, k, l, u
    <2>7. CASE step = "root"  BY <1>2, <2>4, <2>5, <2>7
    <2>8. CASE step = "tree"  BY <1>2, <2>4, <2>5, <2>8
    <2>9. CASE step = "commits"  BY <1>2, <2>3, <2>4, <2>5, <2>6, <2>9
    <2>10. CASE step = "details"  BY <1>2, <2>4, <2>5, <2>10
    <2>11. CASE step = "files"  BY <1>2, <2>4, <2>5, <2>11
    <2>12. CASE step \notin {"root", "tree", "commits", "details", "files"}
        BY <1>2, <2>5, <2>12
    <2>. QED  BY <2>7, <2>8, <2>9, <2>10, <2>11, <2>12
<1>5. CASE at = "extracting"
    <2>1. DOMAIN rawDocs = 1..Len(rawDocs) /\ Len(rawDocs) \in Nat
        BY DEF WorkInv, DocsInv
    <2>2. IsFiniteSet(DOMAIN rawDocs)  BY <2>1, FS_Interval
    <2>3. ASSUME NEW D PROVE Cardinality(DOMAIN rawDocs \ D) \in Nat
        <3>1. DOMAIN rawDocs \ D \subseteq DOMAIN rawDocs  OBVIOUS
        <3>. QED  BY <2>2, <3>1, FS_Subset, FS_CardinalityType
    <2>. DEFINE c == Cardinality(DOMAIN rawDocs \ ToSet(finished))
                d == Cardinality(Untaken)
    <2>4. c \in Nat /\ d \in Nat  BY <2>3 DEF Untaken
    <2>5. LeftInside = <<c, d, 0, 0>>  BY <1>5 DEF LeftInside, DocsLeft
    <2>. HIDE DEF c, d
    <2>. QED  BY <1>2, <2>4, <2>5
<1>6. CASE at \notin {"notion", "github", "extracting"}
    <2>1. LeftInside = <<0, 0, 0, 0>>  BY <1>6 DEF LeftInside
    <2>. QED  BY <1>2, <2>1
<1>. QED  BY <1>3, <1>4, <1>5, <1>6

\* Within a link the first two places stay.
LEMMA LowerWithin ==
    ASSUME UNCHANGED <<at, links>>,
           \/ LeftInside'[1] < LeftInside[1]
           \/ LeftInside'[1] = LeftInside[1] /\ LeftInside'[2] < LeftInside[2]
           \/ /\ LeftInside'[1] = LeftInside[1] /\ LeftInside'[2] = LeftInside[2]
              /\ LeftInside'[3] < LeftInside[3]
           \/ /\ LeftInside'[1] = LeftInside[1] /\ LeftInside'[2] = LeftInside[2]
              /\ LeftInside'[3] = LeftInside[3] /\ LeftInside'[4] < LeftInside[4]
    PROVE  Lower(WorkLeft', WorkLeft)
<1>1. WorkLeft'[1] = WorkLeft[1] /\ WorkLeft'[2] = WorkLeft[2]
    BY DEF WorkLeft, Stages
<1>2. /\ WorkLeft[3] = LeftInside[1] /\ WorkLeft[4] = LeftInside[2]
      /\ WorkLeft[5] = LeftInside[3] /\ WorkLeft[6] = LeftInside[4]
      /\ WorkLeft'[3] = LeftInside'[1] /\ WorkLeft'[4] = LeftInside'[2]
      /\ WorkLeft'[5] = LeftInside'[3] /\ WorkLeft'[6] = LeftInside'[4]
    BY DEF WorkLeft
<1>. QED  BY <1>1, <1>2, LowerIs

LEMMA NotionAdvances ==
    ASSUME NotionInv, NotionInv', at = "notion", NotionNext, UNCHANGED ownVars
    PROVE  Lower(WorkLeft', WorkLeft)
<1>. DEFINE h == Head(todo)
            r == Tail(todo)
<1>1. /\ UNCHANGED <<at, links>>
      /\ LeftInside = <<MaxPages - Cardinality(visited), Cardinality(Lists(todo)), Len(todo), 0>>
      /\ LeftInside' = <<MaxPages - Cardinality(visited'), Cardinality(Lists(todo')), Len(todo'), 0>>
    BY DEF ownVars, LeftInside, NotionLeft, Lists
<1>2. /\ todo \in Seq(Visit) /\ IsFiniteSet(visited) /\ Cardinality(visited) <= MaxPages
      /\ IsFiniteSet(visited') /\ Cardinality(visited') <= MaxPages
      /\ Cardinality(visited) \in Nat /\ Cardinality(visited') \in Nat /\ MaxPages \in Nat
    BY FS_CardinalityType, NotionAssumption DEF NotionInv
<1>3. todo # <<>>  BY DEF NotionNext, NotionSkip, NotionCall
<1>4. /\ h \in Visit /\ r \in Seq(Visit) /\ Len(r) = Len(todo) - 1 /\ Len(todo) \in Nat
    BY <1>2, <1>3
<1>5. Cardinality(Lists(todo)) = IF h.at \in PageAt THEN Cardinality(Lists(r))
                                 ELSE Cardinality(Lists(r)) + 1
    BY <1>2, <1>3, ListsOfTail
<1>6. Cardinality(Lists(r)) \in Nat /\ Cardinality(Lists(todo)) \in Nat
    BY <1>2, <1>4, ListsCount
<1>. HIDE DEF r
<1>7. CASE NotionSkip
    <2>1. todo' = r /\ visited' = visited  BY <1>7 DEF NotionSkip, MarkUseless, r
    <2>. QED  BY <1>1, <1>4, <1>5, <1>6, <2>1, LowerWithin
<1>8. ASSUME NEW answered \in BOOLEAN, NotionCall(answered)
      PROVE  Lower(WorkLeft', WorkLeft)
    <2>1. /\ ~Useless(h) /\ visited' = visited \cup ({h.at} \cap PageAt)
          /\ todo' = IF answered THEN Below(h) \o r ELSE r
        BY <1>8 DEF NotionCall, r
    <2>2. CASE h.at \in PageAt
        <3>1. h.at \notin visited /\ visited' = visited \cup {h.at}
            BY <2>1, <2>2 DEF Useless
        <3>2. Cardinality(visited') = Cardinality(visited) + 1
            BY <1>2, <3>1, FS_AddElement
        <3>3. LeftInside'[1] < LeftInside[1]  BY <1>1, <1>2, <3>2
        <3>. QED  BY <1>1, <3>3, LowerWithin
    <2>3. CASE h.at \notin PageAt
        <3>1. visited' = visited  BY <2>1, <2>3
        <3>2. LinksAt[h.at] \in Seq(PageAt) /\ LinksAt[h.at] \in Seq(Place) /\ h.depth \in Nat
            BY <1>4, <2>3, NotionAssumption DEF Visit, Place
        <3>3. Below(h) \in Seq(Visit)  BY <3>2, BelowIsSeq
        <3>4. Lists(Below(h)) = {}
            <4>. DEFINE s == LinksAt[h.at]
            <4>1. \A i \in DOMAIN s : s[i] \in PageAt  BY <3>2
            <4>2. /\ DOMAIN Below(h) = DOMAIN s
                  /\ \A i \in DOMAIN s : Below(h)[i].at = s[i]
                BY DEF Below
            <4>. QED  BY <4>1, <4>2 DEF Lists
        <3>5. Cardinality(Lists(todo')) = Cardinality(Lists(r))
            <4>. DEFINE b == Below(h)
            <4>1. b \in Seq(Visit) /\ r \in Seq(Visit) /\ Lists(b) = {}  BY <1>4, <3>3, <3>4
            <4>2. todo' = IF answered THEN b \o r ELSE r  BY <2>1
            <4>. HIDE DEF b
            <4>3. Cardinality(Lists(b \o r)) = Cardinality(Lists(r))
                BY <4>1, ListsBehindPages
            <4>. QED  BY <4>2, <4>3
        <3>6. LeftInside'[1] = LeftInside[1] /\ LeftInside'[2] < LeftInside[2]
            BY <1>1, <1>5, <1>6, <2>3, <3>1, <3>5
        <3>. QED  BY <1>1, <3>6, LowerWithin
    <2>. QED  BY <2>2, <2>3
<1>. QED  BY <1>7, <1>8 DEF NotionNext

\* A batch asks for another directory, or the queue is at its end: all of it was passed
\* over.
LEMMA BatchGoesOn ==
    ASSUME TreeInv, TreeInv', NEW answered \in SUBSET Dir, AskBatch(answered)
    PROVE  \/ Cardinality(dirs') > Cardinality(dirs)
           \/ Cardinality(dirs') = Cardinality(dirs) /\ queue' = <<>> /\ queue # <<>>
<1>1. /\ queue \in Seq(Dir) /\ queue # <<>> /\ IsFiniteSet(dirs) /\ IsFiniteSet(dirs')
      /\ Cardinality(dirs) < MaxDirs
      /\ queue' = Requeued(answered) /\ dirs' = dirs \cup ToSet(Batch)
    BY DEF TreeInv, AskBatch, TreeOpen
<1>2. /\ Cardinality(dirs) \in Nat /\ Cardinality(dirs') \in Nat
      /\ MaxDirs \in Nat /\ Concurrency \in Nat \ {0}
    BY <1>1, FS_CardinalityType, GitHubAssumption
<1>3. Room \in Nat \ {0}  BY <1>1, <1>2 DEF Room
<1>. DEFINE b == Batch
<1>4. b \in Seq(Dir)  BY <1>1, <1>3, BatchFits
<1>5. ToSet(b) \cap dirs = {}  BY <1>1, BatchSet DEF PassedOver
<1>6. CASE b # <<>>
    <2>. HIDE DEF b
    <2>1. b[1] \in ToSet(b)  BY <1>4, <1>6 DEF ToSet
    <2>2. PICK x : x \in ToSet(b)  BY <2>1
    <2>3. Cardinality(dirs \cup {x}) = Cardinality(dirs) + 1
        BY <1>1, <1>5, <2>2, FS_AddElement
    <2>4. dirs \cup {x} \subseteq dirs'  BY <1>1, <2>2 DEF b
    <2>5. Cardinality(dirs \cup {x}) <= Cardinality(dirs')  BY <1>1, <2>4, FS_Subset
    <2>. QED  BY <1>2, <2>3, <2>5
<1>7. CASE b = <<>>
    <2>1. dirs' = dirs  BY <1>1, <1>7 DEF ToSet
    <2>2. Taken = Len(queue)
        <3>1. Len(Batch) = 0  BY <1>7
        <3>2. Taken = Len(queue) \/ Len(Batch) = Room  BY <1>1, TakenIs DEF Batch
        <3>. QED  BY <1>3, <3>1, <3>2
    <2>3. SubSeq(queue, Taken + 1, Len(queue)) = <<>>
        <3>1. Taken = Len(queue) /\ Len(queue) \in Nat  BY <1>1, <2>2
        <3>2. SubSeq(queue, Len(queue) + 1, Len(queue)) = <<>>
            BY <1>1, <3>1, SubSeqEmpty
        <3>. QED  BY <3>1, <3>2
    <2>4. SubSeq(queue, Taken + 1, Len(queue)) \in Seq(Dir)  BY <1>1, BatchSet
    <2>5. Batch \in Seq(Dir)  BY <1>4
    <2>6. Requeued(answered) = SubSeq(queue, Taken + 1, Len(queue))
        BY <1>1, <1>7, <2>4, <2>5, RequeuedSet
    <2>. QED  BY <1>1, <2>1, <2>3, <2>6
<1>. QED  BY <1>6, <1>7

LEMMA RepoAdvances ==
    ASSUME WorkInv, TreeInv', at = "github", GitHubNext, UNCHANGED ownVars
    PROVE  Lower(WorkLeft', WorkLeft)
<1>. DEFINE s == 1 + MaxAttempts - attempt
            q == IF queue = <<>> THEN 0 ELSE 1
            k == MaxDirs - Cardinality(dirs)
            u == NumAuthors + 1 - author
            l == MaxAttempts - attempt
<1>1. UNCHANGED <<at, links>> /\ at' = "github"  BY DEF ownVars
<1>2. /\ attempt \in 0..MaxAttempts /\ MaxAttempts \in Nat
      /\ author \in 1..(NumAuthors + 1) /\ page \in Nat /\ NumAuthors \in Nat
    BY NamesHaveCommits, GitHubAssumption DEF WorkInv, RepoInv, CommitsInv
<1>3. LeftInside = GitHubLeft /\ LeftInside' = GitHubLeft'  BY <1>1 DEF LeftInside
<1>4. /\ step = "root" => LeftInside = <<s, 4, 0, 0>>
      /\ step = "tree" => LeftInside = <<s, 3, k, q>>
      /\ step = "commits" => LeftInside = <<s, 2, u, PagesLeft>>
      /\ step = "details" => LeftInside = <<s, 1, 0, 0>>
      /\ step = "files" => LeftInside = <<0, 1, l, 0>>
      /\ step \in {"raised", "done"} => LeftInside = <<0, 0, 0, 0>>
    BY <1>3 DEF GitHubLeft, NumAuthors
<1>5. /\ step' = "root" => LeftInside' = <<s', 4, 0, 0>>
      /\ step' = "tree" => LeftInside' = <<s', 3, k', q'>>
      /\ step' = "commits" => LeftInside' = <<s', 2, u', PagesLeft'>>
      /\ step' = "details" => LeftInside' = <<s', 1, 0, 0>>
      /\ step' = "files" => LeftInside' = <<0, 1, l', 0>>
      /\ step' \in {"raised", "done"} => LeftInside' = <<0, 0, 0, 0>>
    BY <1>3 DEF GitHubLeft, NumAuthors
<1>6. s \in Nat \ {0} /\ l \in Nat  BY <1>2
<1>7. attempt' = attempt => s' = s
    OBVIOUS
<1>. HIDE DEF k, q, u
<1>8. CASE RetrySession
    <2>1. attempt' = attempt + 1 /\ step' = "root" /\ step \in {"root", "tree", "commits", "details"}
        BY <1>8 DEF RetrySession, OpenSession, NextAttempt
    <2>2. s' < s  BY <1>2, <2>1
    <2>3. LeftInside'[1] = s' /\ LeftInside[1] = s  BY <1>4, <1>5, <2>1
    <2>. QED  BY <1>1, <2>2, <2>3, LowerWithin
<1>9. CASE RetryFiles
    <2>1. attempt' = attempt + 1 /\ step' = "files" /\ step = "files"
        BY <1>9 DEF RetryFiles, NextAttempt
    <2>2. l' < l  BY <1>2, <2>1
    <2>3. LeftInside' = <<0, 1, l', 0>> /\ LeftInside = <<0, 1, l, 0>>  BY <1>4, <1>5, <2>1
    <2>. HIDE DEF l
    <2>. QED  BY <1>1, <2>2, <2>3, LowerWithin
<1>10. CASE SessionRaises
    <2>1. /\ step' = "raised"
          /\ step \in {"root", "tree", "commits", "details", "files"}
        BY <1>10 DEF SessionRaises
    <2>2. LeftInside' = <<0, 0, 0, 0>>  BY <1>5, <2>1
    <2>3. CASE step = "files"
        <3>1. LeftInside[1] = 0 /\ LeftInside[2] = 1  BY <1>4, <2>3
        <3>. QED  BY <1>1, <2>2, <3>1, LowerWithin
    <2>4. CASE step # "files"
        <3>1. LeftInside[1] = s  BY <1>4, <2>1, <2>4
        <3>. HIDE DEF s
        <3>. QED  BY <1>1, <1>6, <2>2, <3>1, LowerWithin
    <2>. QED  BY <2>3, <2>4
<1>11. CASE \E readme, answered \in BOOLEAN : AskRoot(readme, answered)
    <2>1. step = "root" /\ step' = "tree" /\ attempt' = attempt  BY <1>11 DEF AskRoot
    <2>2. LeftInside = <<s, 4, 0, 0>> /\ LeftInside' = <<s, 3, k', q'>>
        BY <1>4, <1>5, <1>7, <2>1
    <2>. HIDE DEF s
    <2>. QED  BY <1>1, <2>2, LowerWithin
<1>12. CASE \E answered \in SUBSET Dir : AskBatch(answered)
    <2>1. PICK answered \in SUBSET Dir : AskBatch(answered)  BY <1>12
    <2>2. step = "tree" /\ step' = "tree" /\ attempt' = attempt  BY <2>1 DEF AskBatch
    <2>3. LeftInside = <<s, 3, k, q>> /\ LeftInside' = <<s, 3, k', q'>>
        BY <1>4, <1>5, <1>7, <2>2
    <2>4. k' < k \/ (k' = k /\ q' < q)
        <3>1. \/ Cardinality(dirs') > Cardinality(dirs)
              \/ Cardinality(dirs') = Cardinality(dirs) /\ queue' = <<>> /\ queue # <<>>
            BY <2>1, BatchGoesOn DEF WorkInv
        <3>2. Cardinality(dirs) \in Nat /\ Cardinality(dirs') \in Nat /\ MaxDirs \in Nat
            BY FS_CardinalityType, GitHubAssumption DEF WorkInv, TreeInv
        <3>. QED  BY <3>1, <3>2 DEF k, q
    <2>. HIDE DEF s
    <2>. QED  BY <1>1, <2>3, <2>4, LowerWithin
<1>13. CASE TreeDone
    <2>1. step = "tree" /\ step' = "commits" /\ attempt' = attempt  BY <1>13 DEF TreeDone
    <2>2. LeftInside = <<s, 3, k, q>> /\ LeftInside' = <<s, 2, u', PagesLeft'>>
        BY <1>4, <1>5, <1>7, <2>1
    <2>. HIDE DEF s
    <2>. QED  BY <1>1, <2>2, LowerWithin
<1>14. CASE \E answered \in BOOLEAN : AskCommits(answered)
    <2>1. PICK answered \in BOOLEAN : AskCommits(answered)  BY <1>14
    <2>. DEFINE got == IF answered THEN PageOf(Authors[author]) ELSE <<>>
    <2>2. /\ step = "commits" /\ step' = "commits" /\ attempt' = attempt /\ author <= NumAuthors
          /\ IF LastPage(got) THEN author' = author + 1
             ELSE page' = page + 1 /\ author' = author
        BY <2>1 DEF AskCommits, CommitsOpen, NumAuthors
    <2>3. LeftInside = <<s, 2, u, PagesLeft>> /\ LeftInside' = <<s, 2, u', PagesLeft'>>
        BY <1>4, <1>5, <1>7, <2>2
    <2>4. u' < u \/ (u' = u /\ PagesLeft' < PagesLeft)
        <3>1. NumAuthors' = NumAuthors  BY DEF NumAuthors
        <3>2. CASE LastPage(got)
            <4>1. author' = author + 1  BY <2>2, <3>2
            <4>. QED  BY <1>2, <3>1, <4>1 DEF u
        <3>3. CASE ~LastPage(got)
            <4>1. author' = author /\ page' = page + 1  BY <2>2, <3>3
            <4>2. Len(CommitsOfName(author)) \in Nat  BY <1>2, <2>2, NamesHaveCommits
            <4>3. ~ (author > Len(Authors))  BY <1>2, <2>2 DEF NumAuthors
            <4>4. /\ PagesLeft = Len(CommitsOfName(author)) + 1 - page
                  /\ PagesLeft' = Len(CommitsOfName(author)) + 1 - page'
                BY <4>1, <4>3 DEF PagesLeft, CommitsOfName
            <4>. QED  BY <1>2, <3>1, <4>1, <4>2, <4>4 DEF u
        <3>. QED  BY <3>2, <3>3
    <2>. HIDE DEF s
    <2>. QED  BY <1>1, <2>3, <2>4, LowerWithin
<1>15. CASE CommitsDone
    <2>1. step = "commits" /\ step' = "details" /\ attempt' = attempt  BY <1>15 DEF CommitsDone
    <2>2. LeftInside = <<s, 2, u, PagesLeft>> /\ LeftInside' = <<s, 1, 0, 0>>
        BY <1>4, <1>5, <1>7, <2>1
    <2>. HIDE DEF s
    <2>. QED  BY <1>1, <2>2, LowerWithin
<1>16. CASE \E answered \in SUBSET Commits : AskDetails(answered)
    <2>1. step = "details" /\ step' \in {"files", "done"}  BY <1>16 DEF AskDetails
    <2>2. LeftInside[1] = s /\ LeftInside'[1] = 0  BY <1>4, <1>5, <2>1
    <2>. HIDE DEF s
    <2>. QED  BY <1>1, <1>6, <2>2, LowerWithin
<1>17. CASE \E answered \in SUBSET File : AskFiles(answered)
    <2>1. step = "files" /\ step' = "done"  BY <1>17 DEF AskFiles
    <2>2. LeftInside = <<0, 1, l, 0>> /\ LeftInside' = <<0, 0, 0, 0>>  BY <1>4, <1>5, <2>1
    <2>. QED  BY <1>1, <2>2, LowerWithin
<1>. QED
    BY <1>8, <1>9, <1>10, <1>11, <1>12, <1>13, <1>14, <1>15, <1>16, <1>17 DEF GitHubNext

LEMMA PoolAdvances ==
    ASSUME DocsInv, PoolInv, at = "extracting", UNCHANGED <<at, links, rawDocs>>,
           \/ /\ Untaken # {} /\ running' = running \cup {Min(Untaken)}
              /\ UNCHANGED finished
           \/ \E i \in running : running' = running \ {i} /\ finished' = Append(finished, i)
    PROVE  Lower(WorkLeft', WorkLeft)
<1>. DEFINE D == DOMAIN rawDocs
            T == D \ ToSet(finished)
            U == Untaken
<1>1. D = 1..Len(rawDocs) /\ Len(rawDocs) \in Nat /\ D' = D
    BY DEF DocsInv
<1>2. IsFiniteSet(T) /\ IsFiniteSet(U)
    <2>1. IsFiniteSet(1..Len(rawDocs))  BY <1>1, FS_Interval
    <2>2. IsFiniteSet(D) /\ T \subseteq D /\ U \subseteq D  BY <1>1, <2>1 DEF Untaken
    <2>. QED  BY <2>2, FS_Subset
<1>3. /\ LeftInside = <<Cardinality(T), Cardinality(U), 0, 0>>
      /\ LeftInside' = <<Cardinality(T'), Cardinality(U'), 0, 0>>
    BY DEF LeftInside, DocsLeft
<1>4. Cardinality(T) \in Nat /\ Cardinality(U) \in Nat  BY <1>2, FS_CardinalityType
<1>5. CASE Untaken # {} /\ running' = running \cup {Min(Untaken)} /\ UNCHANGED finished
    <2>1. Min(Untaken) \in U
        <3>1. Untaken \in SUBSET Nat  BY <1>1 DEF Untaken
        <3>. QED  BY <1>5, <3>1, LeastOf
    <2>2. T' = T  BY <1>1, <1>5
    <2>3. U' = U \ {Min(Untaken)}  BY <1>1, <1>5 DEF Untaken
    <2>. HIDE DEF T, U
    <2>4. Cardinality(U') = Cardinality(U) - 1  BY <1>2, <2>1, <2>3, FS_RemoveElement
    <2>5. LeftInside'[1] = LeftInside[1] /\ LeftInside'[2] < LeftInside[2]
        BY <1>3, <1>4, <2>2, <2>4
    <2>. QED  BY <2>5, LowerWithin
<1>6. ASSUME NEW i \in running, running' = running \ {i}, finished' = Append(finished, i)
      PROVE  Lower(WorkLeft', WorkLeft)
    <2>1. i \in Nat /\ finished \in Seq(Nat)  BY <1>1 DEF PoolInv
    <2>2. ToSet(finished') = ToSet(finished) \cup {i}  BY <1>6, <2>1, AppendSet
    <2>3. i \in T /\ T' = T \ {i}  BY <1>1, <2>2 DEF PoolInv
    <2>. HIDE DEF T, U
    <2>4. Cardinality(T') = Cardinality(T) - 1  BY <1>2, <2>3, FS_RemoveElement
    <2>5. LeftInside'[1] < LeftInside[1]  BY <1>3, <1>4, <2>4
    <2>. QED  BY <2>5, LowerWithin
<1>. QED  BY <1>5, <1>6

\* Between the links, and at the ends of the collecting and the looking into.
LEMMA LinksAdvance ==
    ASSUME LinksInv,
           \/ at \in {"between", "notion", "github"} /\ links # <<>> /\ links' = Tail(links)
           \/ at = "between" /\ at' \in {"notion", "github", "extracting"} /\ UNCHANGED links
           \/ at = "extracting" /\ at' = "done" /\ UNCHANGED links
    PROVE  Lower(WorkLeft', WorkLeft)
<1>1. /\ WorkLeft[1] = Len(links) /\ WorkLeft[2] = Stages
      /\ WorkLeft'[1] = Len(links') /\ WorkLeft'[2] = Stages'
    BY DEF WorkLeft
<1>2. CASE links # <<>> /\ links' = Tail(links)
    <2>1. Len(links') < Len(links)  BY <1>2 DEF LinksInv
    <2>. QED  BY <1>1, <2>1, LowerIs
<1>3. CASE /\ UNCHANGED links
           /\ \/ at = "between" /\ at' \in {"notion", "github", "extracting"}
              \/ at = "extracting" /\ at' = "done"
    <2>1. Stages' < Stages  BY <1>3 DEF Stages
    <2>. QED  BY <1>1, <1>3, <2>1, LowerIs
<1>. QED  BY <1>2, <1>3

LEMMA StepAdvances ==
    ASSUME WorkInv, WorkInv', FetchNext
    PROVE  Lower(WorkLeft', WorkLeft)
<1>1. CASE StartNotion  BY <1>1, LinksAdvance DEF StartNotion, WorkInv
<1>2. CASE StartGitHub  BY <1>2, LinksAdvance DEF StartGitHub, WorkInv
<1>3. CASE SkipLink  BY <1>3, LinksAdvance DEF SkipLink, WorkInv
<1>4. CASE Collecting
    BY <1>4, NotionAdvances, RepoAdvances DEF Collecting, WorkInv
<1>5. CASE EndNotion \/ NotionRaises
    BY <1>5, LinksAdvance DEF EndNotion, NotionRaises, WorkInv, LinksInv
<1>6. CASE EndGitHub  BY <1>6, LinksAdvance DEF EndGitHub, WorkInv, LinksInv
<1>7. CASE StartExtracting  BY <1>7, LinksAdvance DEF StartExtracting, WorkInv
<1>8. CASE Take  BY <1>8, PoolAdvances DEF Take, WorkInv
<1>9. CASE \E i \in running : ExtractFails(i) \/ \E n \in 0..Sections : Extracted(i, n)
    BY <1>9, PoolAdvances DEF ExtractFails, Extracted, WorkInv
<1>10. CASE \E split \in BOOLEAN : Assemble(split)
    BY <1>10, LinksAdvance DEF Assemble, WorkInv
<1>. QED  BY <1>1, <1>2, <1>3, <1>4, <1>5, <1>6, <1>7, <1>8, <1>9, <1>10 DEF FetchNext

LEMMA WorkStarts ==
    FetchInit => WorkInv
<1>. SUFFICES ASSUME FetchInit PROVE WorkInv
    OBVIOUS
<1>1. /\ at = "between" /\ links \in Requests /\ running = {} /\ finished = <<>>
      /\ step = "off" /\ attempt = 0
    BY DEF FetchInit, GitHubInit
<1>2. LinksInv  BY <1>1, FetchAssumption DEF LinksInv
<1>3. RepoInv  BY <1>1, GitHubAssumption DEF RepoInv, Step
<1>4. PoolInv
    <2>1. finished \in Seq(Nat)  BY <1>1
    <2>. QED  BY <1>1, <2>1 DEF PoolInv
<1>. QED
    BY <1>2, <1>3, <1>4, NotionStarts, TreeStarts, CommitsStart, DocsStart DEF WorkInv

LEMMA WorkKeeps ==
    ASSUME WorkInv, [FetchNext]_fetchVars
    PROVE  WorkInv'
BY NotionKeeps, TreeKeeps, CommitsKeep, DocsKeep, LinksKeep, RepoKeeps, PoolKeeps DEF WorkInv

\* Whatever the services answer, whichever calls fail and however often a session breaks,
\* each step leaves less to do.
THEOREM CollectingAdvancesHolds == FetchSpec => CollectingAdvances
<1>1. WorkInv /\ WorkInv' /\ [FetchNext]_fetchVars =>
          [WorkLeft' \in [1..6 -> Nat] /\ Lower(WorkLeft', WorkLeft)]_fetchVars
    <2>1. WorkInv' => (WorkLeft \in [1..6 -> Nat])'
        <3>1. WorkInv => WorkLeft \in [1..6 -> Nat]  BY WorkIsCounted
        <3>. QED  BY <3>1, PTL
    <2>. QED  BY <2>1, StepAdvances
<1>. QED  BY <1>1, WorkStarts, WorkKeeps, PTL DEF FetchSpec, CollectingAdvances

\* And there is no end of getting less: of steps that each leave less to do there are only
\* so many.
THEOREM NoEndlessWork ==
    ~ \E w \in [Nat -> [1..6 -> Nat]] : \A n \in Nat : Lower(w[n + 1], w[n])
<1>1. IsWellFoundedOn(Less, Nat)  BY NatLessThanWellFounded DEF OpToRel, Less
<1>2. IsWellFoundedOn(LexProductOrdering(Less, Nat, 6), [1..6 -> Nat])
    BY <1>1, WFLexProductOrdering
<1>3. ASSUME NEW m \in [1..6 -> Nat], NEW n \in [1..6 -> Nat], Lower(m, n)
      PROVE  <<m, n>> \in LexProductOrdering(Less, Nat, 6)
    <2>1. PICK i \in 1..6 : m[i] < n[i] /\ \A j \in 1..(i - 1) : m[j] = n[j]
        BY <1>3 DEF Lower
    <2>2. <<m[i], n[i]>> \in Less  BY <2>1 DEF Less
    <2>. QED  BY <2>1, <2>2 DEF LexProductOrdering
<1>4. ASSUME NEW w \in [Nat -> [1..6 -> Nat]], \A n \in Nat : Lower(w[n + 1], w[n])
      PROVE  FALSE
    <2>1. \A n \in Nat : <<w[n + 1], w[n]>> \in LexProductOrdering(Less, Nat, 6)
        BY <1>3, <1>4
    <2>. QED  BY <1>2, <2>1 DEF IsWellFoundedOn
<1>. QED  BY <1>4

---------------------------------------------------------------------------
(* Nothing is collected that no link leads to *)

\* S holds the pages asked for and, with a place, what is named there.
Linked(S) ==
    /\ S \subseteq Place /\ \A l \in S : ToSet(LinksAt[l]) \subseteq S
    /\ ToSet(links) \cap PageAt \subseteq S

PagesCollected == {d \in ToSet(rawDocs) : d.is = "page"}

LinkedInv(S) ==
    /\ Linked(S)
    /\ \A i \in DOMAIN todo : todo[i].at \in S
    /\ ToSet(pages) \subseteq S
    /\ \A d \in PagesCollected : d.file \in S

LEMMA TailSet ==
    ASSUME NEW S, NEW s \in Seq(S), s # <<>>
    PROVE  Head(s) \in ToSet(s) /\ ToSet(Tail(s)) \subseteq ToSet(s)
<1>1. /\ DOMAIN s = 1..Len(s) /\ Len(s) \in Nat /\ Len(s) >= 1 /\ Head(s) = s[1]
      /\ DOMAIN Tail(s) = 1..(Len(s) - 1) /\ \A i \in 1..(Len(s) - 1) : Tail(s)[i] = s[i + 1]
    OBVIOUS
<1>2. ASSUME NEW x \in ToSet(Tail(s)) PROVE x \in ToSet(s)
    <2>1. PICK i \in 1..(Len(s) - 1) : Tail(s)[i] = x  BY <1>1 DEF ToSet
    <2>2. i + 1 \in 1..Len(s) /\ s[i + 1] = x  BY <1>1, <2>1
    <2>. QED  BY <1>1, <2>2 DEF ToSet
<1>. QED  BY <1>1, <1>2 DEF ToSet

LEMMA NotionStaysLinked ==
    ASSUME NEW S, LinkedInv(S), NotionInv, NotionNext, UNCHANGED ownVars
    PROVE  LinkedInv(S)'
<1>. DEFINE h == Head(todo)
            r == Tail(todo)
<1>1. Linked(S)' /\ PagesCollected' = PagesCollected
    BY DEF ownVars, Linked, LinkedInv, PagesCollected
<1>2. todo \in Seq(Visit) /\ pages \in Seq(PageAt) /\ todo # <<>>
    BY DEF NotionInv, NotionNext, NotionSkip, NotionCall
<1>3. /\ h \in Visit /\ r \in Seq(Visit) /\ h.at \in S
      /\ \A i \in DOMAIN r : r[i].at \in S
    <2>1. /\ h = todo[1] /\ 1 \in DOMAIN todo /\ h \in Visit /\ r \in Seq(Visit)
          /\ \A i \in DOMAIN r : i + 1 \in DOMAIN todo /\ r[i] = todo[i + 1]
        BY <1>2
    <2>. QED  BY <2>1 DEF LinkedInv
<1>. HIDE DEF r
<1>4. ASSUME todo' = r, pages' = pages PROVE LinkedInv(S)'
    BY <1>1, <1>3, <1>4 DEF LinkedInv
<1>5. CASE NotionSkip  BY <1>4, <1>5 DEF NotionSkip, r
<1>6. ASSUME NEW answered \in BOOLEAN, NotionCall(answered) PROVE LinkedInv(S)'
    <2>1. CASE ~answered  BY <1>4, <1>6, <2>1 DEF NotionCall, r
    <2>2. CASE answered
        <3>. DEFINE b == Below(h)
        <3>1. /\ todo' = b \o r
              /\ pages' = IF h.at \in PageAt THEN Append(pages, h.at) ELSE pages
            BY <1>6, <2>2 DEF NotionCall, r
        <3>2. LinksAt[h.at] \in Seq(Place) /\ h.depth \in Nat /\ ToSet(LinksAt[h.at]) \subseteq S
            BY <1>3, NotionAssumption DEF Visit, LinkedInv, Linked
        <3>3. b \in Seq(Visit)  BY <3>2, BelowIsSeq
        <3>4. \A i \in DOMAIN b : b[i].at \in S
            BY <3>2 DEF Below, ToSet
        <3>. HIDE DEF b
        <3>5. \A i \in DOMAIN (b \o r) : (b \o r)[i].at \in S
            <4>1. ASSUME NEW i \in DOMAIN (b \o r)
                  PROVE  \/ i \in DOMAIN b /\ (b \o r)[i] = b[i]
                         \/ i - Len(b) \in DOMAIN r /\ (b \o r)[i] = r[i - Len(b)]
                BY <1>3, <3>3
            <4>. QED  BY <1>3, <3>4, <4>1
        <3>6. ToSet(pages') \subseteq S
            <4>1. CASE h.at \in PageAt
                <5>1. ToSet(Append(pages, h.at)) = ToSet(pages) \cup {h.at}
                    BY <1>2, <4>1, AppendSet
                <5>. QED  BY <1>3, <3>1, <4>1, <5>1 DEF LinkedInv
            <4>2. CASE h.at \notin PageAt  BY <3>1, <4>2 DEF LinkedInv
            <4>. QED  BY <4>1, <4>2
        <3>7. \A i \in DOMAIN todo' : todo'[i].at \in S  BY <3>1, <3>5
        <3>. QED  BY <1>1, <3>6, <3>7 DEF LinkedInv
    <2>. QED  BY <2>1, <2>2
<1>. QED  BY <1>5, <1>6 DEF NotionNext

LEMMA StaysLinked ==
    ASSUME NEW S, LinkedInv(S), NotionInv, DocsInv, LinksInv, [FetchNext]_fetchVars
    PROVE  LinkedInv(S)'
<1>1. ASSUME UNCHANGED notionVars, UNCHANGED rawDocs, ToSet(links') \subseteq ToSet(links)
      PROVE  LinkedInv(S)'
    BY <1>1 DEF notionVars, LinkedInv, Linked, PagesCollected
<1>2. links # <<>> => Head(links) \in ToSet(links) /\ ToSet(Tail(links)) \subseteq ToSet(links)
    BY TailSet DEF LinksInv
<1>3. rawDocs \in Seq(AllDocs) /\ pages \in Seq(PageAt)  BY DEF DocsInv, NotionInv
<1>4. CASE StartNotion
    <2>1. /\ Head(links) \in PageAt /\ Head(links) \in S
          /\ todo' = <<[at |-> Head(links), depth |-> 0]>> /\ pages' = <<>>
          /\ UNCHANGED <<links, rawDocs>>
        BY <1>2, <1>4 DEF StartNotion, FetchPages, LinkedInv, Linked
    <2>2. \A i \in DOMAIN todo' : todo'[i].at \in S  BY <2>1
    <2>3. ToSet(pages') = {}  BY <2>1 DEF ToSet
    <2>. QED  BY <2>1, <2>2, <2>3 DEF LinkedInv, Linked, PagesCollected
<1>5. CASE at = "notion" /\ NotionNext /\ UNCHANGED <<ownVars, gitHubVars>>
    BY <1>5, NotionStaysLinked
<1>6. CASE EndNotion
    <2>. DEFINE more == [i \in DOMAIN pages |-> PageDoc(pages[i])]
    <2>1. /\ links' = Tail(links) /\ links # <<>> /\ rawDocs' = rawDocs \o more
          /\ todo' = <<>> /\ pages' = <<>>
        BY <1>6 DEF EndNotion, CloseLink, LinksInv
    <2>2. \A d \in ToSet(more) : d.file \in ToSet(pages)  BY DEF ToSet, PageDoc
    <2>3. more \in Seq(AllDocs)
        <3>1. DOMAIN pages = 1..Len(pages) /\ Len(pages) \in Nat  BY <1>3
        <3>2. \A i \in 1..Len(pages) : PageDoc(pages[i]) \in AllDocs  BY <1>3, <3>1 DEF AllDocs
        <3>. DEFINE n == Len(pages)
        <3>3. more \in [1..n -> AllDocs] /\ n \in Nat  BY <3>1, <3>2
        <3>. HIDE DEF n, more
        <3>. QED  BY <3>3
    <2>. HIDE DEF more
    <2>4. ToSet(rawDocs') = ToSet(rawDocs) \cup ToSet(more)  BY <1>3, <2>1, <2>3, ConcatSet
    <2>5. \A d \in PagesCollected' : d.file \in S
        BY <2>2, <2>4 DEF PagesCollected, LinkedInv
    <2>6. ToSet(pages') = {} /\ DOMAIN todo' = {}  BY <2>1 DEF ToSet
    <2>. QED  BY <1>2, <2>1, <2>5, <2>6 DEF LinkedInv, Linked
<1>7. CASE EndGitHub
    <2>1. /\ links' = Tail(links) /\ links # <<>> /\ UNCHANGED notionVars
          /\ rawDocs' = rawDocs \/ rawDocs' = rawDocs \o SetToSeq(found)
        BY <1>7 DEF EndGitHub, LinksInv
    <2>. DEFINE more == SetToSeq(found)
    <2>2. more \in Seq(found) /\ found \subseteq RepoDocs
        BY RepoDocsFinite, SetToSeqIs, FS_Subset DEF DocsInv
    <2>. HIDE DEF more
    <2>3. more \in Seq(AllDocs) /\ ToSet(more) \subseteq RepoDocs
        <3>1. DOMAIN more = 1..Len(more) /\ \A i \in 1..Len(more) : more[i] \in found
            BY <2>2
        <3>2. found \subseteq AllDocs  BY <2>2 DEF AllDocs
        <3>. QED  BY <2>2, <3>1, <3>2 DEF ToSet
    <2>4. \A d \in RepoDocs : d.is # "page"
        BY DEF RepoDocs, Patches, Codes, Readme, Patch, Code
    <2>5. ToSet(rawDocs \o more) = ToSet(rawDocs) \cup ToSet(more)  BY <1>3, <2>3, ConcatSet
    <2>6. PagesCollected' = PagesCollected
        BY <2>1, <2>3, <2>4, <2>5 DEF PagesCollected, more
    <2>. QED  BY <1>2, <2>1, <2>6 DEF LinkedInv, Linked, notionVars
<1>16. CASE NotionRaises
    <2>1. /\ links' = Tail(links) /\ links # <<>> /\ todo' = <<>> /\ pages' = <<>>
          /\ PagesCollected' = PagesCollected
        BY <1>16 DEF NotionRaises, CloseLink, LinksInv, PagesCollected
    <2>2. ToSet(pages') = {} /\ DOMAIN todo' = {}  BY <2>1 DEF ToSet
    <2>. QED  BY <1>2, <2>1, <2>2 DEF LinkedInv, Linked
<1>8. CASE StartGitHub  BY <1>1, <1>8 DEF StartGitHub
<1>9. CASE SkipLink  BY <1>1, <1>2, <1>9 DEF SkipLink
<1>10. CASE at = "github" /\ GitHubNext /\ UNCHANGED <<ownVars, notionVars>>
    BY <1>1, <1>10 DEF ownVars
<1>11. CASE StartExtracting  BY <1>1, <1>11 DEF StartExtracting
<1>12. CASE Take  BY <1>1, <1>12 DEF Take
<1>13. CASE \E i \in running : ExtractFails(i) \/ \E n \in 0..Sections : Extracted(i, n)
    BY <1>1, <1>13 DEF ExtractFails, Extracted
<1>14. CASE \E split \in BOOLEAN : Assemble(split)
    BY <1>1, <1>14 DEF Assemble
<1>15. CASE UNCHANGED fetchVars  BY <1>1, <1>15 DEF fetchVars, ownVars
<1>. QED
    BY <1>4, <1>5, <1>6, <1>7, <1>8, <1>9, <1>10, <1>11, <1>12, <1>13, <1>14, <1>15,
       <1>16
    DEF FetchNext, Collecting

\* However pages and lists refer to each other, no page is collected that cannot be reached
\* from the links asked for: whatever set of places holds those and all that is named in
\* it also holds each page that gave a document.  This is what EvidenceIndex takes for
\* granted of its step Collect.
THEOREM NothingUnlinkedCollected ==
    ASSUME NEW S
    PROVE  FetchSpec /\ Linked(S) => [](\A d \in PagesCollected : d.file \in S)
<1>1. FetchInit /\ Linked(S) => LinkedInv(S)
    <2>. SUFFICES ASSUME FetchInit, Linked(S) PROVE LinkedInv(S)
        OBVIOUS
    <2>1. todo = <<>> /\ pages = <<>> /\ rawDocs = <<>>  BY DEF FetchInit, NotionInit
    <2>2. DOMAIN todo = {} /\ ToSet(pages) = {} /\ ToSet(rawDocs) = {}  BY <2>1 DEF ToSet
    <2>. QED  BY <2>2 DEF LinkedInv, PagesCollected
<1>2. LinkedInv(S) /\ WorkInv /\ [FetchNext]_fetchVars => LinkedInv(S)'
    BY StaysLinked DEF WorkInv
<1>3. LinkedInv(S) => \A d \in PagesCollected : d.file \in S  BY DEF LinkedInv
<1>. QED  BY <1>1, <1>2, <1>3, WorkStarts, WorkKeeps, PTL DEF FetchSpec
=============================================================================

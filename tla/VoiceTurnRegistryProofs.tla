------------------------ MODULE VoiceTurnRegistryProofs ------------------------
(***************************************************************************)
(* Theorems about VoiceTurnRegistry, for any number of connections,        *)
(* requests, ids and questions.                                            *)
(***************************************************************************)
EXTENDS VoiceTurnRegistry, TLAPS

USE DEF session

---------------------------------------------------------------------------
(* Type correctness *)

\* What the steps make of a connection.
LEMMA ConnectionUpdates ==
    \A k \in Connection :
        /\ \A q \in 0..Last :
              /\ [k EXCEPT !.at = "opened", !.held = TRUE, !.question = q] \in Connection
              /\ [k EXCEPT !.at = "attaching", !.held = TRUE, !.question = q, !.next = None]
                     \in Connection
        /\ \A r \in Revision : [k EXCEPT !.at = "submitting", !.revision = r] \in Connection
        /\ \A n \in 0..Finished, b \in BOOLEAN :
              [k EXCEPT !.at = "submitted", !.next = n, !.revision = 0, !.moved = b]
                  \in Connection
        /\ [k EXCEPT !.at = "failed", !.revision = 0] \in Connection
        /\ [k EXCEPT !.at = "serving", !.next = None] \in Connection
        /\ [k EXCEPT !.at = "serving"] \in Connection
        /\ [k EXCEPT !.linked = FALSE] \in Connection
        /\ \A a \in {"telling", "serving"} :
              [k EXCEPT !.serves = FALSE, !.at = a] \in Connection
<1>1. 0 \in 0..Finished  BY RegistryAssumption DEF Finished
<1>2. \A k \in Connection :
         /\ \A a \in {"off", "read", "opened", "serving", "submitting", "submitted",
                      "failed", "telling", "attaching"} : [k EXCEPT !.at = a] \in Connection
         /\ \A b \in BOOLEAN : /\ [k EXCEPT !.held = b] \in Connection
                               /\ [k EXCEPT !.serves = b] \in Connection
                               /\ [k EXCEPT !.moved = b] \in Connection
                               /\ [k EXCEPT !.linked = b] \in Connection
         /\ \A q \in 0..Last : [k EXCEPT !.question = q] \in Connection
         /\ \A r \in {0} \cup Revision : [k EXCEPT !.revision = r] \in Connection
         /\ \A n \in 0..Finished : [k EXCEPT !.next = n] \in Connection
    BY DEF Connection
<1>. QED  BY <1>1, <1>2 DEF None

\* One connection goes on.
LEMMA OneGoesOn ==
    ASSUME NEW f \in [Conn -> Connection], NEW c \in Conn, NEW k \in Connection
    PROVE  [f EXCEPT ![c] = k] \in [Conn -> Connection]
OBVIOUS

LEMMA OffIsConnection == Off \in Connection
BY RegistryAssumption DEF Off, Connection, None, Finished

\* What the registry does to all connections leaves them connections.
LEMMA AllConnections ==
    ASSUME TypeOK
    PROVE  /\ LetGo \in [Conn -> Connection]
           /\ \A n : Moved(conn, n) \in [Conn -> Connection]
           /\ \A c \in Conn : [conn EXCEPT ![c] = Off] \in [Conn -> Connection]
<1>1. \A c \in Conn : StillServes(c) \in BOOLEAN
    BY DEF StillServes, TypeOK, Connection
<1>2. LetGo \in [Conn -> Connection]
    <2>1. \A c \in Conn : conn[c] \in Connection  BY DEF TypeOK
    <2>2. \A c \in Conn : [conn[c] EXCEPT !.held = FALSE, !.serves = StillServes(c)]
                              \in Connection
        BY <1>1, <2>1 DEF Connection
    <2>. QED  BY <2>2 DEF LetGo
<1>3. ASSUME NEW n PROVE Moved(conn, n) \in [Conn -> Connection]
    <2>1. \A c \in Conn : conn[c] \in Connection /\ conn[c].moved \in BOOLEAN
        BY DEF TypeOK, Connection
    <2>2. \A c \in Conn : [conn[c] EXCEPT !.moved = @ \/ n # current] \in Connection
        BY <2>1 DEF Connection
    <2>. QED  BY <2>2 DEF Moved
<1>. QED  BY <1>2, <1>3, OffIsConnection DEF TypeOK

\* What the session makes of an answer, and of one it raises on.
LEMMA SubmitEventTypes ==
    ASSUME TypeOK, NEW id, NEW given \in 0..Last
    PROVE  /\ \A n \in 1..Finished :
                  SubmitEvent(id, given, n) =>
                      /\ current' \in 1..Finished
                      /\ processed' \in [EventId -> 0..Finished]
                      /\ halfRun' \in {"no", "answer", "other"}
                      /\ accounted' \subseteq 0..Last
           /\ SubmitEventRaises(id, given) =>
                  /\ UNCHANGED <<current, processed>>
                  /\ halfRun' \in {"no", "answer", "other"}
                  /\ accounted' \subseteq 0..Last
<1>1. ASSUME NEW n \in 1..Finished, SubmitEvent(id, given, n)
      PROVE  /\ current' \in 1..Finished
             /\ processed' \in [EventId -> 0..Finished]
             /\ halfRun' \in {"no", "answer", "other"}
             /\ accounted' \subseteq 0..Last
    <2>1. CASE UNCHANGED session
        BY <2>1 DEF TypeOK
    <2>2. CASE ~UNCHANGED session
        <3>1. /\ Judges(given, n) \/ RefusesOrObeys(n) \/ Resumes(n)
              /\ current' = n /\ halfRun' = "no" /\ processed' = [processed EXCEPT ![id] = n]
            BY <1>1, <2>2 DEF SubmitEvent
        <3>2. n \in 0..Finished /\ current..(n - 1) \subseteq 0..Last
            BY RegistryAssumption DEF Finished, TypeOK
        <3>3. accounted' \subseteq 0..Last
            BY <3>1, <3>2 DEF Judges, RefusesOrObeys, Resumes, TypeOK
        <3>4. processed' \in [EventId -> 0..Finished]  BY <3>1, <3>2 DEF TypeOK
        <3>. QED  BY <3>1, <3>3, <3>4
    <2>. QED  BY <2>1, <2>2
<1>2. ASSUME SubmitEventRaises(id, given)
      PROVE  /\ UNCHANGED <<current, processed>>
             /\ halfRun' \in {"no", "answer", "other"}
             /\ accounted' \subseteq 0..Last
    BY <1>2 DEF SubmitEventRaises, TypeOK
<1>. QED  BY <1>1, <1>2

\* The first state has the types.
LEMMA TypeInit ==
    Init => TypeOK
<1>. SUFFICES ASSUME Init PROVE TypeOK  OBVIOUS
<1>1. 1 \in 1..Finished /\ 0 \in 0..Finished /\ 0 \in 0..Last
    BY RegistryAssumption DEF Finished
<1>2. NoEntry \in Entry  BY <1>1 DEF NoEntry, Entry, None
<1>3. NoRequest \in Requests  BY <1>1 DEF NoRequest, Requests, None
<1>. QED  BY <1>1, <1>2, <1>3, OffIsConnection DEF Init, TypeOK, None

\* Every step keeps the types.
LEMMA TypeNext ==
    ASSUME TypeOK, [Next]_vars
    PROVE  TypeOK'
<1>0. /\ Last \in Nat /\ Finished = Last + 1 /\ None = 0
      /\ 1..Last \subseteq 0..Last /\ 0 \in 0..Last /\ 0 \in 0..Finished
      /\ 1..Finished \subseteq 0..Finished
      /\ \A n \in 0..Finished : n # Finished => n \in 0..Last
    BY RegistryAssumption DEF Finished, None
<1>1. \A c \in Conn : /\ conn[c] \in Connection /\ conn[c].question \in 0..Last
                      /\ conn[c].next \in 0..Finished
    BY DEF TypeOK, Connection
<1>2. /\ NoEntry \in Entry /\ \A q \in 0..Last : NewEntry(q) \in Entry
      /\ entry \in Entry /\ entry.question \in 0..Last
      /\ \A s \in {"open", "committing", "committed"} : [entry EXCEPT !.state = s] \in Entry
      /\ \A e \in Entry : [e EXCEPT !.worker = NoConn] \in Entry
      /\ \A c \in Conn : [entry EXCEPT !.worker = c] \in Entry
    BY <1>0 DEF NoEntry, NewEntry, Entry, TypeOK
<1>3. CASE OtherEvent
    <2>1. current' \in 1..Finished
        BY <1>3, <1>0 DEF OtherEvent, TypeOK
    <2>2. \A n \in 1..Finished : current..(n - 1) \subseteq 0..Last
        BY RegistryAssumption DEF Finished, TypeOK
    <2>3. accounted' \subseteq 0..Last
        BY <1>3, <2>1, <2>2 DEF OtherEvent, Resumes, TypeOK
    <2>. QED  BY <1>3, <2>1, <2>3, AllConnections DEF OtherEvent, TypeOK
<1>4. CASE \E c \in Conn : Read(c)
    <2>1. PICK c \in Conn : Read(c)  BY <1>4
    <2>. DEFINE k == [Off EXCEPT !.at = "read", !.linked = TRUE, !.question = current]
    <2>2. k \in Connection
        <3>1. current \in 0..Last  BY <2>1, <1>0 DEF Read, TypeOK
        <3>. QED  BY <3>1, OffIsConnection DEF Connection
    <2>. QED  BY <2>1, <2>2 DEF Read, TypeOK
<1>5. CASE \E c \in Conn : OpenTurn(c)
    <2>1. PICK c \in Conn : OpenTurn(c)  BY <1>5
    <2>2. entry' \in Entry
        BY <2>1, <1>1, <1>2 DEF OpenTurn
    <2>3. \E f \in [Conn -> Connection] :
              conn' = [f EXCEPT ![c] = [@ EXCEPT !.at = "opened", !.held = TRUE,
                                                 !.question = entry'.question]]
        <3>1. LetGo \in [Conn -> Connection] /\ conn \in [Conn -> Connection]
            BY AllConnections DEF TypeOK
        <3>. QED  BY <2>1, <3>1 DEF OpenTurn
    <2>4. entry'.question \in 0..Last  BY <2>2 DEF Entry
    <2>5. conn' \in [Conn -> Connection]
        <3>1. PICK f \in [Conn -> Connection] :
                  conn' = [f EXCEPT ![c] = [@ EXCEPT !.at = "opened", !.held = TRUE,
                                                     !.question = entry'.question]]
            BY <2>3
        <3>2. [f[c] EXCEPT !.at = "opened", !.held = TRUE, !.question = entry'.question]
                  \in Connection
            BY <2>4, ConnectionUpdates
        <3>. QED  BY <3>1, <3>2, OneGoesOn
    <2>. QED  BY <2>1, <2>2, <2>5 DEF OpenTurn, TypeOK
<1>6. ASSUME NEW c \in Conn, AttachWorker(c)
      PROVE  entry' \in Entry /\ conn' \in [Conn -> Connection]
    <2>1. entry' \in Entry  BY <1>6, <1>2 DEF AttachWorker
    <2>. DEFINE g(d) == IF d = c THEN [conn[c] EXCEPT !.at = "serving", !.serves = TRUE]
                        ELSE [conn[d] EXCEPT !.serves = @ /\ entry.worker # d]
    <2>2. ASSUME NEW d \in Conn PROVE g(d) \in Connection
        <3>1. CASE d = c  BY <1>1, <3>1 DEF Connection
        <3>2. CASE d # c
            <4>1. conn[d] \in Connection /\ (conn[d].serves /\ entry.worker # d) \in BOOLEAN
                BY <1>1
            <4>. QED  BY <3>2, <4>1 DEF Connection
        <3>. QED  BY <3>1, <3>2
    <2>. QED  BY <1>6, <2>1, <2>2 DEF AttachWorker
<1>7. ASSUME NEW c \in Conn, Leave(c)
      PROVE  entry' \in Entry /\ conn' \in [Conn -> Connection]
    BY <1>7, <1>2, AllConnections DEF Leave
<1>8. CASE \E c \in Conn : Attach(c)
    BY <1>8, <1>6, <1>7 DEF Attach, TypeOK
<1>9. CASE \E c \in Conn, r \in Revision : BeginCommit(c, r)
    <2>1. PICK c \in Conn, r \in Revision : BeginCommit(c, r)  BY <1>9
    <2>2. conn' \in [Conn -> Connection]
        BY <2>1, <1>1, ConnectionUpdates, OneGoesOn DEF BeginCommit, TypeOK
    <2>. QED  BY <2>1, <2>2, <1>2 DEF BeginCommit, TypeOK
<1>10. CASE \E c \in Conn : Submit(c)
    <2>1. PICK c \in Conn : Submit(c)  BY <1>10
    <2>2. PICK n \in 1..Finished :
              /\ SubmitEvent(<<conn[c].question, conn[c].revision>>, conn[c].question, n)
              /\ conn' = [Moved(conn, current') EXCEPT
                     ![c] = [@ EXCEPT !.at = "submitted", !.next = n, !.revision = 0,
                                      !.moved = n # current']]
        BY <2>1 DEF Submit
    <2>3. Moved(conn, current') \in [Conn -> Connection]  BY AllConnections
    <2>4. conn' \in [Conn -> Connection]
        <3>. DEFINE f == Moved(conn, current')
                    b == n # current'
        <3>1. b \in BOOLEAN /\ n \in 0..Finished /\ f[c] \in Connection  BY <2>3, <1>0
        <3>2. conn' = [f EXCEPT ![c] = [f[c] EXCEPT !.at = "submitted", !.next = n,
                                                    !.revision = 0, !.moved = b]]
            BY <2>2
        <3>. HIDE DEF f, b
        <3>3. [f[c] EXCEPT !.at = "submitted", !.next = n, !.revision = 0, !.moved = b]
                  \in Connection
            BY <3>1, ConnectionUpdates
        <3>. QED  BY <2>3, <3>2, <3>3, OneGoesOn DEF f
    <2>. QED  BY <2>1, <2>2, <2>4, <1>1, SubmitEventTypes DEF Submit, TypeOK
<1>11. CASE \E c \in Conn : SubmitRaises(c)
    <2>1. PICK c \in Conn : SubmitRaises(c)  BY <1>11
    <2>2. conn' \in [Conn -> Connection]
        BY <2>1, <1>1, ConnectionUpdates, OneGoesOn DEF SubmitRaises, TypeOK
    <2>. QED  BY <2>1, <2>2, <1>1, SubmitEventTypes DEF SubmitRaises, TypeOK
<1>12. CASE \E c \in Conn : Abort(c)
    <2>1. PICK c \in Conn : Abort(c)  BY <1>12
    <2>2. entry' \in Entry  BY <2>1, <1>2 DEF Abort
    <2>3. conn' \in [Conn -> Connection]
        <3>1. CASE conn[c].linked
            <4>1. conn' = [conn EXCEPT ![c] = [conn[c] EXCEPT !.at = "serving"]]
                BY <2>1, <3>1 DEF Abort, Becomes
            <4>2. [conn[c] EXCEPT !.at = "serving"] \in Connection
                BY <1>1, ConnectionUpdates
            <4>. QED  BY <4>1, <4>2, OneGoesOn DEF TypeOK
        <3>2. CASE ~conn[c].linked
            BY <2>1, <3>2, AllConnections DEF Abort
        <3>. QED  BY <3>1, <3>2
    <2>. QED  BY <2>1, <2>2, <2>3 DEF Abort, TypeOK
<1>13. CASE \E c \in Conn : Mark(c)
    <2>1. PICK c \in Conn : Mark(c)  BY <1>13
    <2>2. entry' \in Entry  BY <2>1, <1>2 DEF Mark
    <2>3. conn' \in [Conn -> Connection]
        <3>1. CASE conn[c].linked
            <4>. DEFINE a == IF entry.worker = c THEN "telling" ELSE "serving"
            <4>1. a \in {"telling", "serving"}
                  /\ conn' = [conn EXCEPT ![c] = [conn[c] EXCEPT !.serves = FALSE, !.at = a]]
                BY <2>1, <3>1 DEF Mark
            <4>. HIDE DEF a
            <4>2. [conn[c] EXCEPT !.serves = FALSE, !.at = a] \in Connection
                BY <4>1, <1>1, ConnectionUpdates
            <4>. QED  BY <4>1, <4>2, OneGoesOn DEF TypeOK
        <3>2. CASE ~conn[c].linked
            BY <2>1, <3>2, AllConnections DEF Mark
        <3>. QED  BY <3>1, <3>2
    <2>. QED  BY <2>1, <2>2, <2>3 DEF Mark, TypeOK
<1>14. CASE \E c \in Conn : Told(c)
    <2>1. PICK c \in Conn : Told(c)  BY <1>14
    <2>2. LetGo \in [Conn -> Connection]  BY AllConnections
    <2>3. CASE conn[c].next = Finished
        BY <2>1, <2>2, <2>3, <1>2, OffIsConnection DEF Told, TypeOK
    <2>4. CASE conn[c].next # Finished
        <3>1. conn[c].next \in 0..Last  BY <2>4, <1>0, <1>1
        <3>2. conn' = [LetGo EXCEPT ![c] = [@ EXCEPT !.at = "attaching", !.held = TRUE,
                                                !.question = conn[c].next, !.next = None]]
            BY <2>1, <2>4 DEF Told
        <3>3. conn' \in [Conn -> Connection]
            BY <2>2, <3>1, <3>2, ConnectionUpdates, OneGoesOn
        <3>. QED  BY <2>1, <2>4, <3>1, <3>3, <1>2 DEF Told, TypeOK
    <2>. QED  BY <2>3, <2>4
<1>15. CASE \E c \in Conn : TellFails(c)
    <2>1. PICK c \in Conn : TellFails(c)  BY <1>15
    <2>2. conn' \in [Conn -> Connection]
        BY <2>1, <1>1, ConnectionUpdates, OneGoesOn DEF TellFails, TypeOK
    <2>. QED  BY <2>1, <2>2 DEF TellFails, TypeOK
<1>16. CASE \E c \in Conn : AttachNext(c)
    <2>1. PICK c \in Conn : AttachNext(c)  BY <1>16
    <2>2. CASE conn[c].held
        BY <2>1, <2>2, <1>6 DEF AttachNext, TypeOK
    <2>3. CASE ~conn[c].held
        <3>1. conn' = [conn EXCEPT ![c].at = "serving"]
            BY <2>1, <2>3 DEF AttachNext, Becomes
        <3>2. conn' \in [Conn -> Connection]  BY <3>1 DEF TypeOK, Connection
        <3>. QED  BY <2>1, <2>3, <3>2 DEF AttachNext, TypeOK
    <2>. QED  BY <2>2, <2>3
<1>17. CASE \E c \in Conn : Disconnect(c)
    <2>1. PICK c \in Conn : Disconnect(c)  BY <1>17
    <2>2. CASE WaitsForCommit(c)
        <3>1. conn' = [conn EXCEPT ![c].linked = FALSE]  BY <2>1, <2>2 DEF Disconnect
        <3>2. conn' \in [Conn -> Connection]  BY <3>1 DEF TypeOK, Connection
        <3>. QED  BY <2>1, <2>2, <3>2 DEF Disconnect, TypeOK
    <2>3. CASE ~WaitsForCommit(c)
        BY <2>1, <2>3, <1>7 DEF Disconnect, TypeOK
    <2>. QED  BY <2>2, <2>3
<1>18. CASE \E h \in Request, id \in ManualId : Ask(h, id)
    <2>1. PICK h \in Request, id \in ManualId : Ask(h, id)  BY <1>18
    <2>. DEFINE k == [NoRequest EXCEPT !.at = "read", !.question = current, !.id = id]
    <2>2. k \in Requests
        <3>1. current \in 0..Last  BY <2>1, <1>0 DEF Ask, TypeOK
        <3>. QED  BY <3>1, <1>0 DEF NoRequest, Requests
    <2>. QED  BY <2>1, <2>2 DEF Ask, TypeOK
<1>19. CASE \E h \in Request : SubmitManual(h)
    <2>1. PICK h \in Request : SubmitManual(h)  BY <1>19
    <2>2. PICK n \in 1..Finished :
              /\ SubmitEvent(req[h].id, req[h].question, n)
              /\ conn' = Moved(conn, current')
              /\ req' = [req EXCEPT ![h] = [@ EXCEPT !.at = "answered", !.next = n,
                                   !.id = <<>>, !.advanced = current' # current]]
        BY <2>1 DEF SubmitManual
    <2>3. req[h].question \in 0..Last  BY DEF TypeOK, Requests
    <2>4. req' \in [Request -> Requests]
        <3>. DEFINE b == current' # current
                    k == [req[h] EXCEPT !.at = "answered", !.next = n, !.id = <<>>,
                                        !.advanced = b]
        <3>1. b \in BOOLEAN /\ n \in 0..Finished /\ req[h] \in Requests
            BY <1>0 DEF TypeOK
        <3>2. req' = [req EXCEPT ![h] = k]  BY <2>2
        <3>. HIDE DEF b
        <3>3. k \in Requests  BY <3>1 DEF Requests
        <3>. QED  BY <3>2, <3>3 DEF TypeOK
    <2>. QED  BY <2>1, <2>2, <2>3, <2>4, AllConnections, SubmitEventTypes
              DEF SubmitManual, TypeOK
<1>20. CASE \E h \in Request : SubmitManualRaises(h)
    <2>1. PICK h \in Request : SubmitManualRaises(h)  BY <1>20
    <2>2. req[h].question \in 0..Last  BY DEF TypeOK, Requests
    <2>3. NoRequest \in Requests  BY <1>0 DEF NoRequest, Requests
    <2>. QED  BY <2>1, <2>2, <2>3, SubmitEventTypes DEF SubmitManualRaises, TypeOK
<1>21. CASE OtherEventRaises
    BY <1>21 DEF OtherEventRaises, TypeOK
<1>22. CASE \E h \in Request : Sync(h)
    <2>1. PICK h \in Request : Sync(h)  BY <1>22
    <2>2. req[h].next \in 0..Finished  BY DEF TypeOK, Requests
    <2>3. NoRequest \in Requests  BY <1>0 DEF NoRequest, Requests
    <2>4. \/ UNCHANGED <<entry, conn>>
          \/ conn' = LetGo /\ entry' = NoEntry
          \/ conn' = LetGo /\ entry' = NewEntry(req[h].next) /\ req[h].next # Finished
        BY <2>1 DEF Sync
    <2>5. entry' \in Entry /\ conn' \in [Conn -> Connection]
        BY <2>2, <2>4, <1>0, <1>2, AllConnections DEF TypeOK
    <2>. QED  BY <2>1, <2>3, <2>5 DEF Sync, TypeOK
<1>23. CASE UNCHANGED vars
    BY <1>23 DEF vars, TypeOK
<1>. QED
    BY <1>3, <1>4, <1>5, <1>8, <1>9, <1>10, <1>11, <1>12, <1>13, <1>14, <1>15,
       <1>16, <1>17, <1>18, <1>19, <1>20, <1>21, <1>22, <1>23
    DEF Next, Proceeds, Handles

\* The variables of connections, requests, registry and session keep their types.
THEOREM TypeCorrect == Spec => []TypeOK
BY TypeInit, TypeNext, PTL DEF Spec

---------------------------------------------------------------------------
(* One listener, and what it is served *)

\* A connection that is to be served, or is, knows the question that is asked, until
\* the interview goes on; one whose answer was taken has it as the result.
KnowsCurrent(c) ==
    ~conn[c].moved =>
        /\ \/ conn[c].at \in {"read", "opened", "attaching"}
           \/ conn[c].serves /\ conn[c].at # "submitted"
           => conn[c].question = current
        /\ conn[c].at \in {"submitted", "telling"} => conn[c].next = current

Listens(c) == conn[c].serves => entry.worker = c /\ conn[c].held

ServedInv == \A c \in Conn : Listens(c) /\ KnowsCurrent(c)

\* A connection whose turn the registry let go of is not served.
LEMMA LetGoServesNobody ==
    ASSUME TypeOK, ServedInv
    PROVE  \A c \in Conn :
              /\ LetGo[c].serves = FALSE /\ LetGo[c].moved = conn[c].moved
              /\ LetGo[c].at = conn[c].at /\ LetGo[c].question = conn[c].question
              /\ LetGo[c].next = conn[c].next
<1>. SUFFICES ASSUME NEW c \in Conn
              PROVE  /\ LetGo[c].serves = FALSE /\ LetGo[c].moved = conn[c].moved
                     /\ LetGo[c].at = conn[c].at /\ LetGo[c].question = conn[c].question
                     /\ LetGo[c].next = conn[c].next
    OBVIOUS
<1>1. conn[c] \in Connection  BY DEF TypeOK
<1>2. StillServes(c) = FALSE
    BY <1>1 DEF StillServes, ServedInv, Listens, Connection
<1>. QED  BY <1>1, <1>2 DEF LetGo, Connection

\* What a step does to the connection it is not about.
LEMMA OthersStay ==
    ASSUME NEW c \in Conn, Listens(c) /\ KnowsCurrent(c), UNCHANGED current,
           conn'[c] = conn[c],
           entry'.worker = entry.worker \/ ~conn[c].serves
    PROVE  Listens(c)' /\ KnowsCurrent(c)'
BY DEF Listens, KnowsCurrent

\* One that is off is not served.
LEMMA OffIsFine ==
    ASSUME NEW c \in Conn, conn'[c] = Off
    PROVE  Listens(c)' /\ KnowsCurrent(c)'
BY DEF Listens, KnowsCurrent, Off

\* One whose turn was let go of keeps what it knows.
LEMMA LetGoKeeps ==
    ASSUME TypeOK, ServedInv, NEW c \in Conn, conn'[c] = LetGo[c], UNCHANGED current
    PROVE  Listens(c)' /\ KnowsCurrent(c)'
BY LetGoServesNobody DEF ServedInv, Listens, KnowsCurrent

\* One that learns that the interview went on keeps its worker.
LEMMA MovedKeeps ==
    ASSUME TypeOK, ServedInv, NEW c \in Conn, conn'[c] = Moved(conn, current')[c],
           UNCHANGED entry
    PROVE  Listens(c)' /\ KnowsCurrent(c)'
<1>1. conn[c] \in Connection  BY DEF TypeOK
<1>2. conn'[c] = [conn[c] EXCEPT !.moved = conn[c].moved \/ current' # current]
    BY DEF Moved
<1>3. /\ conn'[c].moved = (conn[c].moved \/ current' # current)
      /\ conn'[c].at = conn[c].at /\ conn'[c].serves = conn[c].serves
      /\ conn'[c].held = conn[c].held /\ conn'[c].question = conn[c].question
      /\ conn'[c].next = conn[c].next
    BY <1>1, <1>2 DEF Connection
<1>. QED  BY <1>3 DEF ServedInv, Listens, KnowsCurrent

\* A worker that is attached closes the one attached before.
LEMMA AttachKeeps ==
    ASSUME TypeOK, ServedInv, NEW c \in Conn, AttachWorker(c), UNCHANGED current,
           conn[c].held, conn[c].at \in {"opened", "attaching"}
    PROVE  ServedInv'
<1>. SUFFICES ASSUME NEW d \in Conn PROVE Listens(d)' /\ KnowsCurrent(d)'
    BY DEF ServedInv
<1>0. conn[d] \in Connection /\ conn[c] \in Connection /\ entry \in Entry  BY DEF TypeOK
<1>1. entry'.worker = c  BY <1>0 DEF AttachWorker, Entry
<1>2. CASE d = c
    <2>1. conn'[c] = [conn[c] EXCEPT !.at = "serving", !.serves = TRUE]
        BY DEF AttachWorker
    <2>2. /\ conn'[c].at = "serving" /\ conn'[c].held = conn[c].held
          /\ conn'[c].question = conn[c].question /\ conn'[c].moved = conn[c].moved
        BY <2>1, <1>0 DEF Connection
    <2>. QED  BY <1>1, <1>2, <2>2 DEF ServedInv, Listens, KnowsCurrent
<1>3. CASE d # c
    <2>1. conn'[d] = [conn[d] EXCEPT !.serves = conn[d].serves /\ entry.worker # d]
        BY <1>3 DEF AttachWorker
    <2>2. /\ conn'[d].serves = FALSE /\ conn'[d].at = conn[d].at
          /\ conn'[d].question = conn[d].question /\ conn'[d].moved = conn[d].moved
          /\ conn'[d].next = conn[d].next
        BY <2>1, <1>0 DEF Connection, ServedInv, Listens
    <2>. QED  BY <2>2 DEF ServedInv, Listens, KnowsCurrent
<1>. QED  BY <1>2, <1>3

\* A connection that leaves takes its worker along.
LEMMA LeaveKeeps ==
    ASSUME TypeOK, ServedInv, NEW c \in Conn, conn' = [conn EXCEPT ![c] = Off],
           UNCHANGED current, entry'.worker = entry.worker \/ entry.worker = c
    PROVE  ServedInv'
<1>. SUFFICES ASSUME NEW d \in Conn PROVE Listens(d)' /\ KnowsCurrent(d)'
    BY DEF ServedInv
<1>1. CASE d = c
    <2>1. conn'[d] = Off  BY <1>1 DEF TypeOK
    <2>. QED  BY <2>1, OffIsFine
<1>2. CASE d # c
    <2>1. conn'[d] = conn[d]  BY <1>2 DEF TypeOK
    <2>2. entry'.worker = entry.worker \/ ~conn[d].serves
        BY <1>2 DEF ServedInv, Listens
    <2>. QED  BY <2>1, <2>2, OthersStay DEF ServedInv
<1>. QED  BY <1>1, <1>2

\* A step that is about one connection alone.
LEMMA OneMoves ==
    ASSUME TypeOK, ServedInv, NEW c \in Conn, NEW k,
           conn' = [conn EXCEPT ![c] = k], UNCHANGED current,
           entry'.worker = entry.worker, Listens(c)' /\ KnowsCurrent(c)'
    PROVE  ServedInv'
<1>. SUFFICES ASSUME NEW d \in Conn, d # c PROVE Listens(d)' /\ KnowsCurrent(d)'
    BY DEF ServedInv
<1>1. conn'[d] = conn[d]  BY DEF TypeOK
<1>. QED  BY <1>1, OthersStay DEF ServedInv

\* At the start nobody is served.
LEMMA ServedInit ==
    Init => ServedInv
<1>. SUFFICES ASSUME Init, NEW c \in Conn PROVE Listens(c) /\ KnowsCurrent(c)
    BY DEF ServedInv
<1>1. conn[c] = Off  BY DEF Init
<1>2. Off.at = "off" /\ Off.serves = FALSE  BY DEF Off
<1>. QED  BY <1>1, <1>2 DEF Listens, KnowsCurrent

\* Every step keeps it.
LEMMA ServedNext ==
    ASSUME TypeOK, ServedInv, [Next]_vars
    PROVE  ServedInv'
<1>0. /\ \A c \in Conn : conn[c] \in Connection /\ Listens(c) /\ KnowsCurrent(c)
      /\ entry \in Entry /\ DOMAIN conn = Conn
    BY DEF TypeOK, ServedInv
<1>1. CASE OtherEvent
    BY <1>1, MovedKeeps DEF OtherEvent, ServedInv
<1>2. CASE \E c \in Conn : Read(c)
    <2>1. PICK c \in Conn : Read(c)  BY <1>2
    <2>. DEFINE k == [Off EXCEPT !.at = "read", !.linked = TRUE, !.question = current]
    <2>2. /\ conn' = [conn EXCEPT ![c] = k] /\ UNCHANGED <<current, entry>>
        BY <2>1 DEF Read
    <2>3. k.at = "read" /\ k.serves = FALSE /\ k.question = current  BY DEF Off
    <2>. HIDE DEF k
    <2>4. conn'[c] = k  BY <2>2, <1>0
    <2>5. Listens(c)' /\ KnowsCurrent(c)'
        BY <2>2, <2>3, <2>4 DEF Listens, KnowsCurrent
    <2>. QED  BY <2>2, <2>5, OneMoves
<1>3. CASE \E c \in Conn : OpenTurn(c)
    <2>1. PICK c \in Conn : OpenTurn(c)  BY <1>3
    <2>2. conn[c].at = "read" /\ UNCHANGED current  BY <2>1 DEF OpenTurn
    <2>3. CASE Reopens(conn[c].question)
        <3>. DEFINE k == [conn[c] EXCEPT !.at = "opened", !.held = TRUE,
                                         !.question = entry'.question]
        <3>1. UNCHANGED entry /\ conn' = [conn EXCEPT ![c] = k]
            BY <2>1, <2>3 DEF OpenTurn
        <3>2. /\ k.at = "opened" /\ k.held = TRUE /\ k.question = conn[c].question
              /\ k.serves = conn[c].serves /\ k.moved = conn[c].moved
            BY <2>3, <3>1, <1>0 DEF Reopens, Connection
        <3>. HIDE DEF k
        <3>3. conn'[c] = k  BY <3>1, <1>0
        <3>4. Listens(c)' /\ KnowsCurrent(c)'
            BY <1>0, <2>2, <3>1, <3>2, <3>3 DEF Listens, KnowsCurrent
        <3>. QED  BY <2>2, <3>1, <3>4, OneMoves
    <2>4. CASE ~Reopens(conn[c].question)
        <3>. DEFINE k == [LetGo[c] EXCEPT !.at = "opened", !.held = TRUE,
                                          !.question = entry'.question]
        <3>1. entry' = NewEntry(conn[c].question) /\ conn' = [LetGo EXCEPT ![c] = k]
            BY <2>1, <2>4 DEF OpenTurn
        <3>2. LetGo \in [Conn -> Connection]  BY AllConnections
        <3>3. /\ k.at = "opened" /\ k.question = conn[c].question
              /\ k.serves = FALSE /\ k.moved = conn[c].moved
            BY <3>1, <3>2, LetGoServesNobody DEF NewEntry, Connection
        <3>. HIDE DEF k
        <3>4. conn'[c] = k /\ \A d \in Conn : d # c => conn'[d] = LetGo[d]
            BY <3>1, <3>2
        <3>5. Listens(c)' /\ KnowsCurrent(c)'
            BY <1>0, <2>2, <3>3, <3>4 DEF Listens, KnowsCurrent
        <3>. QED  BY <2>2, <3>4, <3>5, LetGoKeeps DEF ServedInv
    <2>. QED  BY <2>3, <2>4
<1>4. CASE \E c \in Conn : Attach(c)
    <2>1. PICK c \in Conn : Attach(c)  BY <1>4
    <2>2. CASE conn[c].held /\ entry.state # "committing"
        BY <2>1, <2>2, AttachKeeps DEF Attach
    <2>3. CASE ~(conn[c].held /\ entry.state # "committing")
        BY <2>1, <2>3, LeaveKeeps DEF Attach, Leave
    <2>. QED  BY <2>2, <2>3
<1>5. CASE \E c \in Conn, r \in Revision : BeginCommit(c, r)
    <2>1. PICK c \in Conn, r \in Revision : BeginCommit(c, r)  BY <1>5
    <2>. DEFINE k == [conn[c] EXCEPT !.at = "submitting", !.revision = r]
    <2>2. /\ conn' = [conn EXCEPT ![c] = k] /\ UNCHANGED current
          /\ entry' = [entry EXCEPT !.state = "committing"] /\ conn[c].at = "serving"
        BY <2>1 DEF BeginCommit
    <2>3. /\ k.at = "submitting" /\ k.serves = conn[c].serves /\ k.held = conn[c].held
          /\ k.question = conn[c].question /\ k.moved = conn[c].moved
        BY <1>0 DEF Connection
    <2>4. entry'.worker = entry.worker  BY <2>2, <1>0 DEF Entry
    <2>. HIDE DEF k
    <2>5. conn'[c] = k  BY <2>2, <1>0
    <2>6. Listens(c)' /\ KnowsCurrent(c)'
        BY <1>0, <2>2, <2>3, <2>4, <2>5 DEF Listens, KnowsCurrent
    <2>. QED  BY <2>2, <2>4, <2>6, OneMoves
<1>6. CASE \E c \in Conn : Submit(c)
    <2>1. PICK c \in Conn : Submit(c)  BY <1>6
    <2>. DEFINE f == Moved(conn, current')
    <2>2. PICK n \in 1..Finished :
              conn' = [f EXCEPT ![c] = [f[c] EXCEPT !.at = "submitted", !.next = n,
                                              !.revision = 0, !.moved = n # current']]
        BY <2>1 DEF Submit
    <2>3. f \in [Conn -> Connection]  BY AllConnections
    <2>4. f[c].serves = conn[c].serves /\ f[c].held = conn[c].held
        BY <1>0 DEF Moved, Connection
    <2>5. UNCHANGED entry  BY <2>1 DEF Submit
    <2>. HIDE DEF f
    <2>. DEFINE k == [f[c] EXCEPT !.at = "submitted", !.next = n, !.revision = 0,
                                  !.moved = n # current']
    <2>6. /\ k.at = "submitted" /\ k.next = n /\ k.moved = (n # current')
          /\ k.serves = conn[c].serves /\ k.held = conn[c].held
        BY <2>3, <2>4 DEF Connection
    <2>7. conn' = [f EXCEPT ![c] = k]  BY <2>2
    <2>. HIDE DEF k
    <2>8. conn'[c] = k /\ \A d \in Conn : d # c => conn'[d] = f[d]
        BY <2>3, <2>7
    <2>9. Listens(c)' /\ KnowsCurrent(c)'
        BY <1>0, <2>5, <2>6, <2>8 DEF Listens, KnowsCurrent
    <2>. QED  BY <2>5, <2>8, <2>9, MovedKeeps DEF f, ServedInv
<1>7. CASE \E c \in Conn : SubmitRaises(c)
    <2>1. PICK c \in Conn : SubmitRaises(c)  BY <1>7
    <2>. DEFINE k == [conn[c] EXCEPT !.at = "failed", !.revision = 0]
    <2>2. /\ conn' = [conn EXCEPT ![c] = k] /\ UNCHANGED <<current, entry>>
          /\ conn[c].at = "submitting"
        BY <2>1 DEF SubmitRaises, SubmitEventRaises
    <2>3. /\ k.at = "failed" /\ k.serves = conn[c].serves /\ k.held = conn[c].held
          /\ k.question = conn[c].question /\ k.moved = conn[c].moved
        BY <1>0 DEF Connection
    <2>. HIDE DEF k
    <2>4. conn'[c] = k  BY <2>2, <1>0
    <2>5. Listens(c)' /\ KnowsCurrent(c)'
        BY <1>0, <2>2, <2>3, <2>4 DEF Listens, KnowsCurrent
    <2>. QED  BY <2>2, <2>5, OneMoves
<1>8. CASE \E c \in Conn : Abort(c)
    <2>1. PICK c \in Conn : Abort(c)  BY <1>8
    <2>. DEFINE e == IF conn[c].held THEN [entry EXCEPT !.state = "open"] ELSE entry
    <2>2. e.worker = entry.worker  BY <1>0 DEF Entry
    <2>3. conn[c].at = "failed" /\ UNCHANGED current  BY <2>1 DEF Abort
    <2>4. CASE conn[c].linked
        <3>. DEFINE k == [conn[c] EXCEPT !.at = "serving"]
        <3>1. entry' = e /\ conn' = [conn EXCEPT ![c] = k]  BY <2>1, <2>4 DEF Abort, Becomes
        <3>2. /\ k.at = "serving" /\ k.serves = conn[c].serves /\ k.held = conn[c].held
              /\ k.question = conn[c].question /\ k.moved = conn[c].moved
            BY <1>0 DEF Connection
        <3>. HIDE DEF k, e
        <3>3. conn'[c] = k  BY <3>1, <1>0
        <3>4. Listens(c)' /\ KnowsCurrent(c)'
            BY <1>0, <2>2, <2>3, <3>1, <3>2, <3>3 DEF Listens, KnowsCurrent
        <3>. QED  BY <2>2, <2>3, <3>1, <3>4, OneMoves
    <2>5. CASE ~conn[c].linked
        <3>1. conn' = [conn EXCEPT ![c] = Off]  BY <2>1, <2>5 DEF Abort
        <3>2. entry' = IF e.worker = c THEN [e EXCEPT !.worker = NoConn] ELSE e
            BY <2>1, <2>5 DEF Abort
        <3>3. entry'.worker = entry.worker \/ entry.worker = c
            BY <2>2, <3>2
        <3>. QED  BY <2>3, <3>1, <3>3, LeaveKeeps
    <2>. QED  BY <2>4, <2>5
<1>9. CASE \E c \in Conn : Mark(c)
    <2>1. PICK c \in Conn : Mark(c)  BY <1>9
    <2>. DEFINE e == IF conn[c].held THEN [entry EXCEPT !.state = "committed"] ELSE entry
    <2>2. e.worker = entry.worker  BY <1>0 DEF Entry
    <2>3. conn[c].at = "submitted" /\ UNCHANGED current  BY <2>1 DEF Mark
    <2>4. CASE conn[c].linked
        <3>. DEFINE a == IF entry.worker = c THEN "telling" ELSE "serving"
                    k == [conn[c] EXCEPT !.serves = FALSE, !.at = a]
        <3>1. entry' = e /\ conn' = [conn EXCEPT ![c] = k]  BY <2>1, <2>4 DEF Mark
        <3>2. /\ k.at \in {"telling", "serving"} /\ k.serves = FALSE
              /\ k.next = conn[c].next /\ k.moved = conn[c].moved
            BY <1>0 DEF Connection
        <3>. HIDE DEF k, e
        <3>3. conn'[c] = k  BY <3>1, <1>0
        <3>4. Listens(c)' /\ KnowsCurrent(c)'
            BY <1>0, <2>3, <3>2, <3>3 DEF Listens, KnowsCurrent
        <3>. QED  BY <2>2, <2>3, <3>1, <3>4, OneMoves
    <2>5. CASE ~conn[c].linked
        <3>1. conn' = [conn EXCEPT ![c] = Off]  BY <2>1, <2>5 DEF Mark
        <3>2. entry' = IF e.worker = c THEN [e EXCEPT !.worker = NoConn] ELSE e
            BY <2>1, <2>5 DEF Mark
        <3>3. entry'.worker = entry.worker \/ entry.worker = c
            BY <2>2, <3>2
        <3>. QED  BY <2>3, <3>1, <3>3, LeaveKeeps
    <2>. QED  BY <2>4, <2>5
<1>10. CASE \E c \in Conn : Told(c)
    <2>1. PICK c \in Conn : Told(c)  BY <1>10
    <2>2. LetGo \in [Conn -> Connection]  BY AllConnections
    <2>3. conn[c].at = "telling" /\ UNCHANGED current  BY <2>1 DEF Told
    <2>4. CASE conn[c].next = Finished
        <3>1. conn' = [LetGo EXCEPT ![c] = Off]  BY <2>1, <2>4 DEF Told
        <3>2. conn'[c] = Off /\ \A d \in Conn : d # c => conn'[d] = LetGo[d]
            BY <2>2, <3>1
        <3>. QED  BY <2>3, <3>2, OffIsFine, LetGoKeeps DEF ServedInv
    <2>5. CASE conn[c].next # Finished
        <3>. DEFINE k == [LetGo[c] EXCEPT !.at = "attaching", !.held = TRUE,
                                          !.question = conn[c].next, !.next = None]
        <3>1. conn' = [LetGo EXCEPT ![c] = k]  BY <2>1, <2>5 DEF Told
        <3>2. /\ k.at = "attaching" /\ k.serves = FALSE /\ k.question = conn[c].next
              /\ k.moved = conn[c].moved
            BY <2>2, LetGoServesNobody DEF Connection
        <3>. HIDE DEF k
        <3>3. conn'[c] = k /\ \A d \in Conn : d # c => conn'[d] = LetGo[d]
            BY <2>2, <3>1
        <3>4. Listens(c)' /\ KnowsCurrent(c)'
            BY <1>0, <2>3, <3>2, <3>3 DEF Listens, KnowsCurrent
        <3>. QED  BY <2>3, <3>3, <3>4, LetGoKeeps DEF ServedInv
    <2>. QED  BY <2>4, <2>5
<1>11. CASE \E c \in Conn : TellFails(c)
    <2>1. PICK c \in Conn : TellFails(c)  BY <1>11
    <2>. DEFINE k == [conn[c] EXCEPT !.at = "serving", !.next = None]
    <2>2. /\ conn' = [conn EXCEPT ![c] = k] /\ UNCHANGED <<current, entry>>
          /\ conn[c].at = "telling"
        BY <2>1 DEF TellFails
    <2>3. /\ k.at = "serving" /\ k.serves = conn[c].serves /\ k.held = conn[c].held
          /\ k.question = conn[c].question /\ k.moved = conn[c].moved
        BY <1>0 DEF Connection
    <2>. HIDE DEF k
    <2>4. conn'[c] = k  BY <2>2, <1>0
    <2>5. Listens(c)' /\ KnowsCurrent(c)'
        BY <1>0, <2>2, <2>3, <2>4 DEF Listens, KnowsCurrent
    <2>. QED  BY <2>2, <2>5, OneMoves
<1>12. CASE \E c \in Conn : AttachNext(c)
    <2>1. PICK c \in Conn : AttachNext(c)  BY <1>12
    <2>2. CASE conn[c].held
        BY <2>1, <2>2, AttachKeeps DEF AttachNext
    <2>3. CASE ~conn[c].held
        <3>. DEFINE k == [conn[c] EXCEPT !.at = "serving"]
        <3>1. /\ conn' = [conn EXCEPT ![c] = k] /\ UNCHANGED <<current, entry>>
              /\ conn[c].at = "attaching"
            BY <2>1, <2>3 DEF AttachNext, Becomes
        <3>2. /\ k.at = "serving" /\ k.serves = conn[c].serves /\ k.held = conn[c].held
              /\ k.question = conn[c].question /\ k.moved = conn[c].moved
            BY <1>0 DEF Connection
        <3>. HIDE DEF k
        <3>3. conn'[c] = k  BY <3>1, <1>0
        <3>4. Listens(c)' /\ KnowsCurrent(c)'
            BY <1>0, <3>1, <3>2, <3>3 DEF Listens, KnowsCurrent
        <3>. QED  BY <3>1, <3>4, OneMoves
    <2>. QED  BY <2>2, <2>3
<1>13. CASE \E c \in Conn : Disconnect(c)
    <2>1. PICK c \in Conn : Disconnect(c)  BY <1>13
    <2>2. CASE WaitsForCommit(c)
        <3>. DEFINE k == [conn[c] EXCEPT !.linked = FALSE]
        <3>1. /\ conn' = [conn EXCEPT ![c] = k] /\ UNCHANGED <<current, entry>>
            BY <2>1, <2>2 DEF Disconnect
        <3>2. /\ k.at = conn[c].at /\ k.serves = conn[c].serves /\ k.held = conn[c].held
              /\ k.question = conn[c].question /\ k.moved = conn[c].moved
              /\ k.next = conn[c].next
            BY <1>0 DEF Connection
        <3>. HIDE DEF k
        <3>3. conn'[c] = k  BY <3>1, <1>0
        <3>4. Listens(c)' /\ KnowsCurrent(c)'
            BY <1>0, <3>1, <3>2, <3>3 DEF Listens, KnowsCurrent
        <3>. QED  BY <3>1, <3>4, OneMoves
    <2>3. CASE ~WaitsForCommit(c)
        BY <2>1, <2>3, LeaveKeeps DEF Disconnect, Leave
    <2>. QED  BY <2>2, <2>3
<1>14. CASE \E h \in Request, id \in ManualId : Ask(h, id)
    BY <1>14, <1>0 DEF Ask, ServedInv, Listens, KnowsCurrent
<1>15. CASE \E h \in Request : SubmitManual(h)
    <2>1. conn' = Moved(conn, current') /\ UNCHANGED entry
        BY <1>15 DEF SubmitManual
    <2>. QED  BY <2>1, MovedKeeps DEF ServedInv
<1>16. CASE OtherEventRaises \/ \E h \in Request : SubmitManualRaises(h)
    <2>1. UNCHANGED <<current, entry, conn>>
        BY <1>16 DEF OtherEventRaises, SubmitManualRaises, SubmitEventRaises
    <2>. QED  BY <2>1 DEF ServedInv, Listens, KnowsCurrent
<1>17. CASE \E h \in Request : Sync(h)
    <2>1. (conn' = LetGo \/ UNCHANGED <<entry, conn>>) /\ UNCHANGED current
        BY <1>17 DEF Sync
    <2>2. CASE conn' = LetGo
        BY <2>1, <2>2, LetGoKeeps DEF ServedInv
    <2>3. CASE UNCHANGED <<entry, conn>>
        BY <2>1, <2>3 DEF ServedInv, Listens, KnowsCurrent
    <2>. QED  BY <2>1, <2>2, <2>3
<1>18. CASE UNCHANGED vars
    BY <1>18 DEF vars, ServedInv, Listens, KnowsCurrent
<1>. QED
    BY <1>1, <1>2, <1>3, <1>4, <1>5, <1>6, <1>7, <1>8, <1>9, <1>10, <1>11, <1>12,
       <1>13, <1>14, <1>15, <1>16, <1>17, <1>18
    DEF Next, Proceeds, Handles

\* However connections come, go and take over, and whatever manual submissions do to the
\* entry, two connections never listen to the candidate at once.
THEOREM OneListenerHolds == Spec => []OneListener
<1>1. ServedInv => OneListener  BY DEF ServedInv, Listens, OneListener
<1>. QED  BY <1>1, TypeCorrect, ServedInit, ServedNext, PTL DEF Spec

\* A connection is served the question the interview asks, when it comes and after each
\* of its answers, until the interview goes on by itself.
THEOREM ServedIsCurrentHolds == Spec => []ServedIsCurrent
<1>1. ServedInv => ServedIsCurrent  BY DEF ServedInv, KnowsCurrent, ServedIsCurrent
<1>. QED  BY <1>1, TypeCorrect, ServedInit, ServedNext, PTL DEF Spec

---------------------------------------------------------------------------
(* No question is passed over *)

\* An answer the graph has not finished with was given to the question that is asked:
\* whatever resumes it may leave that question.
AccountedInv ==
    /\ NoQuestionSkipped
    /\ halfRun = "answer" => current \in accounted

\* The current question is accounted for before it is left, by a step that reaches n.
LEMMA LeavesAccounted ==
    ASSUME TypeOK, AccountedInv, NEW n \in 1..Finished, current' = n, halfRun' = "no",
           accounted \subseteq accounted',
           current..(n - 1) \subseteq accounted'
    PROVE  AccountedInv'
<1>. SUFFICES ASSUME NEW q \in 1..Last, q < n PROVE q \in accounted'
    BY DEF AccountedInv, NoQuestionSkipped
<1>1. CASE q < current
    BY <1>1 DEF AccountedInv, NoQuestionSkipped
<1>2. CASE ~(q < current)
    <2>1. q \in current..(n - 1)  BY <1>2, RegistryAssumption DEF TypeOK, Finished
    <2>. QED  BY <2>1
<1>. QED  BY <1>1, <1>2

\* A run that is resumed leaves the question of the answer it is about, or one left by
\* an event that is no answer.
LEMMA ResumedAccounted ==
    ASSUME TypeOK, AccountedInv, NEW n \in 1..Finished, Resumes(n)
    PROVE  accounted \subseteq accounted' /\ current..(n - 1) \subseteq accounted'
<1>1. CASE halfRun = "other"
    BY <1>1 DEF Resumes
<1>2. CASE halfRun = "answer"
    <2>1. accounted' = accounted /\ current \in accounted
        BY <1>2 DEF Resumes, AccountedInv
    <2>2. current..(n - 1) \subseteq {current}
        BY RegistryAssumption DEF Resumes, TypeOK, Finished
    <2>. QED  BY <2>1, <2>2
<1>. QED  BY <1>1, <1>2 DEF Resumes, TypeOK

\* What the session makes of an answer.
LEMMA SubmitAccounted ==
    ASSUME TypeOK, AccountedInv, NEW id, NEW given \in 0..Last, NEW n \in 1..Finished,
           SubmitEvent(id, given, n)
    PROVE  AccountedInv'
<1>1. CASE UNCHANGED session
    BY <1>1 DEF AccountedInv, NoQuestionSkipped
<1>2. CASE ~UNCHANGED session
    <2>1. /\ Judges(given, n) \/ RefusesOrObeys(n) \/ Resumes(n)
          /\ current' = n /\ halfRun' = "no"
        BY <1>2 DEF SubmitEvent
    <2>2. CASE Judges(given, n)
        <3>1. accounted' = accounted \cup {current}  BY <2>2 DEF Judges, Fits
        <3>2. current..(n - 1) \subseteq {current}
            BY <2>2, RegistryAssumption DEF Judges, TypeOK, Finished
        <3>. QED  BY <2>1, <3>1, <3>2, LeavesAccounted
    <2>3. CASE RefusesOrObeys(n)
        BY <2>1, <2>3, LeavesAccounted DEF RefusesOrObeys
    <2>4. CASE Resumes(n)
        BY <2>1, <2>4, ResumedAccounted, LeavesAccounted
    <2>. QED  BY <2>1, <2>2, <2>3, <2>4
<1>. QED  BY <1>1, <1>2

\* However answers, other events, repetitions and calls that raise interleave, no question
\* is left that was neither answered nor left by an event that is no answer.
THEOREM NoQuestionSkippedHolds == Spec => []NoQuestionSkipped
<1>1. Init => AccountedInv
    BY RegistryAssumption DEF Init, AccountedInv, NoQuestionSkipped
<1>2. ASSUME TypeOK, AccountedInv, [Next]_vars PROVE AccountedInv'
    <2>0. /\ \A c \in Conn : conn[c].question \in 0..Last
          /\ \A h \in Request : req[h].question \in 0..Last
        BY <1>2 DEF TypeOK, Connection, Requests
    <2>1. CASE \E c \in Conn : Submit(c)
        <3>1. PICK c \in Conn : Submit(c)  BY <2>1
        <3>2. PICK n \in 1..Finished :
                  SubmitEvent(<<conn[c].question, conn[c].revision>>, conn[c].question, n)
            BY <3>1 DEF Submit
        <3>. QED  BY <1>2, <2>0, <3>2, SubmitAccounted
    <2>2. CASE \E h \in Request : SubmitManual(h)
        <3>1. PICK h \in Request : SubmitManual(h)  BY <2>2
        <3>2. PICK n \in 1..Finished : SubmitEvent(req[h].id, req[h].question, n)
            BY <3>1 DEF SubmitManual
        <3>. QED  BY <1>2, <2>0, <3>2, SubmitAccounted
    <2>3. CASE (\E c \in Conn : SubmitRaises(c)) \/ \E h \in Request : SubmitManualRaises(h)
        <3>1. PICK id, given : SubmitEventRaises(id, given)
            BY <2>3 DEF SubmitRaises, SubmitManualRaises
        <3>. QED  BY <1>2, <3>1
                  DEF SubmitEventRaises, Fits, AccountedInv, NoQuestionSkipped
    <2>4. CASE OtherEvent
        <3>1. current' \in 1..Finished /\ halfRun' = "no"
            BY <1>2, <2>4, RegistryAssumption DEF OtherEvent, TypeOK, Finished
        <3>2. /\ accounted \subseteq accounted'
              /\ current..(current' - 1) \subseteq accounted'
            BY <1>2, <2>4, ResumedAccounted DEF OtherEvent
        <3>. QED  BY <1>2, <3>1, <3>2, LeavesAccounted
    <2>5. CASE OtherEventRaises
        BY <1>2, <2>5 DEF OtherEventRaises, AccountedInv, NoQuestionSkipped
    <2>6. CASE UNCHANGED session
        BY <1>2, <2>6 DEF AccountedInv, NoQuestionSkipped
    <2>7. \/ UNCHANGED session \/ OtherEvent \/ OtherEventRaises
          \/ \E c \in Conn : Submit(c) \/ SubmitRaises(c)
          \/ \E h \in Request : SubmitManual(h) \/ SubmitManualRaises(h)
        BY <1>2
        DEF Next, Proceeds, Handles, Read, OpenTurn, Attach, BeginCommit, Abort, Mark,
            Told, TellFails, AttachNext, Disconnect, Ask, Sync, vars
    <2>. QED  BY <2>1, <2>2, <2>3, <2>4, <2>5, <2>6, <2>7
<1>3. AccountedInv => NoQuestionSkipped  BY DEF AccountedInv
<1>. QED  BY <1>1, <1>2, <1>3, TypeCorrect, PTL DEF Spec
=============================================================================

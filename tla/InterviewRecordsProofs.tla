------------------------ MODULE InterviewRecordsProofs ------------------------
(***************************************************************************)
(* Theorems about InterviewRecords, for every number of interviews and     *)
(* every set of calls.                                                     *)
(***************************************************************************)
EXTENDS InterviewRecords, WellFoundedInduction, TLAPS

\* A call that writes the row of a new interview.
Starting(c) == call[c].at \in Writing

\* A call about an interview that is known.
Serving(c) == call[c].at \notin Writing \cup {"idle"}

\* What a call holds and has seen.
CallSound(c) ==
    /\ call[c].at # "idle" => call[c].of \in Interview
    /\ call[c].at # "cancel" => call[c].locked = {}
    /\ call[c].inserted => call[c].at = "commit"
    /\ Starting(c) => row[call[c].of] = "none" /\ memory[call[c].of] # "none"
    /\ Serving(c) => row[call[c].of] # "none"
    /\ call[c].at = "commit" => call[c].inserted \/ call[c].of \in result
    /\ call[c].at \in {"release", "drop"} => call[c].of \in result
    /\ call[c].seen = "completed" => Serving(c) /\ row[call[c].of] = "completed"
    /\ \A i \in call[c].locked : row[i] = "in_progress"

\* What two calls have in common.
Apart(c, d) ==
    /\ call[c].locked \cap call[d].locked = {}
    /\ Starting(c) /\ Starting(d) => call[c].of # call[d].of
    /\ call[c].at = "cancel" /\ call[d].at = "cancel" => {call[c].of, call[d].of} \in overlapped

\* The rows in progress that a start has still to end, or will not see.
EndsTheRest(c) ==
    call[c].at = "cancel" =>
        \A i \in Interview :
            row[i] = "in_progress" =>
                i \in call[c].old \cup call[c].locked \/ {i, call[c].of} \in overlapped

\* A row is written for a session that was made.
RowsHaveSessions == \A i \in Interview : row[i] # "none" => memory[i] # "none"

Inv ==
    /\ TypeOK /\ RowsHaveSessions
    /\ CompletedHasResult /\ ReleasedIsSaved /\ StartEndsTheOthers
    /\ \A c \in Call : CallSound(c) /\ EndsTheRest(c)
    /\ \A c, d \in Call : c # d => Apart(c, d)

\* Nothing is there yet.
LEMMA Initially == Init => Inv
<1>. SUFFICES ASSUME Init PROVE Inv
    OBVIOUS
<1>1. \A c \in Call : call[c] = Idle  BY DEF Init
<1>2. Idle \in CallState
    BY DEF Idle, CallState, Place
<1>3. TypeOK
    BY <1>1, <1>2 DEF Init, TypeOK, Status, Memory, Gone
<1>4. RowsHaveSessions /\ CompletedHasResult /\ ReleasedIsSaved /\ StartEndsTheOthers
    BY DEF Init, RowsHaveSessions, CompletedHasResult, ReleasedIsSaved, StartEndsTheOthers
<1>5. \A c \in Call : CallSound(c) /\ EndsTheRest(c)
    BY <1>1 DEF CallSound, EndsTheRest, Idle, Starting, Serving, Writing
<1>6. \A c, d \in Call : Apart(c, d)
    BY <1>1 DEF Apart, Idle, Starting, Writing
<1>. QED  BY <1>3, <1>4, <1>5, <1>6 DEF Inv

\* A step of one call that writes no row and no result and locks nothing keeps
\* the rest: what it does to the call itself is left to show.
LEMMA OneCallKeeps ==
    ASSUME Inv, NEW c \in Call,
           NEW n \in CallState, call' = [call EXCEPT ![c] = n],
           n.at \notin {"snapshot", "cancel"}, n.locked = {},
           UNCHANGED <<row, result, overlapped>>,
           \A i \in Interview : memory[i] # "none" => memory'[i] # "none",
           CallSound(c)'
    PROVE  /\ call' \in [Call -> CallState]
           /\ RowsHaveSessions' /\ CompletedHasResult' /\ StartEndsTheOthers'
           /\ \A d \in Call : CallSound(d)' /\ EndsTheRest(d)'
           /\ \A d, e \in Call : d # e => Apart(d, e)'
<1>1. call \in [Call -> CallState]  BY DEF Inv, TypeOK
<1>2. call'[c] = n /\ \A d \in Call \ {c} : call'[d] = call[d]  BY <1>1
<1>3. call' \in [Call -> CallState]  BY <1>1
<1>4. RowsHaveSessions' /\ CompletedHasResult' /\ StartEndsTheOthers'
    BY DEF Inv, RowsHaveSessions, CompletedHasResult, StartEndsTheOthers
<1>5. \A d \in Call : CallSound(d)'
    <2>. SUFFICES ASSUME NEW d \in Call, d # c PROVE CallSound(d)'
        OBVIOUS
    <2>. QED  BY <1>1, <1>2 DEF Inv, CallSound, Starting, Serving, Writing, CallState
<1>6. \A d \in Call : EndsTheRest(d)'
    BY <1>2 DEF Inv, EndsTheRest
<1>7. \A d, e \in Call : d # e => Apart(d, e)'
    <2>. SUFFICES ASSUME NEW d \in Call, NEW e \in Call, d # e PROVE Apart(d, e)'
        OBVIOUS
    <2>. QED  BY <1>2 DEF Inv, Apart, Starting, Writing
<1>. QED  BY <1>3, <1>4, <1>5, <1>6, <1>7

\* The steps of a call that leave rows and results alone.
LEMMA ServingKeeps ==
    ASSUME Inv, NEW c \in Call,
           \/ Event(c) \/ ReadRow(c) \/ Submit(c) \/ Connect(c) \/ Speak(c) \/ HangUp(c)
           \/ Finalize(c) \/ Find(c) \/ Insert(c) \/ Fail(c) \/ Release(c) \/ Drop(c)
    PROVE  Inv'
<1>. DEFINE n == call'[c]
            i == call[c].of
<1>0. /\ call \in [Call -> CallState] /\ row \in [Interview -> Status \cup {"none"}]
      /\ memory \in [Interview -> Memory] /\ registered \subseteq Interview
      /\ call[c] \in CallState /\ CallSound(c) /\ Idle \in CallState
    BY DEF Inv, TypeOK, Idle, CallState, Place
<1>1. UNCHANGED <<row, result, overlapped>>
    BY DEF Event, ReadRow, Submit, Connect, Speak, HangUp, Finalize, Find, Insert, Fail,
           Release, Drop
<1>. DEFINE Moved(m) == /\ call' = [call EXCEPT ![c] = m]
                        /\ m \in CallState /\ m.at \notin Writing /\ m.locked = {}
                        /\ CallSound(c)'
                        /\ memory' \in [Interview -> Memory]
                        /\ registered' \subseteq Interview
                        /\ ReleasedIsSaved'
                        /\ \A j \in Interview : memory[j] # "none" => memory'[j] # "none"
<1>2. ASSUME NEW m, Moved(m) PROVE Inv'
    <2>1. m.at \notin {"snapshot", "cancel"}  BY <1>2 DEF Writing
    <2>. QED  BY <2>1, <1>1, <1>2, OneCallKeeps DEF Inv, TypeOK
<1>3. CASE Ends(c) /\ UNCHANGED <<memory, registered>>
    <2>1. Moved(Idle)
        BY <1>0, <1>1, <1>3 DEF Ends, Idle, CallSound, Starting, Serving, Writing, Inv,
           ReleasedIsSaved
    <2>. QED  BY <2>1, <1>2
<1>4. CASE Event(c)
    <2>1. PICK k \in Interview :
              /\ row[k] # "none"
              /\ call' = [call EXCEPT ![c] = [Idle EXCEPT !.at = "read", !.of = k]]
        BY <1>4 DEF Event, Known
    <2>2. Moved([Idle EXCEPT !.at = "read", !.of = k])
        BY <2>1, <1>0, <1>1, <1>4 DEF Event, Idle, CallState, Place, CallSound, Starting,
           Serving, Writing, Inv, ReleasedIsSaved
    <2>. QED  BY <2>2, <1>2
<1>5. CASE ReadRow(c) /\ ~TurnedAway(i)
    <2>1. call' = [call EXCEPT ![c] = [call[c] EXCEPT !.at = "submit", !.seen = row[i]]]
        BY <1>0, <1>5 DEF ReadRow
    <2>2. /\ call[c].at = "read" /\ UNCHANGED <<memory, registered>>
          /\ i \in Interview /\ row[i] \in Status /\ call[c].locked = {}
        BY <1>0, <1>5 DEF ReadRow, CallSound, Serving, Writing
    <2>3. [call[c] EXCEPT !.at = "submit", !.seen = row[i]] \in CallState
        BY <2>2, <1>0 DEF CallState, Place
    <2>4. CallSound(c)'
        BY <2>1, <2>2, <1>0, <1>1 DEF CallState, CallSound, Starting, Serving, Writing
    <2>5. Moved([call[c] EXCEPT !.at = "submit", !.seen = row[i]])
        BY <2>1, <2>2, <2>3, <2>4, <1>0, <1>1 DEF CallState, Writing, Inv, ReleasedIsSaved
    <2>. QED  BY <2>5, <1>2
<1>6. CASE Submit(c) /\ ~Ends(c)
    <2>1. /\ call' = [call EXCEPT ![c] = [call[c] EXCEPT !.at = "finalize"]]
          /\ call[c].at = "submit" /\ registered' = registered
          /\ memory' = memory \/ memory' = [memory EXCEPT ![i] = "finished"]
        BY <1>0, <1>6 DEF Submit, Goes, Finishes
    <2>2. Moved([call[c] EXCEPT !.at = "finalize"])
        BY <2>1, <1>0, <1>1 DEF CallState, Place, Memory, CallSound, Starting,
           Serving, Writing, Inv, ReleasedIsSaved
    <2>. QED  BY <2>2, <1>2
<1>7. CASE Connect(c)
    <2>1. PICK k \in Interview :
              /\ row[k] # "none"
              /\ call' = [call EXCEPT ![c] = [Idle EXCEPT !.at = "speaking", !.of = k,
                                                          !.voice = TRUE, !.seen = row[k]]]
        BY <1>7 DEF Connect, Known
    <2>2. /\ row[k] \in Status /\ UNCHANGED <<memory, registered>>
        BY <2>1, <1>0, <1>7 DEF Connect
    <2>3. [Idle EXCEPT !.at = "speaking", !.of = k, !.voice = TRUE, !.seen = row[k]]
              \in CallState
        BY <2>2, <1>0 DEF CallState, Place, Idle
    <2>4. CallSound(c)'
        BY <2>1, <2>2, <1>0, <1>1 DEF Idle, CallSound, Starting, Serving, Writing
    <2>5. Moved([Idle EXCEPT !.at = "speaking", !.of = k, !.voice = TRUE, !.seen = row[k]])
        BY <2>1, <2>2, <2>3, <2>4, <1>0, <1>1 DEF Idle, Writing, Inv, ReleasedIsSaved
    <2>. QED  BY <2>5, <1>2
<1>8. CASE Speak(c)
    <2>1. /\ call' = [call EXCEPT ![c] = [call[c] EXCEPT !.at = "finalize"]]
          /\ call[c].at = "speaking" /\ registered' = registered
          /\ memory' = memory \/ memory' = [memory EXCEPT ![i] = "finished"]
        BY <1>0, <1>8 DEF Speak, Goes, Finishes
    <2>2. Moved([call[c] EXCEPT !.at = "finalize"])
        BY <2>1, <1>0, <1>1 DEF CallState, Place, Memory, CallSound, Starting,
           Serving, Writing, Inv, ReleasedIsSaved
    <2>. QED  BY <2>2, <1>2
<1>9. CASE Finalize(c) /\ ~Ends(c)
    <2>1. /\ call' = [call EXCEPT ![c] = [call[c] EXCEPT !.at = "find"]]
          /\ call[c].at = "finalize" /\ UNCHANGED <<memory, registered>>
        BY <1>0, <1>9 DEF Finalize, Goes
    <2>2. Moved([call[c] EXCEPT !.at = "find"])
        BY <2>1, <1>0, <1>1 DEF CallState, Place, Saving, CallSound, Starting,
           Serving, Writing, Inv, ReleasedIsSaved
    <2>. QED  BY <2>2, <1>2
<1>10. CASE Find(c)
    <2>. DEFINE p == IF i \in result THEN "release" ELSE "insert"
    <2>1. /\ call' = [call EXCEPT ![c] = [call[c] EXCEPT !.at = p]]
          /\ call[c].at = "find" /\ UNCHANGED <<memory, registered>>
        BY <1>0, <1>10 DEF Find, Goes
    <2>2. Moved([call[c] EXCEPT !.at = p])
        BY <2>1, <1>0, <1>1 DEF CallState, Place, Saving, CallSound, Starting,
           Serving, Writing, Inv, ReleasedIsSaved
    <2>. QED  BY <2>2, <1>2
<1>11. CASE Insert(c)
    <2>. DEFINE b == i \notin result
    <2>1. /\ call' = [call EXCEPT ![c] = [call[c] EXCEPT !.at = "commit", !.inserted = b]]
          /\ call[c].at = "insert" /\ UNCHANGED <<memory, registered>>
        BY <1>0, <1>11 DEF Insert
    <2>2. b \in BOOLEAN  OBVIOUS
    <2>3. [call[c] EXCEPT !.at = "commit", !.inserted = b] \in CallState
        BY <2>2, <1>0 DEF CallState, Place, Saving
    <2>4. CallSound(c)'
        <3>1. /\ call'[c].at = "commit" /\ call'[c].inserted = b /\ call'[c].of = i
              /\ call'[c].locked = call[c].locked /\ call'[c].seen = call[c].seen
            BY <2>1, <1>0 DEF CallState
        <3>2. call'[c].inserted \/ i \in result  BY <3>1
        <3>. QED  BY <3>1, <3>2, <2>1, <1>0, <1>1 DEF CallSound, Starting, Serving, Writing
    <2>5. Moved([call[c] EXCEPT !.at = "commit", !.inserted = b])
        BY <2>1, <2>3, <2>4, <1>0, <1>1 DEF CallState, CallSound, Writing, Inv, ReleasedIsSaved
    <2>. QED  BY <2>5, <1>2
<1>12. CASE Release(c)
    <2>1. CASE Ends(c)
        <3>1. Moved(Idle)
            BY <2>1, <1>0, <1>1, <1>12 DEF Release, Ends, Idle, CallSound, Starting, Serving,
               Writing, Inv, ReleasedIsSaved
        <3>. QED  BY <3>1, <1>2
    <2>2. CASE Goes(c, "release", "drop")
        <3>1. /\ call' = [call EXCEPT ![c] = [call[c] EXCEPT !.at = "drop"]]
              /\ call[c].at = "release" /\ memory' = memory
            BY <2>2, <1>0, <1>12 DEF Release, Goes
        <3>2. registered' \subseteq Interview  BY <1>0, <1>12 DEF Release
        <3>3. Moved([call[c] EXCEPT !.at = "drop"])
            BY <3>1, <3>2, <1>0, <1>1 DEF CallState, Place, CallSound, Starting,
               Serving, Writing, Inv, ReleasedIsSaved
        <3>. QED  BY <3>3, <1>2
    <2>. QED  BY <2>1, <2>2, <1>12 DEF Release
<1>13. CASE Drop(c)
    <2>1. /\ call[c].at = "drop" /\ Ends(c) /\ UNCHANGED <<row, result, registered>>
          /\ memory' = [memory EXCEPT ![i] = "released"] /\ i \in result
        BY <1>0, <1>13 DEF Drop, CallSound
    <2>2. memory' \in [Interview -> Memory]  BY <2>1, <1>0 DEF Memory, Gone
    <2>3. ReleasedIsSaved'
        BY <2>1, <1>0 DEF Inv, ReleasedIsSaved
    <2>4. Moved(Idle)
        BY <2>1, <2>2, <2>3, <1>0, <1>1 DEF Ends, Idle, CallSound, Starting, Serving, Writing
    <2>. QED  BY <2>4, <1>2
<1>14. CASE (ReadRow(c) /\ TurnedAway(i)) \/ HangUp(c) \/ Fail(c)
    <2>1. Ends(c) /\ UNCHANGED <<memory, registered>>
        BY <1>14 DEF ReadRow, HangUp, Fail, Ends
    <2>. QED  BY <2>1, <1>3
<1>15. CASE (Submit(c) /\ Ends(c)) \/ (Finalize(c) /\ Ends(c))
    <2>1. CASE UNCHANGED <<memory, registered>>  BY <2>1, <1>15, <1>3
    <2>2. CASE Submit(c) /\ Ends(c)
        <3>1. call'[c].at = "idle"  BY <2>2, <1>0 DEF Ends, Idle
        <3>2. UNCHANGED <<memory, registered>>
            BY <3>1, <2>2, <1>0 DEF Submit, Goes, CallState
        <3>. QED  BY <3>2, <2>1
    <2>. QED  BY <2>1, <2>2, <1>15 DEF Finalize
<1>. QED
    BY <1>4, <1>5, <1>6, <1>7, <1>8, <1>9, <1>10, <1>11, <1>12, <1>13, <1>14, <1>15


\* A new session has no row yet and no call.
LEMMA StartKeeps ==
    ASSUME Inv, NEW c \in Call, Start(c)
    PROVE  Inv'
<1>0. /\ call \in [Call -> CallState] /\ row \in [Interview -> Status \cup {"none"}]
      /\ memory \in [Interview -> Memory] /\ registered \subseteq Interview
    BY DEF Inv, TypeOK
<1>1. PICK i \in Interview :
          /\ call[c] = Idle /\ memory[i] = "none"
          /\ call' = [call EXCEPT ![c] = [Idle EXCEPT !.at = "snapshot", !.of = i]]
          /\ memory' = [memory EXCEPT ![i] = "running"]
          /\ registered' = registered \cup {i}
          /\ UNCHANGED <<row, result, overlapped>>
    BY DEF Start
<1>2. row[i] = "none" /\ \A d \in Call : Starting(d) => call[d].of # i
    BY <1>1 DEF Inv, RowsHaveSessions, CallSound
<1>3. /\ [Idle EXCEPT !.at = "snapshot", !.of = i] \in CallState
      /\ call'[c] = [Idle EXCEPT !.at = "snapshot", !.of = i]
      /\ \A d \in Call \ {c} : call'[d] = call[d]
    BY <1>0, <1>1 DEF Idle, CallState, Place, Writing
<1>4. TypeOK'
    <2>1. call' \in [Call -> CallState]  BY <1>0, <1>1, <1>3
    <2>2. memory' \in [Interview -> Memory]  BY <1>0, <1>1 DEF Memory
    <2>. QED  BY <2>1, <2>2, <1>0, <1>1 DEF Inv, TypeOK
<1>5. RowsHaveSessions' /\ CompletedHasResult' /\ ReleasedIsSaved' /\ StartEndsTheOthers'
    BY <1>0, <1>1 DEF Inv, RowsHaveSessions, CompletedHasResult, ReleasedIsSaved,
       StartEndsTheOthers
<1>6. CallSound(c)' /\ EndsTheRest(c)'
    BY <1>0, <1>1, <1>2, <1>3 DEF Idle, CallSound, EndsTheRest, Starting, Serving, Writing
<1>7. \A d \in Call \ {c} : CallSound(d)' /\ EndsTheRest(d)'
    BY <1>0, <1>1, <1>3 DEF Inv, CallSound, EndsTheRest, Starting, Serving, Writing
<1>8. \A d, e \in Call : d # e => Apart(d, e)'
    <2>. SUFFICES ASSUME NEW d \in Call, NEW e \in Call, d # e PROVE Apart(d, e)'
        OBVIOUS
    <2>1. CASE d # c /\ e # c
        BY <2>1, <1>1, <1>3 DEF Inv, Apart, Starting
    <2>2. CASE d = c \/ e = c
        BY <2>2, <1>1, <1>2, <1>3 DEF Inv, Apart, Starting, Writing, Idle
    <2>. QED  BY <2>1, <2>2
<1>. QED  BY <1>4, <1>5, <1>6, <1>7, <1>8 DEF Inv

\* A start looks at the rows in progress and meets the starts under way.
LEMMA SnapshotKeeps ==
    ASSUME Inv, NEW c \in Call, Snapshot(c)
    PROVE  Inv'
<1>. DEFINE rows == {i \in Interview : row[i] = "in_progress"}
            met == {{call[c].of, call[d].of} : d \in {e \in Call : call[e].at = "cancel"}}
<1>0. /\ call \in [Call -> CallState] /\ call[c] \in CallState
      /\ call[c].at = "snapshot" /\ CallSound(c)
      /\ UNCHANGED <<row, result, registered, memory>>
      /\ overlapped' = overlapped \cup met
    BY DEF Inv, TypeOK, Snapshot
<1>1. /\ call' = [call EXCEPT ![c] = [call[c] EXCEPT !.at = "cancel", !.old = rows]]
      /\ call'[c] = [call[c] EXCEPT !.at = "cancel", !.old = rows]
      /\ \A d \in Call \ {c} : call'[d] = call[d]
    BY <1>0 DEF Snapshot
<1>2. call'[c] \in CallState
    BY <1>0, <1>1 DEF CallState, Place, Writing
<1>3. TypeOK'
    <2>1. call' \in [Call -> CallState]  BY <1>0, <1>1, <1>2
    <2>2. \A d \in Call : call[d].at = "cancel" => call[d].of \in Interview
        BY DEF Inv, CallSound
    <2>3. call[c].of \in Interview  BY <1>0 DEF CallSound
    <2>4. met \subseteq SUBSET Interview  BY <2>2, <2>3
    <2>. QED  BY <2>1, <2>4, <1>0 DEF Inv, TypeOK
<1>4. RowsHaveSessions' /\ CompletedHasResult' /\ ReleasedIsSaved' /\ StartEndsTheOthers'
    BY <1>0 DEF Inv, RowsHaveSessions, CompletedHasResult, ReleasedIsSaved,
       StartEndsTheOthers
<1>5. CallSound(c)' /\ EndsTheRest(c)'
    BY <1>0, <1>1 DEF CallState, CallSound, EndsTheRest, Starting, Serving, Writing
<1>6. \A d \in Call \ {c} : CallSound(d)' /\ EndsTheRest(d)'
    BY <1>0, <1>1 DEF Inv, CallSound, EndsTheRest, Starting, Serving, Writing
<1>7. \A d, e \in Call : d # e => Apart(d, e)'
    <2>. SUFFICES ASSUME NEW d \in Call, NEW e \in Call, d # e PROVE Apart(d, e)'
        OBVIOUS
    <2>0. /\ Apart(d, e) /\ overlapped \subseteq overlapped'
          /\ \A f \in Call : call[f].at = "cancel" => {call[c].of, call[f].of} \in overlapped'
        BY <1>0 DEF Inv
    <2>1. /\ call'[c].of = call[c].of /\ call'[c].locked = call[c].locked
          /\ Starting(c) /\ Starting(c)'
        BY <1>0, <1>1 DEF CallState, Starting, Writing
    <2>2. CASE d # c /\ e # c
        BY <2>0, <2>2, <1>1 DEF Apart, Starting
    <2>3. CASE d = c
        BY <2>0, <2>1, <2>3, <1>1 DEF Apart, Starting
    <2>4. CASE e = c
        <3>1. {call[d].of, call[c].of} = {call[c].of, call[d].of}  OBVIOUS
        <3>. QED  BY <3>1, <2>0, <2>1, <2>4, <1>1 DEF Apart, Starting
    <2>. QED  BY <2>2, <2>3, <2>4
<1>. QED  BY <1>3, <1>4, <1>5, <1>6, <1>7 DEF Inv

\* A start takes a row nobody else has changed, if it is still in progress.
LEMMA CancelKeeps ==
    ASSUME Inv, NEW c \in Call, CancelOld(c)
    PROVE  Inv'
<1>0. /\ call \in [Call -> CallState] /\ call[c] \in CallState
      /\ call[c].at = "cancel" /\ CallSound(c) /\ EndsTheRest(c)
      /\ UNCHANGED <<row, result, registered, memory, overlapped>>
    BY DEF Inv, TypeOK, CancelOld
<1>1. PICK i \in call[c].old :
          /\ ~LockedByOther(c, i)
          /\ call' = [call EXCEPT ![c].old = @ \ {i},
                                  ![c].locked = @ \cup (IF Cancels(i) THEN {i} ELSE {})]
    BY DEF CancelOld
<1>. DEFINE left == call[c].old \ {i}
            held == call[c].locked \cup (IF Cancels(i) THEN {i} ELSE {})
<1>2. i \in Interview /\ left \subseteq Interview /\ held \subseteq Interview
    BY <1>0 DEF CallState
<1>3. /\ call'[c] = [call[c] EXCEPT !.old = left, !.locked = held]
      /\ \A d \in Call \ {c} : call'[d] = call[d]
    BY <1>0, <1>1
<1>4. /\ call'[c] \in CallState /\ call'[c].old = left /\ call'[c].locked = held
      /\ call'[c].at = "cancel" /\ call'[c].of = call[c].of
      /\ call'[c].inserted = call[c].inserted /\ call'[c].seen = call[c].seen
    <2>. HIDE DEF left, held
    <2>. QED  BY <1>0, <1>2, <1>3 DEF CallState
<1>5. TypeOK'
    <2>1. call' \in [Call -> CallState]
        BY <1>0, <1>1, <1>3, <1>4
    <2>. QED  BY <2>1, <1>0 DEF Inv, TypeOK
<1>6. RowsHaveSessions' /\ CompletedHasResult' /\ ReleasedIsSaved' /\ StartEndsTheOthers'
    BY <1>0 DEF Inv, RowsHaveSessions, CompletedHasResult, ReleasedIsSaved,
       StartEndsTheOthers
<1>7. CallSound(c)'
    BY <1>0, <1>4 DEF CallSound, Starting, Serving, Writing, Cancels
<1>8. EndsTheRest(c)'
    BY <1>0, <1>4 DEF EndsTheRest, Cancels
<1>9. \A d \in Call \ {c} : CallSound(d)' /\ EndsTheRest(d)'
    BY <1>0, <1>3 DEF Inv, CallSound, EndsTheRest, Starting, Serving, Writing
<1>10. \A d, e \in Call : d # e => Apart(d, e)'
    <2>. SUFFICES ASSUME NEW d \in Call, NEW e \in Call, d # e PROVE Apart(d, e)'
        OBVIOUS
    <2>0. Apart(d, e) /\ overlapped' = overlapped  BY <1>0 DEF Inv
    <2>1. \A f \in Call \ {c} : held \cap call[f].locked \subseteq call[c].locked
        BY <1>1 DEF LockedByOther
    <2>2. CASE d # c /\ e # c
        BY <2>0, <2>2, <1>3 DEF Apart, Starting
    <2>3. CASE d = c
        BY <2>0, <2>1, <2>3, <1>0, <1>3, <1>4 DEF Apart, Starting
    <2>4. CASE e = c
        BY <2>0, <2>1, <2>4, <1>0, <1>3, <1>4 DEF Apart, Starting
    <2>. QED  BY <2>2, <2>3, <2>4
<1>. QED  BY <1>5, <1>6, <1>7, <1>8, <1>9, <1>10 DEF Inv

\* A call that is over holds and has seen nothing.
LEMMA IdleIsSound ==
    ASSUME NEW c \in Call, call'[c] = Idle
    PROVE  /\ CallSound(c)' /\ EndsTheRest(c)' /\ Idle \in CallState
           /\ \A d \in Call : Apart(c, d)' /\ Apart(d, c)'
BY DEF Idle, CallState, Place, CallSound, EndsTheRest, Apart, Starting, Serving, Writing

\* The transaction of a start changes the rows it locked and adds its own.
LEMMA CommitStartKeeps ==
    ASSUME Inv, NEW c \in Call, CommitStart(c)
    PROVE  Inv'
<1>. DEFINE k == call[c].of
<1>0. /\ call \in [Call -> CallState] /\ call[c] \in CallState
      /\ row \in [Interview -> Status \cup {"none"}]
      /\ call[c].at = "cancel" /\ call[c].old = {} /\ CallSound(c) /\ EndsTheRest(c)
      /\ UNCHANGED <<result, registered, memory, overlapped>>
      /\ k \in Interview /\ row[k] = "none" /\ memory[k] # "none"
    BY DEF Inv, TypeOK, CommitStart, CallSound, Starting, Writing
<1>1. /\ call' = [call EXCEPT ![c] = Idle]
      /\ call'[c] = Idle /\ \A d \in Call \ {c} : call'[d] = call[d]
    BY <1>0 DEF CommitStart, Ends
<1>2. call' \in [Call -> CallState]
    BY <1>0, <1>1, IdleIsSound
<1>a. \A d, e \in Call : d # e => Apart(d, e)'
    <2>. SUFFICES ASSUME NEW d \in Call, NEW e \in Call, d # e
                  PROVE  Apart(d, e)'
        OBVIOUS
    <2>1. CASE d = c \/ e = c  BY <2>1, <1>1, IdleIsSound
    <2>2. CASE d # c /\ e # c
        <3>1. call'[d] = call[d] /\ call'[e] = call[e] /\ overlapped' = overlapped
            BY <2>2, <1>0, <1>1
        <3>2. Apart(d, e)  BY DEF Inv
        <3>. QED  BY <3>1, <3>2 DEF Apart, Starting
    <2>. QED  BY <2>1, <2>2
<1>3. CASE row' = row
    <2>1. TypeOK'  BY <1>0, <1>2, <1>3 DEF Inv, TypeOK
    <2>2. RowsHaveSessions' /\ CompletedHasResult' /\ ReleasedIsSaved' /\ StartEndsTheOthers'
        BY <1>0, <1>3 DEF Inv, RowsHaveSessions, CompletedHasResult, ReleasedIsSaved,
           StartEndsTheOthers
    <2>3. \A d \in Call : CallSound(d)' /\ EndsTheRest(d)'
        BY <1>0, <1>1, <1>3, IdleIsSound
        DEF Inv, CallSound, EndsTheRest, Starting, Serving, Writing
    <2>. QED  BY <1>a, <2>1, <2>2, <2>3 DEF Inv
<1>4. CASE row' = [i \in Interview |-> IF i \in call[c].locked THEN "cancelled"
                                      ELSE IF i = k THEN "in_progress" ELSE row[i]]
    <2>1. /\ row' \in [Interview -> Status \cup {"none"}]
          /\ row'[k] = "in_progress"
          /\ \A i \in Interview \ {k} :
                row'[i] = IF i \in call[c].locked THEN "cancelled" ELSE row[i]
          /\ \A i \in call[c].locked : row[i] = "in_progress"
          /\ k \notin call[c].locked
        BY <1>0, <1>4 DEF Status, CallSound
    <2>2. TypeOK'  BY <1>0, <1>2, <2>1 DEF Inv, TypeOK
    <2>3. RowsHaveSessions' /\ CompletedHasResult' /\ ReleasedIsSaved'
        BY <1>0, <2>1 DEF Inv, RowsHaveSessions, CompletedHasResult, ReleasedIsSaved
    <2>4. \A i \in Interview \ {k} :
              row'[i] = "in_progress" => row[i] = "in_progress" /\ {i, k} \in overlapped
        BY <1>0, <2>1 DEF EndsTheRest
    <2>5. StartEndsTheOthers'
        <3>. SUFFICES ASSUME NEW i \in Interview, NEW j \in Interview, i # j,
                             row'[i] = "in_progress", row'[j] = "in_progress"
                      PROVE  {i, j} \in overlapped
            BY <1>0 DEF StartEndsTheOthers
        <3>1. CASE j = k  BY <3>1, <2>4
        <3>2. CASE i = k
            <4>1. {i, j} = {j, i}  OBVIOUS
            <4>. QED  BY <4>1, <3>2, <2>4
        <3>3. CASE i # k /\ j # k  BY <3>3, <2>4 DEF Inv, StartEndsTheOthers
        <3>. QED  BY <3>1, <3>2, <3>3
    <2>6. ASSUME NEW d \in Call \ {c}
          PROVE  CallSound(d)' /\ EndsTheRest(d)'
        <3>1. /\ CallSound(d) /\ EndsTheRest(d) /\ Apart(c, d) /\ call'[d] = call[d]
              /\ call[c].locked \cap call[d].locked = {}
            BY <1>1 DEF Inv, Apart
        <3>2. /\ call[d].at # "idle" => call[d].of \in Interview
              /\ Starting(d) => call[d].of # k /\ row[call[d].of] = "none"
              /\ Serving(d) => call[d].of # k /\ row[call[d].of] # "none"
            BY <3>1, <1>0 DEF CallSound, Apart, Starting, Writing
        <3>3. /\ call[d] \in CallState /\ UNCHANGED <<result, memory, overlapped>>
              /\ Serving(d) => call[d].of \in Interview
            BY <3>2, <1>0 DEF Serving
        <3>4. \A i \in call[d].locked : row'[i] = "in_progress"
            BY <3>1, <3>3, <2>1, <1>0 DEF CallSound, CallState
        <3>5. /\ Starting(d) => row'[call[d].of] = "none"
              /\ Serving(d) => row'[call[d].of] # "none"
            BY <3>1, <3>2, <3>3, <2>1 DEF Starting, Writing, Serving
        <3>6. call[d].seen = "completed" => Serving(d) /\ row'[call[d].of] = "completed"
            BY <3>1, <3>2, <3>3, <2>1 DEF CallSound
        <3>7. CallSound(d)'
            BY <3>1, <3>3, <3>4, <3>5, <3>6 DEF CallSound, Starting, Serving
        <3>8. EndsTheRest(d)'
            <4>. SUFFICES ASSUME call[d].at = "cancel",
                                 NEW i \in Interview, row'[i] = "in_progress"
                          PROVE  i \in call[d].old \cup call[d].locked
                                 \/ {i, call[d].of} \in overlapped
                BY <3>1, <3>3 DEF EndsTheRest
            <4>1. CASE i = k  BY <4>1, <3>1, <1>0 DEF Apart
            <4>2. CASE i # k  BY <4>2, <3>1, <2>4 DEF EndsTheRest
            <4>. QED  BY <4>1, <4>2
        <3>. QED  BY <3>7, <3>8
    <2>7. CallSound(c)' /\ EndsTheRest(c)'  BY <1>1, IdleIsSound
    <2>. QED  BY <1>a, <2>2, <2>3, <2>5, <2>6, <2>7 DEF Inv
<1>. QED  BY <1>3, <1>4 DEF CommitStart

\* A save writes the row and the result of an interview that is known.
LEMMA CommitKeeps ==
    ASSUME Inv, NEW c \in Call, Commit(c)
    PROVE  Inv'
<1>. DEFINE k == call[c].of
            m == [call[c] EXCEPT !.at = "release", !.inserted = FALSE]
<1>0. /\ call \in [Call -> CallState] /\ call[c] \in CallState
      /\ row \in [Interview -> Status \cup {"none"}] /\ result \subseteq Interview
      /\ call[c].at = "commit" /\ ~LockedByOther(c, k) /\ CallSound(c)
      /\ UNCHANGED <<registered, memory, overlapped>>
      /\ k \in Interview /\ row[k] # "none" /\ call[c].locked = {}
    BY DEF Inv, TypeOK, Commit, CallSound, Serving, Writing
<1>1. /\ call' = [call EXCEPT ![c] = m]
      /\ call'[c] = m /\ \A d \in Call \ {c} : call'[d] = call[d]
    BY <1>0 DEF Commit, StatusAfterSave
<1>2. /\ m \in CallState /\ m.at = "release" /\ m.of = k /\ m.inserted = FALSE
      /\ m.locked = {} /\ m.seen = call[c].seen
    BY <1>0 DEF CallState, Place
<1>. HIDE DEF m
<1>3. row' = [row EXCEPT ![k] = "completed"]
    <2>1. CASE call[c].seen # "completed"  BY <2>1, <1>0 DEF Commit, StatusAfterSave
    <2>2. CASE call[c].seen = "completed"
        <3>1. row[k] = "completed"  BY <2>2, <1>0 DEF CallSound
        <3>2. row' = [row EXCEPT ![k] = row[k]]  BY <2>2, <1>0 DEF Commit, StatusAfterSave
        <3>. QED  BY <3>1, <3>2
    <2>. QED  BY <2>1, <2>2
<1>4. result' = result \cup {k}
    <2>1. CASE call[c].inserted  BY <2>1 DEF Commit
    <2>2. CASE ~call[c].inserted
        <3>1. k \in result  BY <2>2, <1>0 DEF CallSound
        <3>2. result' = result  BY <2>2 DEF Commit
        <3>. QED  BY <3>1, <3>2
    <2>. QED  BY <2>1, <2>2
<1>5. TypeOK'
    <2>1. call' \in [Call -> CallState]  BY <1>0, <1>1, <1>2
    <2>2. row' \in [Interview -> Status \cup {"none"}]  BY <1>0, <1>3 DEF Status
    <2>. QED  BY <2>1, <2>2, <1>0, <1>4 DEF Inv, TypeOK
<1>6. RowsHaveSessions' /\ CompletedHasResult' /\ ReleasedIsSaved' /\ StartEndsTheOthers'
    BY <1>0, <1>3, <1>4 DEF Inv, RowsHaveSessions, CompletedHasResult, ReleasedIsSaved,
       StartEndsTheOthers
<1>7. CallSound(c)' /\ EndsTheRest(c)'
    BY <1>0, <1>1, <1>2, <1>3, <1>4
    DEF CallSound, EndsTheRest, Starting, Serving, Writing
<1>8. ASSUME NEW d \in Call \ {c}
      PROVE  CallSound(d)' /\ EndsTheRest(d)'
    <2>1. /\ CallSound(d) /\ EndsTheRest(d) /\ call'[d] = call[d] /\ call[d] \in CallState
          /\ k \notin call[d].locked
        BY <1>0, <1>1 DEF Inv, LockedByOther
    <2>2. Starting(d) => call[d].of # k  BY <2>1, <1>0 DEF CallSound
    <2>3. Serving(d) => call[d].of \in Interview  BY <2>1 DEF CallSound, Serving
    <2>4. CallSound(d)'
        <3>1. \A i \in call[d].locked : row'[i] = "in_progress"
            BY <2>1, <1>0, <1>3 DEF CallSound, CallState
        <3>2. /\ Starting(d) => row'[call[d].of] = "none"
              /\ Serving(d) => row'[call[d].of] # "none"
              /\ call[d].seen = "completed" => Serving(d) /\ row'[call[d].of] = "completed"
            BY <2>1, <2>2, <2>3, <1>0, <1>3 DEF CallSound
        <3>. QED  BY <2>1, <3>1, <3>2, <1>0, <1>4 DEF CallSound, Starting, Serving
    <2>5. EndsTheRest(d)'  BY <2>1, <1>0, <1>3 DEF EndsTheRest
    <2>. QED  BY <2>4, <2>5
<1>9. \A d, e \in Call : d # e => Apart(d, e)'
    <2>. SUFFICES ASSUME NEW d \in Call, NEW e \in Call, d # e PROVE Apart(d, e)'
        OBVIOUS
    <2>. QED  BY <1>0, <1>1, <1>2 DEF Inv, Apart, Starting, Writing
<1>. QED  BY <1>5, <1>6, <1>7, <1>8, <1>9 DEF Inv

\* A restart ends every call and forgets every session.
LEMMA RestartKeeps ==
    ASSUME Inv, Restart
    PROVE  Inv'
<1>1. /\ \A c \in Call : call'[c] = Idle
      /\ UNCHANGED <<row, result, overlapped>> /\ registered' = {}
      /\ memory \in [Interview -> Memory]
      /\ memory' = [i \in Interview |-> IF memory[i] \in {"running", "finished"}
                                        THEN "lost" ELSE memory[i]]
    BY DEF Inv, TypeOK, Restart
<1>2. Idle \in CallState  BY DEF Idle, CallState, Place
<1>3. TypeOK'
    <2>1. call' \in [Call -> CallState]  BY <1>2 DEF Restart
    <2>2. memory' \in [Interview -> Memory]  BY <1>1 DEF Memory, Gone
    <2>. QED  BY <2>1, <2>2, <1>1 DEF Inv, TypeOK
<1>4. RowsHaveSessions' /\ CompletedHasResult' /\ ReleasedIsSaved' /\ StartEndsTheOthers'
    BY <1>1 DEF Inv, RowsHaveSessions, CompletedHasResult, ReleasedIsSaved,
       StartEndsTheOthers
<1>5. \A c \in Call : CallSound(c)' /\ EndsTheRest(c)'  BY <1>1, IdleIsSound
<1>6. \A c, d \in Call : Apart(c, d)'  BY <1>1, IdleIsSound
<1>. QED  BY <1>3, <1>4, <1>5, <1>6 DEF Inv

\* Every step keeps the invariant.
LEMMA NextKeeps == Inv /\ [Next]_vars => Inv'
<1>1. ASSUME Inv, UNCHANGED vars PROVE Inv'
    BY <1>1 DEF vars, Inv, TypeOK, RowsHaveSessions, CompletedHasResult, ReleasedIsSaved,
       StartEndsTheOthers, CallSound, EndsTheRest, Apart, Starting, Serving
<1>2. ASSUME Inv, Next PROVE Inv'
    BY <1>2, ServingKeeps, StartKeeps, SnapshotKeeps, CancelKeeps, CommitStartKeeps,
       CommitKeeps, RestartKeeps DEF Next
<1>. QED  BY <1>1, <1>2

LEMMA Invariance == Spec => []Inv
<1>. QED  BY Initially, NextKeeps, PTL DEF Spec

\* For any number of interviews and of calls that are served at a time, and
\* wherever the saves, starts, failures and restarts come between the statements
\* of one another: an interview is completed exactly if its result is saved.
THEOREM CompletedHasResultHolds == Spec => []CompletedHasResult
<1>1. Inv => CompletedHasResult  BY DEF Inv
<1>. QED  BY <1>1, Invariance, PTL

\* The session of an interview is let go of only with its result in the table, so
\* no answer given is lost but by the end of the process.
THEOREM ReleasedIsSavedHolds == Spec => []ReleasedIsSaved
<1>1. Inv => ReleasedIsSaved  BY DEF Inv
<1>. QED  BY <1>1, Invariance, PTL

\* Two interviews of a user are in progress only if their rows were written by
\* requests that overlapped: what create_session_record ends is everything it can see.
THEOREM StartEndsTheOthersHolds == Spec => []StartEndsTheOthers
<1>1. Inv => StartEndsTheOthers  BY DEF Inv
<1>. QED  BY <1>1, Invariance, PTL

---------------------------------------------------------------------------
(* The transactions of one user never wait for each other in a circle: a   *)
(* start locks rows in the order of the table, so in a chain of starts     *)
(* that wait the row waited for only grows; a save holds nothing a start   *)
(* waits for, and what a save waits for, it waits for without holding it.  *)

\* A start has locked rows only before those it has still to look at.
InOrder ==
    \A c \in Call : \A i \in call[c].locked, j \in call[c].old : i < j

\* A call whose list of rows to look at or of rows locked is as before, or that
\* starts on a list with no row locked, is in order.
LEMMA OrderKept ==
    ASSUME Inv, InOrder, NEW c \in Call,
           \/ Start(c) \/ Snapshot(c) \/ CommitStart(c)
           \/ Event(c) \/ ReadRow(c) \/ Submit(c) \/ Connect(c) \/ Speak(c) \/ HangUp(c)
           \/ Finalize(c) \/ Find(c) \/ Insert(c) \/ Commit(c) \/ Fail(c) \/ Release(c)
           \/ Drop(c)
    PROVE  InOrder'
<1>1. /\ call \in [Call -> CallState] /\ CallSound(c)
    BY DEF Inv, TypeOK
<1>2. \A d \in Call \ {c} : call'[d] = call[d]
    BY <1>1 DEF Start, Snapshot, CommitStart, Event, ReadRow, Submit, Connect, Speak,
       HangUp, Finalize, Find, Insert, Commit, Fail, Release, Drop, Goes, Ends
<1>. DEFINE Kept == \/ call'[c].locked = {}
                   \/ /\ call'[c].locked = call[c].locked
                      /\ call'[c].old = call[c].old
<1>3. ASSUME Ends(c) PROVE Kept
    BY <1>3, <1>1 DEF Ends, Idle
<1>4. ASSUME NEW from, NEW to, Goes(c, from, to) PROVE Kept
    BY <1>4, <1>1 DEF Goes, CallState
<1>5. ASSUME Snapshot(c) PROVE Kept
    BY <1>5, <1>1 DEF Snapshot, CallSound, CallState
<1>6. ASSUME Start(c) PROVE Kept
    BY <1>6, <1>1 DEF Start, Idle
<1>7. ASSUME Event(c) \/ Connect(c) PROVE Kept
    BY <1>7, <1>1 DEF Event, Connect, Idle
<1>8. ASSUME ReadRow(c) PROVE Kept
    BY <1>8, <1>1 DEF ReadRow, Idle, CallState
<1>9. ASSUME Insert(c) \/ Commit(c) PROVE Kept
    BY <1>9, <1>1 DEF Insert, Commit, CallState
<1>10. ASSUME CommitStart(c) \/ HangUp(c) \/ Fail(c) \/ Drop(c) PROVE Kept
    BY <1>10, <1>3 DEF CommitStart, HangUp, Fail, Drop
<1>11. ASSUME Submit(c) \/ Speak(c) \/ Finalize(c) \/ Find(c) \/ Release(c) PROVE Kept
    <2>1. Ends(c) \/ \E from, to \in Place : Goes(c, from, to)
        <3>1. {"submit", "finalize", "speaking", "find", "insert", "release", "drop"} \subseteq Place
            BY DEF Place, Saving
        <3>. QED  BY <1>11, <3>1 DEF Submit, Speak, Finalize, Find, Release
    <2>. QED  BY <2>1, <1>3, <1>4
<1>12. Kept
    BY <1>5, <1>6, <1>7, <1>8, <1>9, <1>10, <1>11
<1>. QED  BY <1>2, <1>12 DEF InOrder

\* A start looks at the first row of its list, so what it locks comes before the
\* rest of the list and after what it has locked.
LEMMA CancelKeepsOrder ==
    ASSUME Inv, InOrder, NEW c \in Call, CancelOld(c)
    PROVE  InOrder'
<1>1. call \in [Call -> CallState]  BY DEF Inv, TypeOK
<1>2. PICK i \in call[c].old :
        /\ \A j \in call[c].old : i <= j
        /\ call' = [call EXCEPT ![c].old = @ \ {i},
                                ![c].locked = @ \cup (IF Cancels(i) THEN {i} ELSE {})]
    BY DEF CancelOld
<1>3. /\ \A d \in Call \ {c} : call'[d] = call[d]
      /\ call'[c].old = call[c].old \ {i}
      /\ call'[c].locked \subseteq call[c].locked \cup {i}
    BY <1>1, <1>2 DEF CallState
<1>4. call[c].old \subseteq Nat
    BY <1>1 DEF CallState, Interview
<1>5. ASSUME NEW d \in Call, NEW k \in call'[d].locked, NEW j \in call'[d].old
      PROVE  k < j
    <2>1. CASE d # c
        BY <1>3, <2>1 DEF InOrder
    <2>2. CASE d = c /\ k # i
        BY <1>3, <2>2 DEF InOrder
    <2>3. CASE d = c /\ k = i
        <3>1. j \in call[c].old /\ j # i /\ j \in Nat /\ i \in Nat
            BY <1>2, <1>3, <1>4, <2>3
        <3>. QED  BY <1>2, <2>3, <3>1
    <2>. QED  BY <2>1, <2>2, <2>3
<1>. QED  BY <1>5 DEF InOrder

LEMMA NextKeepsOrder == Inv /\ InOrder /\ [Next]_vars => InOrder'
<1>1. ASSUME InOrder, UNCHANGED vars PROVE InOrder'
    BY <1>1 DEF vars, InOrder
<1>2. ASSUME InOrder, Restart PROVE InOrder'
    BY <1>2 DEF Restart, InOrder, Idle
<1>. QED  BY <1>1, <1>2, OrderKept, CancelKeepsOrder DEF Next

\* A set of rows that is not empty has a last one.
LEMMA LastRow ==
    ASSUME NEW T, T \subseteq Interview, T # {}
    PROVE  \E i \in T : \A j \in T : j <= i
<1>. DEFINE Less == {p \in Nat \X Nat : p[1] < p[2]}
            Left == {MaxInterviews - i : i \in T}
<1>0. /\ MaxInterviews \in Nat /\ T \subseteq Nat
      /\ \A i \in T : MaxInterviews - i \in Nat
    BY BoundAssumption DEF Interview
<1>1. IsWellFoundedOn(Less, Nat)
    <2>1. OpToRel(<, Nat) = Less  BY DEF OpToRel
    <2>. QED  BY <2>1, NatLessThanWellFounded
<1>2. Left \subseteq Nat /\ Left # {}  BY <1>0
<1>3. PICK m \in Left : \A n \in Left : ~(<<n, m>> \in Less)
    <2>. HIDE DEF Less, Left
    <2>. QED  BY <1>1, <1>2, WFMin
<1>4. PICK i \in T : m = MaxInterviews - i  BY <1>3
<1>5. ASSUME NEW j \in T PROVE j <= i
    <2>1. MaxInterviews - j \in Left  OBVIOUS
    <2>2. ~(<<MaxInterviews - j, m>> \in Less)  BY <2>1, <1>3
    <2>3. ~(MaxInterviews - j < MaxInterviews - i)  BY <2>2, <1>4, <1>0
    <2>. QED  BY <2>3, <1>0
<1>. QED  BY <1>5

\* In any set of calls there is one that waits for no other of them.
LEMMA NoCircle ==
    ASSUME Inv, InOrder, NEW S, S \subseteq Call, S # {}
    PROVE  \E c \in S : \A d \in S \ {c} : ~WaitsFor(c, d)
<1>0. /\ call \in [Call -> CallState]
      /\ \A c \in S : CallSound(c) /\ c \in Call
    BY DEF Inv, TypeOK
<1>. DEFINE Wants(c, i) == /\ call[c].at = "cancel" /\ i \in call[c].old
                           /\ \A j \in call[c].old : i <= j
            T == {i \in Interview : \E c \in S : Wants(c, i)}
<1>1. \A c \in S : call[c].locked # {} => call[c].at = "cancel"
    BY <1>0 DEF CallSound
<1>2. \A c \in S : call[c].inserted => call[c].at = "commit"
    BY <1>0 DEF CallSound
<1>3. CASE \E c \in S : call[c].at = "cancel" /\ \A i \in Interview : ~Wants(c, i)
    <2>1. PICK c \in S : call[c].at = "cancel" /\ \A i \in Interview : ~Wants(c, i)
        BY <1>3
    <2>2. call[c].old \subseteq Interview  BY <1>0 DEF CallState
    <2>. QED  BY <2>1, <2>2 DEF WaitsFor
<1>4. CASE /\ \E c \in S : call[c].at = "cancel"
           /\ \A c \in S : call[c].at = "cancel" => \E i \in Interview : Wants(c, i)
    <2>1. T # {}  BY <1>4
    <2>2. PICK i \in T : \A j \in T : j <= i
        <3>1. T \subseteq Interview  OBVIOUS
        <3>. HIDE DEF T
        <3>. QED  BY <2>1, <3>1, LastRow
    <2>3. PICK c \in S : Wants(c, i)  OBVIOUS
    <2>4. ASSUME NEW d \in S, WaitsFor(c, d) PROVE FALSE
        <3>1. PICK k \in call[c].old \cap call[d].locked : \A j \in call[c].old : k <= j
            BY <2>3, <2>4 DEF WaitsFor
        <3>2. call[c].old \subseteq Nat /\ call[d].old \subseteq Nat
            BY <1>0 DEF CallState, Interview
        <3>3. k = i  BY <2>3, <3>1, <3>2
        <3>4. PICK j \in Interview : Wants(d, j)  BY <3>1, <1>1, <1>4
        <3>5. i < j  BY <3>1, <3>3, <3>4, <1>0 DEF InOrder
        <3>6. j \in T /\ j \in Nat /\ i \in Nat
            BY <3>1, <3>2, <3>3, <3>4
        <3>. QED  BY <2>2, <3>5, <3>6
    <2>. QED  BY <2>4
<1>5. CASE \A c \in S : call[c].at # "cancel"
    <2>1. CASE \E c \in S : call[c].at = "commit"
        <3>1. PICK c \in S : call[c].at = "commit"  BY <2>1
        <3>. QED  BY <3>1, <1>1, <1>5 DEF WaitsFor
    <2>2. CASE \A c \in S : call[c].at # "commit"
        <3>1. PICK c \in S : TRUE  OBVIOUS
        <3>. QED  BY <3>1, <1>2, <1>5, <2>2 DEF WaitsFor
    <2>. QED  BY <2>1, <2>2
<1>. QED  BY <1>3, <1>4, <1>5

\* However many starts and saves of a user's interviews are in the database at
\* once, no transaction waits for one that does not go on: there is no deadlock
\* between the rows starts cancel, the results saves claim and the rows they
\* complete.
THEOREM WaitingEndsHolds == Spec => []WaitingEnds
<1>1. Init => InOrder
    BY DEF Init, InOrder, Idle
<1>2. Inv /\ InOrder => WaitingEnds
    <2>. SUFFICES ASSUME Inv, InOrder PROVE WaitingEnds
        OBVIOUS
    <2>1. ASSUME NEW c \in Call, NEW d \in Call, WaitsFor(c, d)
          PROVE  call[d].at \in {"cancel", "commit"}
        <3>1. CallSound(d)  BY DEF Inv
        <3>. QED  BY <2>1, <3>1 DEF CallSound, WaitsFor
    <2>. QED  BY <2>1, NoCircle DEF WaitingEnds
<1>. QED  BY <1>1, <1>2, Invariance, NextKeepsOrder, PTL DEF Spec
=============================================================================

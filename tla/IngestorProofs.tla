--------------------------- MODULE IngestorProofs ---------------------------
(***************************************************************************)
(* Proofs about the ingestor for any number of handlers, devices and       *)
(* requests, and any bound on the clock and on restarts.                   *)
(***************************************************************************)
EXTENDS Ingestor, FiniteSetTheorems, TLAPS

(* The groups of variables that a step leaves alone stand for their members.*)
USE DEF lifeVars, contextVars, dataVars, handlerVars

-----------------------------------------------------------------------------
(* Bodies and rows.                                                        *)

LEMMA ReadingMakesRow ==
  ASSUME NEW b \in Reading, NEW t \in 1 .. MaxTime
  PROVE  [device |-> b.device, at |-> t] \in Row
BY DEF Reading, Row

(* Only a body that decodes and validates is a reading.                    *)
LEMMA KindOfReading ==
  ASSUME NEW b \in Body \cup {NoBody}, b.kind = "reading"
  PROVE  b \in Reading
BY DEF Body, NoBody, Other, Reading

-----------------------------------------------------------------------------
(* Type correctness, in parts: the process, the store and the handlers.    *)

ProcessOK ==
  /\ main \in {"down", "serving", "draining", "closing", "exiting"}
  /\ timedOut \in BOOLEAN
  /\ store \in {"nil", "open", "closed"}
  /\ now \in 1 .. MaxTime
  /\ posts \in Nat /\ starts \in Nat /\ base \in Nat /\ missed \in Nat

StoreOK ==
  /\ table \in Seq(Row)
  /\ rowCount \in Nat /\ lastWrite \in 0 .. MaxTime /\ wrote \in BOOLEAN
  /\ lastStore \in Row \cup {NoRow}
  /\ gauge \in [Gauges -> Nat]
  /\ writeFail \in Nat /\ answered \in [Statuses -> Nat]

HandlersOK ==
  /\ pc \in [Handlers -> HandlerStates]
  /\ body \in [Handlers -> Body \cup {NoBody}]
  /\ \A h \in Handlers : pc[h] \notin {"idle", "check"} => body[h] \in Reading
  /\ at \in [Handlers -> 0 .. MaxTime]
  /\ \A h \in Handlers :
         pc[h] \notin {"idle", "check", "stamp"} => at[h] \in 1 .. MaxTime
  /\ snap \in [Handlers -> [rows : Nat, last : 0 .. MaxTime]]

LEMMA TypeParts == TypeOK <=> ProcessOK /\ StoreOK /\ HandlersOK
BY DEF TypeOK, ProcessOK, StoreOK, HandlersOK

(* A handler that moves on, its reading, stamp and snapshot untouched.     *)
LEMMA GotoTyped ==
  ASSUME HandlersOK, NEW h \in Handlers, NEW state \in HandlerStates,
         HandlerGoto(h, state), UNCHANGED localVars,
         body[h] \in Reading \/ state \in {"idle", "check"},
         at[h] \in 1 .. MaxTime \/ state \in {"idle", "check", "stamp"}
  PROVE  HandlersOK'
BY DEF HandlersOK, HandlerGoto, localVars

LEMMA SetGaugeTyped ==
  ASSUME gauge \in [Gauges -> Nat], NEW g \in Gauges, NEW v \in Nat,
         SetGauge(g, v)
  PROVE  gauge' \in [Gauges -> Nat]
BY DEF SetGauge

LEMMA AnswerTyped ==
  ASSUME HandlersOK, answered \in [Statuses -> Nat],
         NEW h \in Handlers, NEW status \in Statuses, Answer(h, status)
  PROVE  HandlersOK' /\ answered' \in [Statuses -> Nat]
<1> USE IngestorAssumption
    DEF IngestorAssumption, HandlersOK, Answer, HandlerGoto, HandlerStates
<1>1. answered' \in [Statuses -> Nat]
  OBVIOUS
<1>2. pc' \in [Handlers -> HandlerStates] /\ at' \in [Handlers -> 0 .. MaxTime]
  OBVIOUS
<1>3. body' \in [Handlers -> Body \cup {NoBody}]
  OBVIOUS
<1>4. snap' \in [Handlers -> [rows : Nat, last : 0 .. MaxTime]]
  OBVIOUS
<1>5. \A k \in Handlers :
         /\ pc'[k] \notin {"idle", "check"} => body'[k] \in Reading
         /\ pc'[k] \notin {"idle", "check", "stamp"} => at'[k] \in 1 .. MaxTime
  OBVIOUS
<1>6. QED
  BY <1>1, <1>2, <1>3, <1>4, <1>5

LEMMA DieTyped == TypeOK /\ Die => TypeOK'
<1> SUFFICES ASSUME TypeOK, Die PROVE TypeOK'
  OBVIOUS
<1> USE IngestorAssumption, TypeParts DEF IngestorAssumption, Die
<1>1. ProcessOK'
  BY DEF ProcessOK
<1>2. StoreOK'
  BY DEF StoreOK, NoGauges, NoCounts
<1>3. HandlersOK'
  BY DEF HandlersOK, AllIdle, NoBodies, NoStamps, NoSnaps, HandlerStates
<1>4. TypeOK' <=> ProcessOK' /\ StoreOK' /\ HandlersOK'
  BY DEF TypeOK, ProcessOK, StoreOK, HandlersOK
<1>5. QED
  BY <1>1, <1>2, <1>3, <1>4

LEMMA InitTyped == Init => TypeOK
<1> SUFFICES ASSUME Init PROVE TypeOK
  OBVIOUS
<1> USE IngestorAssumption DEF IngestorAssumption, Init
<1>a. 1 \in 1 .. MaxTime /\ 0 \in Nat
  OBVIOUS
<1>1. ProcessOK
  BY <1>a, Zenon DEF ProcessOK
<1>2. StoreOK
  BY DEF StoreOK, NoGauges, NoCounts
<1>3. HandlersOK
  BY DEF HandlersOK, AllIdle, NoBodies, NoStamps, NoSnaps, HandlerStates
<1>4. QED
  BY <1>1, <1>2, <1>3, TypeParts

\* The world and main, but for Die, leave the handlers alone.
LEMMA WorldAndMainTyped ==
  TypeOK /\ (World \/ Main) => TypeOK'
<1> SUFFICES ASSUME TypeOK, World \/ Main PROVE TypeOK'
  OBVIOUS
<1>a. ProcessOK /\ StoreOK /\ HandlersOK
  BY TypeParts
<1>b. ASSUME UNCHANGED <<pc, localVars>> PROVE HandlersOK'
  BY <1>a, <1>b DEF HandlersOK, localVars
<1>c. ASSUME UNCHANGED <<table, storeVars, lastStore, metricVars>> PROVE StoreOK'
  BY <1>a, <1>c DEF StoreOK, storeVars, metricVars
<1>d. ASSUME ProcessOK', StoreOK', HandlersOK' PROVE TypeOK'
  BY <1>d DEF TypeOK, ProcessOK, StoreOK, HandlersOK
<1> USE IngestorAssumption
    DEF IngestorAssumption, processVars
<1>1. CASE Tick
  <2>1. ProcessOK'
    BY <1>1, <1>a DEF Tick, ProcessOK
  <2>2. QED
    BY <1>1, <1>b, <1>c, <1>d, <2>1 DEF Tick
<1>2. CASE VolumeLost
  <2>1. ProcessOK'
    BY <1>2, <1>a DEF VolumeLost, ProcessOK
  <2>2. StoreOK'
    BY <1>2, <1>a DEF VolumeLost, StoreOK, storeVars, metricVars
  <2>3. QED
    BY <1>2, <1>b, <1>d, <2>1, <2>2 DEF VolumeLost
<1>3. CASE StopServing
  <2>1. ProcessOK'
    BY <1>3, <1>a DEF StopServing, ProcessOK
  <2>2. QED
    BY <1>3, <1>b, <1>c, <1>d, <2>1 DEF StopServing
<1>4. CASE Crash \/ Exit
  BY <1>4, DieTyped DEF Crash, Exit
<1>6. ASSUME NEW n \in {0, Len(table)}, StartWithStore(n) PROVE TypeOK'
  <2>1. Len(table) \in Nat /\ n \in Nat /\ n <= Len(table)
    BY <1>a DEF StoreOK
  <2>2. lastWrite \in Nat
    BY <1>a DEF StoreOK
  <2>3. gauge' \in [Gauges -> Nat]
    BY <1>6, <1>a, <2>1, <2>2 DEF StartWithStore, StoreOK
  <2>4. StoreOK'
    BY <1>6, <1>a, <2>1, <2>3 DEF StartWithStore, StoreOK
  <2>5. ProcessOK'
    BY <1>6, <1>a, <2>1 DEF StartWithStore, ProcessOK
  <2>6. QED
    BY <1>6, <1>b, <1>d, <2>4, <2>5 DEF StartWithStore
<1>7. CASE StartWithoutStore
  <2>1. Len(table) \in Nat
    BY <1>a DEF StoreOK
  <2>2. ProcessOK'
    BY <1>7, <1>a, <2>1 DEF StartWithoutStore, ProcessOK
  <2>3. QED
    BY <1>7, <1>b, <1>c, <1>d, <2>2 DEF StartWithoutStore
<1>8. CASE ShutdownReturns
  <2>1. ProcessOK'
    BY <1>8, <1>a DEF ShutdownReturns, ProcessOK, Idle
  <2>2. QED
    BY <1>8, <1>b, <1>c, <1>d, <2>1 DEF ShutdownReturns
<1>9. CASE CloseStore
  <2>1. ProcessOK'
    BY <1>9, <1>a DEF CloseStore, ProcessOK
  <2>2. QED
    BY <1>9, <1>b, <1>c, <1>d, <2>1 DEF CloseStore
<1>10. QED
  BY <1>1, <1>2, <1>3, <1>4, <1>6, <1>7, <1>8, <1>9 DEF World, Main

LEMMA HandlerTyped ==
  ASSUME TypeOK, NEW h \in Handlers,
         Handler(h) \/ \E b \in Body : Post(h, b)
  PROVE  TypeOK'
<1>a. ProcessOK /\ StoreOK /\ HandlersOK
  BY TypeParts
<1>b. ASSUME UNCHANGED <<processVars, now, posts>> PROVE ProcessOK'
  BY <1>a, <1>b DEF ProcessOK, processVars
<1>c. ASSUME UNCHANGED <<table, storeVars, lastStore, metricVars>> PROVE StoreOK'
  BY <1>a, <1>c DEF StoreOK, storeVars, metricVars
<1>d. ASSUME ProcessOK', StoreOK', HandlersOK' PROVE TypeOK'
  BY <1>d DEF TypeOK, ProcessOK, StoreOK, HandlersOK
<1>e. pc[h] \notin {"idle", "check"} => body[h] \in Reading
  BY <1>a DEF HandlersOK
<1>f. pc[h] \notin {"idle", "check", "stamp"} => at[h] \in 1 .. MaxTime
  BY <1>a DEF HandlersOK
<1>g. snap[h] \in [rows : Nat, last : 0 .. MaxTime]
  BY <1>a DEF HandlersOK
<1> USE DEF HandlerAt
<1>1. ASSUME NEW b \in Body, Post(h, b) PROVE TypeOK'
  <2>1. ProcessOK'
    BY <1>1, <1>a DEF Post, ProcessOK, processVars
  <2>2. HandlersOK'
    BY <1>1, <1>a DEF Post, HandlerGoto, HandlersOK, HandlerStates
  <2>3. QED
    BY <1>1, <1>c, <1>d, <2>1, <2>2 DEF Post
<1>2. CASE Check(h)
  <2>1. ASSUME NEW status \in Statuses, Answer(h, status),
               UNCHANGED <<processVars, now, table, storeVars, lastStore,
                           gauge, writeFail, posts>>
        PROVE  TypeOK'
    <3>1. HandlersOK' /\ answered' \in [Statuses -> Nat]
      BY <1>a, <2>1, AnswerTyped DEF StoreOK
    <3>2. StoreOK'
      BY <1>a, <2>1, <3>1 DEF StoreOK, storeVars
    <3>3. QED
      BY <1>b, <1>d, <2>1, <3>1, <3>2
  <2>2. ASSUME body[h].kind = "reading", HandlerGoto(h, "stamp"),
               UNCHANGED <<localVars, answered>>
        PROVE  TypeOK'
    <3>1. body[h] \in Reading
      BY <1>a, <2>2, KindOfReading DEF HandlersOK
    <3>2. HandlersOK'
      BY <1>a, <2>2, <3>1, GotoTyped DEF HandlerStates
    <3>3. QED
      BY <1>2, <1>b, <1>c, <1>d, <2>2, <3>2 DEF Check, metricVars
  <2>3. "400" \in Statuses /\ "422" \in Statuses
    BY DEF Statuses
  <2>4. QED
    BY <1>2, <2>1, <2>2, <2>3 DEF Check
<1>3. CASE Stamp(h)
  <2>1. at' = [at EXCEPT ![h] = now] /\ now \in 1 .. MaxTime
    BY <1>3, <1>a DEF Stamp, ProcessOK
  <2>2. HandlersOK'
    BY <1>3, <1>a, <1>e, <2>1
       DEF Stamp, HandlersOK, HandlerGoto, HandlerStates
  <2>3. QED
    BY <1>3, <1>b, <1>c, <1>d, <2>2 DEF Stamp
<1>4. CASE Insert(h)
  <2>1. body[h] \in Reading /\ at[h] \in 1 .. MaxTime
    BY <1>4, <1>e, <1>f DEF Insert
  <2>2. table' \in Seq(Row)
    <3> DEFINE row == [device |-> body[h].device, at |-> at[h]]
    <3>1. row \in Row
      BY <2>1, ReadingMakesRow
    <3>2. table' = table \/ table' = Append(table, row)
      BY <1>4 DEF Insert
    <3>3. table \in Seq(Row)
      BY <1>a DEF StoreOK
    <3> HIDE DEF row
    <3>4. QED
      BY <3>1, <3>2, <3>3
  <2>3. StoreOK'
    BY <1>4, <1>a, <2>2 DEF Insert, StoreOK, metricVars
  <2>4. HandlersOK'
    BY <1>4, <1>a, <2>1, GotoTyped DEF Insert, HandlerStates
  <2>5. QED
    BY <1>4, <1>b, <1>d, <2>3, <2>4 DEF Insert
<1>5. ASSUME pc[h] \notin {"idle", "check", "stamp"},
             NEW state \in HandlerStates, HandlerGoto(h, state),
             UNCHANGED localVars, UNCHANGED <<processVars, now, posts>>,
             StoreOK'
      PROVE  TypeOK'
  BY <1>5, <1>a, <1>b, <1>d, <1>e, <1>f, GotoTyped
<1>6. /\ "count" \in HandlerStates /\ "setLastWrite" \in HandlerStates
      /\ "setUp" \in HandlerStates /\ "loadRows" \in HandlerStates
      /\ "setLast" \in HandlerStates /\ "memory" \in HandlerStates
      /\ "telemetry" \in HandlerStates /\ "setDown" \in HandlerStates
  BY DEF HandlerStates
<1>7. /\ "up" \in Gauges /\ "rows" \in Gauges /\ "lastWrite" \in Gauges
      /\ "lastTelemetry" \in Gauges
  BY DEF Gauges
<1>8. snap[h].rows \in Nat /\ snap[h].last \in Nat
  BY <1>g
<1>9. ASSUME NEW g \in Gauges, NEW v \in Nat, SetGauge(g, v)
      PROVE  gauge' \in [Gauges -> Nat]
  BY <1>9, <1>a, SetGaugeTyped DEF StoreOK
<1>10. CASE CountFailure(h)
  <2>1. StoreOK'
    BY <1>10, <1>a DEF CountFailure, StoreOK, storeVars
  <2>2. QED
    BY <1>10, <1>5, <1>6, <2>1 DEF CountFailure
<1>20. CASE SetDown(h)
  <2>1. StoreOK'
    BY <1>20, <1>a, <1>7, <1>9 DEF SetDown, StoreOK, storeVars
  <2>2. QED
    BY <1>20, <1>5, <1>6, <2>1 DEF SetDown
<1>11. CASE CountRow(h)
  <2>1. StoreOK'
    BY <1>11, <1>a DEF CountRow, StoreOK, metricVars
  <2>2. QED
    BY <1>11, <1>5, <1>6, <2>1 DEF CountRow
<1>12. CASE SetLastWrite(h)
  <2>1. at[h] \in 0 .. MaxTime
    BY <1>a DEF HandlersOK
  <2>2. StoreOK'
    BY <1>12, <1>a, <2>1 DEF SetLastWrite, StoreOK, metricVars
  <2>3. QED
    BY <1>12, <1>5, <1>6, <2>2 DEF SetLastWrite
<1>13. CASE SetUp(h)
  <2>1. StoreOK'
    BY <1>13, <1>a, <1>7, <1>9 DEF SetUp, StoreOK, storeVars
  <2>2. QED
    BY <1>13, <1>5, <1>6, <2>1 DEF SetUp
<1>14. CASE LoadRows(h) \/ LoadLast(h)
  <2>1. snap' \in [Handlers -> [rows : Nat, last : 0 .. MaxTime]]
    BY <1>14, <1>a DEF LoadRows, LoadLast, HandlersOK, StoreOK
  <2>2. /\ pc[h] \notin {"idle", "check", "stamp"}
        /\ UNCHANGED <<body, at>>
        /\ HandlerGoto(h, "loadLast") \/ HandlerGoto(h, "setRows")
    BY <1>14 DEF LoadRows, LoadLast
  <2>3. HandlersOK'
    BY <1>a, <1>e, <1>f, <2>1, <2>2 DEF HandlersOK, HandlerGoto, HandlerStates
  <2>4. QED
    BY <1>14, <1>b, <1>c, <1>d, <2>3 DEF LoadRows, LoadLast
<1>15. CASE SetRows(h)
  <2>1. StoreOK'
    BY <1>15, <1>a, <1>7, <1>8, <1>9 DEF SetRows, StoreOK, storeVars
  <2>2. QED
    BY <1>15, <1>5, <1>6, <2>1 DEF SetRows
<1>16. CASE SetLast(h)
  <2>1. StoreOK'
    BY <1>16, <1>a, <1>7, <1>8, <1>9 DEF SetLast, StoreOK, storeVars
  <2>2. QED
    BY <1>16, <1>5, <1>6, <2>1 DEF SetLast
<1>17. CASE SetMemory(h)
  <2>1. body[h] \in Reading /\ at[h] \in 1 .. MaxTime
    BY <1>17, <1>e, <1>f DEF SetMemory
  <2>2. StoreOK'
    BY <1>17, <1>a, <2>1, ReadingMakesRow
       DEF SetMemory, StoreOK, storeVars, metricVars
  <2>3. QED
    BY <1>17, <1>5, <1>6, <2>2 DEF SetMemory
<1>18. CASE Accept(h)
  <2>1. at[h] \in Nat /\ "202" \in Statuses
    BY <1>a DEF HandlersOK, Statuses
  <2>2. HandlersOK' /\ answered' \in [Statuses -> Nat]
    BY <1>18, <1>a, <2>1, AnswerTyped DEF Accept, StoreOK
  <2>3. StoreOK'
    BY <1>18, <1>a, <1>7, <1>9, <2>1, <2>2 DEF Accept, StoreOK, storeVars
  <2>4. QED
    BY <1>18, <1>b, <1>d, <2>2, <2>3 DEF Accept
<1>19. QED
  BY <1>1, <1>2, <1>3, <1>4, <1>10, <1>11, <1>12, <1>13, <1>14, <1>15, <1>16,
     <1>17, <1>18, <1>20 DEF Handler

\* The type invariant holds in every reachable state: whatever the handlers
\* and the database do, only valid readings become rows.
THEOREM TypeCorrect == Spec => []TypeOK
<1>1. TypeOK /\ [Next]_vars => TypeOK'
  <2> SUFFICES ASSUME TypeOK, [Next]_vars PROVE TypeOK'
    OBVIOUS
  <2>1. CASE UNCHANGED vars
    BY <2>1 DEF vars, TypeOK, processVars, storeVars, metricVars, localVars
  <2>2. CASE Next
    BY <2>2, WorldAndMainTyped, HandlerTyped DEF Next
  <2>3. QED
    BY <2>1, <2>2
<1>2. QED
  BY <1>1, InitTyped, PTL DEF Spec

-----------------------------------------------------------------------------
(* Moving one handler in or out of a set of states.                        *)

LEMMA InStateFinite ==
  ASSUME NEW states
  PROVE  IsFiniteSet(InState(states)) /\ Cardinality(InState(states)) \in Nat
<1>1. InState(states) \subseteq Handlers
  BY DEF InState
<1>2. IsFiniteSet(InState(states))
  BY <1>1, IngestorAssumption, FS_Subset DEF IngestorAssumption
<1>3. QED
  BY <1>2, FS_CardinalityType

One(condition) == IF condition THEN 1 ELSE 0

LEMMA HandlerMoves ==
  ASSUME pc \in [Handlers -> HandlerStates], NEW h \in Handlers, NEW s,
         HandlerGoto(h, s), NEW states
  PROVE  Cardinality(InState(states)') =
             Cardinality(InState(states))
                 + One(s \in states) - One(pc[h] \in states)
<1> USE DEF HandlerGoto, One
<1>a. Cardinality(InState(states)) \in Nat
  BY InStateFinite
<1>1. CASE s \in states <=> pc[h] \in states
  <2>1. InState(states)' = InState(states)
    BY <1>1 DEF InState
  <2>2. QED
    BY <1>1, <1>a, <2>1
<1>2. CASE pc[h] \notin states /\ s \in states
  <2>1. InState(states)' = InState(states) \cup {h} /\ h \notin InState(states)
    BY <1>2 DEF InState
  <2>2. Cardinality(InState(states)') = Cardinality(InState(states)) + 1
    BY <2>1, InStateFinite, FS_AddElement
  <2>3. QED
    BY <1>2, <1>a, <2>2
<1>3. CASE pc[h] \in states /\ s \notin states
  <2>1. InState(states)' = InState(states) \ {h} /\ h \in InState(states)
    BY <1>3 DEF InState
  <2>2. Cardinality(InState(states)') = Cardinality(InState(states)) - 1
    BY <2>1, InStateFinite, FS_RemoveElement
  <2>3. QED
    BY <1>3, <1>a, <2>2
<1>4. QED
  BY <1>1, <1>2, <1>3

-----------------------------------------------------------------------------
(* The life of the process.  A process that is down has no store, handler  *)
(* or count; without a store nothing is counted and no handler is in the   *)
(* states of the insert; the store closes last, and after the handlers     *)
(* unless Shutdown timed out.                                              *)

NoStoreStates == {"idle", "check", "stamp", "memory", "telemetry"}

LifeInv ==
  /\ main = "down" => /\ store = "nil" /\ Idle
                      /\ writeFail = 0 /\ answered["202"] = 0
  /\ store = "nil" => /\ rowCount = 0
                      /\ \A h \in Handlers : /\ snap[h].rows = 0
                                             /\ pc[h] \in NoStoreStates
  /\ store = "closed" => main = "exiting"
  /\ main \in {"closing", "exiting"} /\ ~timedOut => Idle

LEMMA DieClears ==
  ASSUME TypeOK, Die
  PROVE  LifeInv' /\ rowCount' = 0 /\ gauge'["rows"] = 0 /\ Alive' = FALSE
                  /\ \A h \in Handlers : snap'[h].rows = 0
BY DEF Die, LifeInv, Idle, Alive, AllIdle, NoCounts, NoGauges, NoSnaps,
       Statuses, Gauges, NoStoreStates

LEMMA HandlerLife ==
  ASSUME TypeOK, LifeInv, NEW h \in Handlers, Handler(h)
  PROVE  LifeInv'
<1>1. pc[h] # "idle" /\ Alive /\ UNCHANGED processVars
  BY DEF Handler, HandlerAt, Check, Stamp, Insert, CountFailure, SetDown,
         CountRow, SetLastWrite, SetUp, LoadRows, LoadLast, SetRows, SetLast,
         SetMemory, Accept
<1>2. ~Idle /\ main # "down"
  BY <1>1 DEF Idle, Alive
<1>3. ASSUME store = "nil"
      PROVE  rowCount' = 0 /\ \A k \in Handlers : /\ snap'[k].rows = 0
                                                  /\ pc'[k] \in NoStoreStates
  <2>1. pc[h] \in NoStoreStates /\ rowCount = 0
    BY <1>3 DEF LifeInv
  <2>2. Check(h) \/ Stamp(h) \/ SetMemory(h) \/ Accept(h)
    BY <2>1 DEF NoStoreStates, Handler, HandlerAt, Insert, CountFailure,
                SetDown, CountRow, SetLastWrite, SetUp, LoadRows, LoadLast,
                SetRows, SetLast
  <2>3. /\ rowCount' = 0
        /\ \/ pc' = [pc EXCEPT ![h] = "idle"] /\ \E status : Answer(h, status)
           \/ /\ \E s \in NoStoreStates : pc' = [pc EXCEPT ![h] = s]
              /\ UNCHANGED snap
    BY <1>3, <2>1, <2>2
       DEF Check, Stamp, SetMemory, Accept, Answer, HandlerGoto, storeVars,
           localVars, NoStoreStates
  <2>4. snap \in [Handlers -> [rows : Nat, last : 0 .. MaxTime]]
    BY DEF TypeOK
  <2>5. \A k \in Handlers : snap'[k].rows = 0
    BY <1>3, <2>3, <2>4 DEF LifeInv, Answer
  <2>6. \A k \in Handlers : pc'[k] \in NoStoreStates
    BY <1>3, <2>3 DEF LifeInv, NoStoreStates, TypeOK
  <2>7. QED
    BY <2>3, <2>5, <2>6
<1>4. QED
  BY <1>1, <1>2, <1>3 DEF LifeInv, processVars

THEOREM ProcessLife == Spec => []LifeInv
<1>1. Init => LifeInv
  BY DEF Init, LifeInv, Idle, AllIdle, NoCounts, NoSnaps, Statuses,
         NoStoreStates
<1>2. TypeOK /\ LifeInv /\ [Next]_vars => LifeInv'
  <2> SUFFICES ASSUME TypeOK, LifeInv, [Next]_vars PROVE LifeInv'
    OBVIOUS
  <2> USE DEF LifeInv, Idle, processVars, storeVars, metricVars, localVars
  <2>1. CASE UNCHANGED vars
    BY <2>1 DEF vars
  <2>2. CASE Crash \/ Exit
    BY <2>2, DieClears DEF Crash, Exit
  <2>3. CASE Tick \/ VolumeLost
    BY <2>3 DEF Tick, VolumeLost
  <2>4. CASE StopServing
    BY <2>4 DEF StopServing
  <2>5. ASSUME NEW n \in {0, Len(table)}, StartWithStore(n) PROVE LifeInv'
    BY <2>5 DEF StartWithStore
  <2>6. CASE StartWithoutStore
    BY <2>6 DEF StartWithoutStore
  <2>7. CASE ShutdownReturns
    BY <2>7 DEF ShutdownReturns
  <2>8. CASE CloseStore
    BY <2>8 DEF CloseStore
  <2>9. ASSUME NEW h \in Handlers, Handler(h) PROVE LifeInv'
    BY <2>9, HandlerLife
  <2>10. ASSUME NEW h \in Handlers, NEW b \in Body, Post(h, b) PROVE LifeInv'
    BY <2>10 DEF Post, HandlerGoto, TypeOK, NoStoreStates
  <2>11. QED
    BY <2>1, <2>2, <2>3, <2>4, <2>5, <2>6, <2>7, <2>8, <2>9, <2>10
       DEF Next, World, Main
<1>3. QED
  BY <1>1, <1>2, TypeCorrect, PTL DEF Spec

\* The store is closed under no handler, unless Shutdown timed out.
THEOREM StoreClosedLast == Spec => []CloseAfterDrain
<1>1. LifeInv => CloseAfterDrain
  BY DEF LifeInv, CloseAfterDrain
<1>2. QED
  BY <1>1, ProcessLife, PTL

-----------------------------------------------------------------------------
(* The accounts of rows and of requests rest on what a step of a handler   *)
(* does to the table, to the counters and to its own state.                *)

DecidedStates == InsertedStates \cup {"setDown", "memory", "telemetry"}

\* One row more in the table for a handler that goes to "count", one row
\* counted for one that leaves it; one failure counted for one that leaves
\* "failed"; one 202 for one that leaves "telemetry".
Account(h, s) ==
  /\ HandlerGoto(h, s)
  /\ UNCHANGED <<store, base, missed>>
  /\ Len(table') = Len(table) + One(s = "count")
  /\ rowCount' = rowCount + One(pc[h] = "count")
  /\ writeFail' = writeFail + One(pc[h] = "failed")
  /\ answered'["202"] = answered["202"] + One(pc[h] = "telemetry")
  /\ s = "count" => pc[h] = "insert"
  /\ s \in DecidedStates =>
         pc[h] \in DecidedStates \cup {"insert", "failed"} \/ store = "nil"
  /\ pc[h] \in DecidedStates /\ s \notin DecidedStates => pc[h] = "telemetry"
  /\ pc[h] = "telemetry" => s = "idle"
  /\ pc[h] = "failed" => s = "setDown"
  /\ pc[h] = "insert" /\ s \in DecidedStates => s = "count"

LEMMA HandlerAccount ==
  ASSUME TypeOK, NEW h \in Handlers,
         Handler(h) \/ \E b \in Body : Post(h, b)
  PROVE  \E s \in HandlerStates : Account(h, s)
<1>a. /\ rowCount \in Nat /\ writeFail \in Nat /\ answered["202"] \in Nat
      /\ Len(table) \in Nat /\ answered \in [Statuses -> Nat]
      /\ table \in Seq(Row)
  BY DEF TypeOK, Statuses
<1> USE <1>a DEF HandlerAt, processVars, storeVars, metricVars, Account, One,
            DecidedStates, InsertedStates
<1>1. ASSUME NEW b \in Body, Post(h, b) PROVE Account(h, "check")
  BY <1>1 DEF Post
<1>2. CASE Check(h)
  <2>1. ASSUME NEW status \in {"400", "422"}, Answer(h, status)
        PROVE  Account(h, "idle")
    BY <1>2, <2>1 DEF Check, Answer, Statuses
  <2>2. ASSUME HandlerGoto(h, "stamp"), UNCHANGED answered
        PROVE  Account(h, "stamp")
    BY <1>2, <2>2 DEF Check
  <2>3. QED
    BY <1>2, <2>1, <2>2 DEF Check, HandlerStates
<1>3. CASE Stamp(h)
  <2>1. Account(h, IF store = "nil" THEN "memory" ELSE "insert")
    BY <1>3 DEF Stamp
  <2>2. QED
    BY <2>1 DEF HandlerStates
<1>4. CASE Insert(h)
  <2>1. ASSUME Len(table') = Len(table) + 1, HandlerGoto(h, "count")
        PROVE  Account(h, "count")
    BY <1>4, <2>1 DEF Insert
  <2>2. ASSUME UNCHANGED table, HandlerGoto(h, "failed")
        PROVE  Account(h, "failed")
    BY <1>4, <2>2 DEF Insert
  <2>3. \/ Len(table') = Len(table) + 1 /\ HandlerGoto(h, "count")
        \/ UNCHANGED table /\ HandlerGoto(h, "failed")
    BY <1>4 DEF Insert
  <2>4. QED
    BY <2>1, <2>2, <2>3 DEF HandlerStates
<1>5. ASSUME CountFailure(h) PROVE Account(h, "setDown")
  BY <1>5 DEF CountFailure
<1>16. ASSUME SetDown(h) PROVE Account(h, "memory")
  BY <1>16 DEF SetDown
<1>6. ASSUME CountRow(h) PROVE Account(h, "setLastWrite")
  BY <1>6 DEF CountRow
<1>7. ASSUME SetLastWrite(h) PROVE Account(h, "setUp")
  BY <1>7 DEF SetLastWrite
<1>8. ASSUME SetUp(h) PROVE Account(h, "loadRows")
  BY <1>8 DEF SetUp
<1>9. ASSUME LoadRows(h) PROVE Account(h, "loadLast")
  BY <1>9 DEF LoadRows
<1>10. ASSUME LoadLast(h) PROVE Account(h, "setRows")
  BY <1>10 DEF LoadLast
<1>11. ASSUME SetRows(h) PROVE Account(h, "setLast")
  BY <1>11 DEF SetRows
<1>12. ASSUME SetLast(h) PROVE Account(h, "memory")
  BY <1>12 DEF SetLast
<1>13. ASSUME SetMemory(h) PROVE Account(h, "telemetry")
  BY <1>13 DEF SetMemory
<1>14. ASSUME Accept(h) PROVE Account(h, "idle")
  BY <1>14 DEF Accept, Answer, Statuses
<1> HIDE DEF Account
<1>15. QED
  BY <1>1, <1>2, <1>3, <1>4, <1>5, <1>6, <1>7, <1>8, <1>9, <1>10, <1>11,
     <1>12, <1>13, <1>14, <1>16 DEF Handler, HandlerStates

LEMMA AccountTypes ==
  ASSUME TypeOK
  PROVE  /\ Len(table) \in Nat /\ rowCount \in Nat /\ writeFail \in Nat
         /\ answered["202"] \in Nat /\ base \in Nat /\ missed \in Nat
         /\ pc \in [Handlers -> HandlerStates]
BY DEF TypeOK, Statuses

LEMMA HandlerKeepsRowCount ==
  ASSUME TypeOK, RowCountExact, NEW h \in Handlers, NEW s \in HandlerStates,
         Account(h, s)
  PROVE  RowCountExact'
<1>1. SUFFICES ASSUME store' # "nil"
               PROVE  Len(table') = missed' + rowCount'
                                      + Cardinality(InState({"count"})')
  BY DEF RowCountExact
<1>2. Len(table) = missed + rowCount + Cardinality(InState({"count"}))
  BY <1>1 DEF RowCountExact, Account
<1>3. Cardinality(InState({"count"})') =
        Cardinality(InState({"count"})) + One(s = "count") - One(pc[h] = "count")
  <2>1. Cardinality(InState({"count"})') =
          Cardinality(InState({"count"}))
            + One(s \in {"count"}) - One(pc[h] \in {"count"})
    BY AccountTypes, HandlerMoves DEF Account
  <2>2. QED
    BY <2>1 DEF One
<1>4. Cardinality(InState({"count"})) \in Nat
  BY InStateFinite
<1>5. One(s = "count") \in Nat /\ One(pc[h] = "count") \in Nat
  BY DEF One
<1>6. /\ Len(table') = Len(table) + One(s = "count") /\ missed' = missed
      /\ rowCount' = rowCount + One(pc[h] = "count")
      /\ Len(table) \in Nat /\ rowCount \in Nat /\ missed \in Nat
  BY AccountTypes DEF Account
<1> DEFINE c == Cardinality(InState({"count"}))
           in == One(s = "count")
           out == One(pc[h] = "count")
<1>7. /\ c \in Nat /\ in \in Nat /\ out \in Nat
      /\ Cardinality(InState({"count"})') = c + in - out
      /\ Len(table) = missed + rowCount + c
      /\ Len(table') = Len(table) + in
      /\ rowCount' = rowCount + out
  BY <1>2, <1>3, <1>4, <1>5, <1>6
<1> HIDE DEF c, in, out
<1>8. Len(table') = missed + rowCount' + Cardinality(InState({"count"})')
  BY <1>6, <1>7
<1>9. QED
  BY <1>6, <1>8

(* What a step means for the readings that are decided: a row, a failure,  *)
(* or an acceptance of one that was pending, or nothing.                   *)
Decides(row, lost, done) ==
  /\ Len(table') = Len(table) + row
  /\ writeFail' = writeFail + lost
  /\ answered'["202"] = answered["202"] + done
  /\ Cardinality(Decided') = Cardinality(Decided) + row + lost - done

LEMMA HandlerDecides ==
  ASSUME TypeOK, store # "nil", NEW h \in Handlers, NEW s \in HandlerStates,
         Account(h, s)
  PROVE  \/ Decides(1, 0, 0)
         \/ Decides(0, 1, 0)
         \/ Decides(0, 0, 1) /\ Cardinality(Decided) > 0
         \/ Decides(0, 0, 0)
<1> DEFINE c == Cardinality(Decided)
<1>1. Decided = InState(DecidedStates) /\ Decided' = InState(DecidedStates)'
  BY DEF Decided, DecidedStates
<1>2. Cardinality(Decided') =
          c + One(s \in DecidedStates) - One(pc[h] \in DecidedStates)
  BY <1>1, AccountTypes, HandlerMoves DEF Account
<1>3. /\ c \in Nat /\ Len(table) \in Nat /\ writeFail \in Nat
      /\ answered["202"] \in Nat
  BY <1>1, AccountTypes, InStateFinite
<1>4. /\ Len(table') = Len(table) + One(s = "count")
      /\ writeFail' = writeFail + One(pc[h] = "failed")
      /\ answered'["202"] = answered["202"] + One(pc[h] = "telemetry")
  BY DEF Account
<1>5. pc[h] \in DecidedStates => c > 0
  <2> SUFFICES ASSUME pc[h] \in DecidedStates PROVE c > 0
    OBVIOUS
  <2>1. h \in Decided
    BY <1>1 DEF InState
  <2>2. IsFiniteSet(Decided)
    BY <1>1, InStateFinite
  <2>3. QED
    BY <1>3, <2>1, <2>2, FS_EmptySet
<1> HIDE DEF c
<1>6. CASE s = "count"
  <2>1. Decides(1, 0, 0)
    BY <1>2, <1>3, <1>4, <1>6
       DEF Account, DecidedStates, InsertedStates, One, Decides, c
  <2>2. QED
    BY <2>1
<1>7. CASE pc[h] = "failed"
  <2>1. Decides(0, 1, 0)
    BY <1>2, <1>3, <1>4, <1>7
       DEF Account, DecidedStates, InsertedStates, One, Decides, c
  <2>2. QED
    BY <2>1
<1>8. CASE pc[h] = "telemetry"
  <2>1. Decides(0, 0, 1) /\ Cardinality(Decided) > 0
    BY <1>2, <1>3, <1>4, <1>5, <1>8
       DEF Account, DecidedStates, InsertedStates, One, Decides, c
  <2>2. QED
    BY <2>1
<1>9. CASE s # "count" /\ pc[h] \notin {"failed", "telemetry"}
  <2>1. s \in DecidedStates <=> pc[h] \in DecidedStates
    BY <1>9 DEF Account, DecidedStates, InsertedStates
  <2>2. Decides(0, 0, 0)
    BY <1>2, <1>3, <1>4, <1>9, <2>1 DEF One, Decides, c
  <2>3. QED
    BY <2>2
<1>10. QED
  BY <1>6, <1>7, <1>8, <1>9

LEMMA HandlerKeepsAccepted ==
  ASSUME TypeOK, AcceptedAccounted, NEW h \in Handlers,
         NEW s \in HandlerStates, Account(h, s)
  PROVE  AcceptedAccounted'
<1>1. SUFFICES ASSUME store # "nil"
               PROVE  answered'["202"] + Cardinality(Decided') =
                          Len(table') - base' + writeFail'
  BY DEF AcceptedAccounted, Account
<1>2. /\ answered["202"] + Cardinality(Decided) = Len(table) - base + writeFail
      /\ base' = base
  BY <1>1 DEF AcceptedAccounted, Account
<1>3. /\ Len(table) \in Nat /\ writeFail \in Nat /\ base \in Nat
      /\ answered["202"] \in Nat /\ Cardinality(Decided) \in Nat
  BY AccountTypes, InStateFinite DEF Decided
<1>4. QED
  <2>1. \E row \in {0, 1}, lost \in {0, 1}, done \in {0, 1} :
            Decides(row, lost, done)
    BY <1>1, HandlerDecides
  <2>2. QED
    BY <1>2, <1>3, <2>1 DEF Decides

LEMMA WorldAndMainKeepAccounts ==
  ASSUME TypeOK, LifeInv, RowCountExact, AcceptedAccounted, World \/ Main
  PROVE  RowCountExact' /\ AcceptedAccounted'
<1>1. ASSUME UNCHANGED <<store, base, missed, rowCount, writeFail, answered, pc>>,
             store # "nil" => UNCHANGED table
      PROVE  RowCountExact' /\ AcceptedAccounted'
  BY <1>1 DEF RowCountExact, AcceptedAccounted, Decided, InState
<1>2. ASSUME store' = "nil" PROVE RowCountExact' /\ AcceptedAccounted'
  BY <1>2 DEF RowCountExact, AcceptedAccounted
<1> USE DEF processVars, storeVars, metricVars
<1>3. CASE Tick \/ StopServing \/ ShutdownReturns
  BY <1>1, <1>3 DEF Tick, StopServing, ShutdownReturns
<1>4. CASE VolumeLost \/ StartWithoutStore
  <2>1. store' = "nil"
    BY <1>4 DEF VolumeLost, StartWithoutStore, LifeInv
  <2>2. QED
    BY <1>2, <2>1
<1>5. CASE Crash \/ Exit
  BY <1>2, <1>5 DEF Crash, Exit, Die
<1>6. CASE CloseStore
  <2>1. CASE store = "nil"
    BY <1>2, <1>6, <2>1 DEF CloseStore
  <2>2. CASE store # "nil"
    <3>1. store' # "nil" /\ UNCHANGED <<base, missed, rowCount, writeFail,
                                        answered, pc, table>>
      BY <1>6, <2>2 DEF CloseStore
    <3>2. QED
      BY <2>2, <3>1 DEF RowCountExact, AcceptedAccounted, Decided, InState
  <2>3. QED
    BY <2>1, <2>2
<1>7. ASSUME NEW n \in {0, Len(table)}, StartWithStore(n)
      PROVE  RowCountExact' /\ AcceptedAccounted'
  <2>1. /\ Idle' /\ table' = table /\ rowCount' = n
        /\ base' = Len(table) /\ missed' = Len(table) - n
        /\ writeFail' = 0 /\ answered'["202"] = 0
    BY <1>7 DEF StartWithStore, LifeInv, Idle
  <2>2. /\ Cardinality(InState({"count"})') = 0
        /\ Cardinality(InState(DecidedStates)') = 0
    <3>1. "idle" \notin {"count"} /\ "idle" \notin DecidedStates
      BY DEF DecidedStates, InsertedStates
    <3>2. InState({"count"})' = {} /\ InState(DecidedStates)' = {}
      BY <2>1, <3>1 DEF Idle, InState
    <3>3. QED
      BY <3>2, FS_EmptySet
  <2>3. Len(table) \in Nat /\ n \in Nat
    BY AccountTypes
  <2>4. RowCountExact'
    BY <2>1, <2>2, <2>3 DEF RowCountExact
  <2>5. AcceptedAccounted'
    BY <2>1, <2>2, <2>3 DEF AcceptedAccounted, Decided, DecidedStates
  <2>6. QED
    BY <2>4, <2>5
<1>8. QED
  BY <1>3, <1>4, <1>5, <1>6, <1>7 DEF World, Main

\* Both accounts hold in every reachable state, for any handlers.
THEOREM AccountsBalance == Spec => [](RowCountExact /\ AcceptedAccounted)
<1>1. Init => RowCountExact /\ AcceptedAccounted
  BY DEF Init, RowCountExact, AcceptedAccounted
<1>2. TypeOK /\ LifeInv /\ RowCountExact /\ AcceptedAccounted /\ [Next]_vars
        => RowCountExact' /\ AcceptedAccounted'
  <2> SUFFICES ASSUME TypeOK, LifeInv, RowCountExact, AcceptedAccounted,
                      [Next]_vars
               PROVE  RowCountExact' /\ AcceptedAccounted'
    OBVIOUS
  <2>1. CASE UNCHANGED vars
    BY <2>1 DEF vars, RowCountExact, AcceptedAccounted, Decided, InState,
                processVars, storeVars, metricVars
  <2>2. CASE World \/ Main
    BY <2>2, WorldAndMainKeepAccounts
  <2>3. ASSUME NEW h \in Handlers, Handler(h) \/ \E b \in Body : Post(h, b)
        PROVE  RowCountExact' /\ AcceptedAccounted'
    BY <2>3, HandlerAccount, HandlerKeepsRowCount, HandlerKeepsAccepted
  <2>4. QED
    BY <2>1, <2>2, <2>3 DEF Next
<1>3. QED
  BY <1>1, <1>2, TypeCorrect, ProcessLife, PTL DEF Spec

\* With a store every 202 is a row or a failure counted.
THEOREM AcceptedIsAccounted == Spec => []AcceptedAccounted
BY AccountsBalance, PTL

\* The counter of rows is exact up to outstanding increments and to a COUNT
\* that failed at startup.
THEOREM RowCountIsExact == Spec => []RowCountExact
BY AccountsBalance, PTL

-----------------------------------------------------------------------------
(* The ingestor keeps the account of StoreLedger.                          *)

(* A handler leaves the table, or adds a row at its end.                   *)
LEMMA HandlerGrowsTable ==
  ASSUME TypeOK, NEW h \in Handlers,
         Handler(h) \/ \E b \in Body : Post(h, b)
  PROVE  table' = table \/ \E row \in Row : table' = Append(table, row)
<1>1. CASE Insert(h)
  <2>1. pc[h] = "insert"
    BY <1>1 DEF Insert, HandlerAt
  <2>2. [device |-> body[h].device, at |-> at[h]] \in Row
    BY <2>1, ReadingMakesRow DEF TypeOK
  <2>3. \/ table' = table
        \/ table' = Append(table, [device |-> body[h].device, at |-> at[h]])
    BY <1>1 DEF Insert
  <2>4. QED
    BY <2>2, <2>3
<1>2. CASE ~Insert(h)
  BY <1>2
     DEF Handler, Check, Stamp, CountFailure, SetDown, CountRow, SetLastWrite,
         SetUp, LoadRows, LoadLast, SetRows, SetLast, SetMemory, Accept, Post,
         storeVars
<1>3. QED
  BY <1>1, <1>2

LEMMA HandlerLedger ==
  ASSUME TypeOK, LifeInv, NEW h \in Handlers,
         Handler(h) \/ \E b \in Body : Post(h, b)
  PROVE  [Ledger!Next]_(Ledger!ledgerVars)
<1> USE DEF Ledger!Next, Ledger!ledgerVars, IfStore
<1>1. PICK s \in HandlerStates : Account(h, s)
  BY HandlerAccount
<1>2. store' = store
  BY <1>1 DEF Account
<1>3. table' = table \/ \E row \in Row : table' = Append(table, row)
  BY HandlerGrowsTable
<1>4. table \in Seq(Row) /\ Len(table) \in Nat
  BY DEF TypeOK
<1>5. CASE store = "nil"
  <2>1. s # "count"
    BY <1>1, <1>5 DEF Account, LifeInv, NoStoreStates
  <2>2. Len(table') = Len(table)
    BY <1>1, <1>4, <2>1 DEF Account, One
  <2>3. table' = table
    BY <1>3, <1>4, <2>2
  <2>4. QED
    BY <1>2, <1>5, <2>3
<1>6. CASE store # "nil"
  <2>1. /\ writeFail \in Nat /\ answered["202"] \in Nat
        /\ Cardinality(Decided) \in Nat
    BY AccountTypes, InStateFinite DEF Decided
  <2>2. Len(table') = Len(table) => table' = table
    BY <1>3, <1>4
  <2>3. Len(table') = Len(table) + 1
            => \E row \in Row : table' = Append(table, row)
    BY <1>3, <1>4
  <2>4. CASE Decides(1, 0, 0)
    <3>1. \E row \in Row : Ledger!Store(row)
      BY <1>2, <1>6, <2>1, <2>3, <2>4 DEF Decides, Ledger!Store
    <3>2. QED
      BY <3>1
  <2>5. CASE Decides(0, 1, 0)
    <3>1. Ledger!Fail
      BY <1>2, <1>4, <1>6, <2>1, <2>2, <2>5 DEF Decides, Ledger!Fail
    <3>2. QED
      BY <3>1
  <2>6. CASE Decides(0, 0, 1) /\ Cardinality(Decided) > 0
    <3>1. Ledger!Accept
      BY <1>2, <1>4, <1>6, <2>1, <2>2, <2>6 DEF Decides, Ledger!Accept
    <3>2. QED
      BY <3>1
  <2>7. CASE Decides(0, 0, 0)
    BY <1>2, <1>4, <1>6, <2>1, <2>2, <2>7 DEF Decides
  <2>8. QED
    BY <1>1, <1>6, <2>4, <2>5, <2>6, <2>7, HandlerDecides
<1>7. QED
  BY <1>5, <1>6

LEMMA WorldAndMainLedger ==
  ASSUME TypeOK, LifeInv, World \/ Main
  PROVE  [Ledger!Next]_(Ledger!ledgerVars)
<1> USE DEF Ledger!Next, Ledger!ledgerVars, IfStore, processVars, storeVars,
            metricVars
<1>1. ASSUME UNCHANGED <<table, writeFail, answered, pc>>,
             store' = "nil" <=> store = "nil"
      PROVE  UNCHANGED Ledger!ledgerVars
  BY <1>1 DEF Decided, InState
<1>2. CASE Tick \/ StopServing \/ ShutdownReturns
  BY <1>1, <1>2 DEF Tick, StopServing, ShutdownReturns
<1>3. CASE CloseStore \/ StartWithoutStore
  BY <1>1, <1>3 DEF CloseStore, StartWithoutStore
<1>4. CASE VolumeLost
  <2>1. store = "nil" /\ store' = "nil" /\ table' = <<>>
    BY <1>4 DEF VolumeLost, LifeInv
  <2>2. Ledger!LoseVolume
    BY <2>1 DEF Ledger!LoseVolume
  <2>3. QED
    BY <2>2
<1>5. CASE Crash \/ Exit
  <2>1. store' = "nil" /\ table' = table
    BY <1>5 DEF Crash, Exit, Die
  <2>2. CASE store = "nil"
    BY <2>1, <2>2
  <2>3. CASE store # "nil"
    <3>1. Ledger!Detach
      BY <2>1, <2>3 DEF Ledger!Detach
    <3>2. QED
      BY <3>1
  <2>4. QED
    BY <2>2, <2>3
<1>6. ASSUME NEW n \in {0, Len(table)}, StartWithStore(n)
      PROVE  Ledger!Attach
  <2>1. /\ store = "nil" /\ store' # "nil" /\ table' = table
        /\ Idle' /\ writeFail' = 0 /\ answered'["202"] = 0
    BY <1>6 DEF StartWithStore, LifeInv, Idle
  <2>2. Cardinality(Decided') = 0
    <3>1. Decided' = {}
      BY <2>1 DEF Idle, Decided, InState, InsertedStates
    <3>2. QED
      BY <3>1, FS_EmptySet
  <2>3. QED
    BY <2>1, <2>2 DEF Ledger!Attach
<1>7. QED
  BY <1>2, <1>3, <1>4, <1>5, <1>6 DEF World, Main

\* The ingestor implements StoreLedger: with a store every reading becomes a
\* row at the end of the table or a counted failure before it is accepted, and
\* what is in the table stays there, whatever crashes and however it restarts.
THEOREM IngestorImplementsLedger == Spec => ImplementsStoreLedger
<1>1. Init => Ledger!Init
  BY DEF Init, Ledger!Init, IfStore
<1>2. TypeOK /\ LifeInv /\ [Next]_vars => [Ledger!Next]_(Ledger!ledgerVars)
  <2> SUFFICES ASSUME TypeOK, LifeInv, [Next]_vars
               PROVE  [Ledger!Next]_(Ledger!ledgerVars)
    OBVIOUS
  <2>1. CASE UNCHANGED vars
    BY <2>1 DEF vars, Ledger!ledgerVars, IfStore, Decided, InState,
                processVars, metricVars, InsertedStates
  <2>2. CASE Next
    BY <2>2, WorldAndMainLedger, HandlerLedger DEF Next
  <2>3. QED
    BY <2>1, <2>2
<1>3. QED
  BY <1>1, <1>2, TypeCorrect, ProcessLife, PTL
     DEF Spec, ImplementsStoreLedger, Ledger!Spec

-----------------------------------------------------------------------------
(* The gauge and the snapshots follow the counter, which in one life of    *)
(* the process only grows.                                                 *)

RowsInv ==
  /\ gauge["rows"] <= rowCount
  /\ \A h \in Handlers : snap[h].rows <= rowCount

LEMMA RowsTypes ==
  ASSUME TypeOK
  PROVE  /\ rowCount \in Nat /\ gauge \in [Gauges -> Nat]
         /\ gauge["rows"] \in Nat
         /\ snap \in [Handlers -> [rows : Nat, last : 0 .. MaxTime]]
         /\ \A h \in Handlers : snap[h].rows \in Nat
BY DEF TypeOK, Gauges

LEMMA HandlerKeepsRows ==
  ASSUME TypeOK, RowsInv, NEW h \in Handlers,
         Handler(h) \/ \E b \in Body : Post(h, b)
  PROVE  RowsInv'
<1> USE RowsTypes DEF HandlerAt, storeVars, metricVars, localVars
<1>1. ASSUME UNCHANGED <<rowCount, snap>>, gauge'["rows"] = gauge["rows"]
      PROVE  RowsInv'
  BY <1>1 DEF RowsInv
<1>2. ASSUME NEW g \in Gauges \ {"rows"}, NEW v, SetGauge(g, v)
      PROVE  gauge'["rows"] = gauge["rows"]
  BY <1>2 DEF SetGauge, Gauges
<1>3. ASSUME NEW status, Answer(h, status), rowCount' = rowCount,
             gauge'["rows"] = gauge["rows"]
      PROVE  RowsInv'
  BY <1>3 DEF Answer, RowsInv
<1>4. /\ "up" \in Gauges \ {"rows"} /\ "lastWrite" \in Gauges \ {"rows"}
      /\ "lastTelemetry" \in Gauges \ {"rows"}
  BY DEF Gauges
<1>5. CASE Stamp(h) \/ Insert(h) \/ SetLastWrite(h) \/ SetMemory(h)
             \/ \E b \in Body : Post(h, b)
  BY <1>1, <1>5 DEF Stamp, Insert, SetLastWrite, SetMemory, Post
<1>6. CASE SetDown(h) \/ SetUp(h) \/ SetLast(h)
  BY <1>1, <1>2, <1>4, <1>6 DEF SetDown, SetUp, SetLast
<1>14. CASE CountFailure(h)
  BY <1>1, <1>14 DEF CountFailure
<1>7. CASE Check(h)
  BY <1>1, <1>3, <1>7 DEF Check
<1>8. CASE Accept(h)
  BY <1>2, <1>3, <1>4, <1>8 DEF Accept
<1>9. CASE CountRow(h)
  BY <1>9 DEF CountRow, RowsInv
<1>10. CASE LoadRows(h)
  BY <1>10 DEF LoadRows, RowsInv
<1>11. CASE LoadLast(h)
  BY <1>11 DEF LoadLast, RowsInv
<1>12. CASE SetRows(h)
  BY <1>12 DEF SetRows, SetGauge, RowsInv, Gauges
<1>13. QED
  BY <1>5, <1>6, <1>7, <1>8, <1>9, <1>10, <1>11, <1>12, <1>14 DEF Handler

\* No counter, snapshot or gauge is ever ahead of the table.
THEOREM RowsNeverLead == Spec => []RowsNeverAhead
<1>1. Init => RowsInv
  BY DEF Init, RowsInv, NoGauges, NoSnaps, Gauges
<1>2. TypeOK /\ LifeInv /\ RowsInv /\ [Next]_vars => RowsInv'
  <2> SUFFICES ASSUME TypeOK, LifeInv, RowsInv, [Next]_vars PROVE RowsInv'
    OBVIOUS
  <2> USE DEF storeVars, metricVars, localVars
  <2>1. CASE UNCHANGED <<rowCount, gauge, snap>>
    BY <2>1 DEF RowsInv
  <2>2. CASE UNCHANGED vars
    BY <2>1, <2>2 DEF vars
  <2>3. CASE Tick \/ VolumeLost \/ StopServing \/ StartWithoutStore
               \/ ShutdownReturns \/ CloseStore
    <3>1. CASE Tick \/ VolumeLost \/ StopServing
      BY <2>1, <3>1 DEF Tick, VolumeLost, StopServing
    <3>2. CASE StartWithoutStore
      BY <2>1, <3>2 DEF StartWithoutStore
    <3>3. CASE ShutdownReturns \/ CloseStore
      BY <2>1, <3>3 DEF ShutdownReturns, CloseStore
    <3>4. QED
      BY <2>3, <3>1, <3>2, <3>3
  <2>4. CASE Crash \/ Exit
    <3>1. Die
      BY <2>4 DEF Crash, Exit
    <3>2. /\ rowCount' = 0 /\ gauge'["rows"] = 0
          /\ \A h \in Handlers : snap'[h].rows = 0
      BY <3>1, DieClears
    <3>3. QED
      BY <3>2 DEF RowsInv
  <2>5. ASSUME NEW n \in {0, Len(table)}, StartWithStore(n) PROVE RowsInv'
    <3>1. n \in Nat
      BY AccountTypes
    <3>2. \A h \in Handlers : snap'[h].rows = 0
      BY <2>5 DEF StartWithStore, LifeInv
    <3>3. rowCount' = n /\ gauge'["rows"] = n
      BY <2>5, RowsTypes DEF StartWithStore, Gauges
    <3>4. QED
      BY <3>1, <3>2, <3>3 DEF RowsInv
  <2>6. ASSUME NEW h \in Handlers, Handler(h) \/ \E b \in Body : Post(h, b)
        PROVE  RowsInv'
    BY <2>6, HandlerKeepsRows
  <2>7. QED
    BY <2>2, <2>3, <2>4, <2>5, <2>6 DEF Next, World, Main
<1>3. TypeOK /\ LifeInv /\ RowsInv /\ RowCountExact => RowsNeverAhead
  <2> SUFFICES ASSUME TypeOK, LifeInv, RowsInv, RowCountExact
               PROVE  rowCount <= Len(table)
    BY DEF RowsInv, RowsNeverAhead
  <2>1. Cardinality(InState({"count"})) \in Nat
    BY InStateFinite
  <2>2. CASE store = "nil"
    BY <2>2, AccountTypes DEF LifeInv
  <2>3. CASE store # "nil"
    BY <2>1, <2>3, AccountTypes DEF RowCountExact
  <2>4. QED
    BY <2>2, <2>3
<1>4. QED
  BY <1>1, <1>2, <1>3, TypeCorrect, ProcessLife, RowCountIsExact, PTL DEF Spec

=============================================================================

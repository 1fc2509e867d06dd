------------------------------ MODULE Ingestor ------------------------------
(***************************************************************************)
(* The ingestor (cloud/ingestor/main.go and store.go): concurrent POST     *)
(* handlers insert telemetry into SQLite and then update, one after the    *)
(* other and without a common lock, the store's counters, the Prometheus   *)
(* gauges and the in-memory last entry; main starts the process, shuts it  *)
(* down gracefully, and a crash may take it at any point.                  *)
(*                                                                         *)
(* A request body is malformed, invalid, or a reading with a device and a  *)
(* timestamp; the measured values are left out.  The store has a single    *)
(* connection (SetMaxOpenConns(1)), so that an SQL statement is one step;  *)
(* each statement, ping or open succeeds or fails by itself.               *)
(***************************************************************************)
EXTENDS Integers, Sequences, FiniteSets

CONSTANTS
    Handlers,    \* goroutines that net/http runs makeTelemetryHandler on
    Devices,     \* device identifiers
    Timestamps,  \* timestamps a reading may carry
    MaxSkew,     \* MAX_TS_SKEW; zero or less disables the check
    MaxTime,     \* bound: the wall clock's last second
    MaxPosts,    \* bound: POST requests over all
    MaxStarts    \* bound: times the process is started

ASSUME IngestorAssumption ==
    /\ IsFiniteSet(Handlers)
    /\ MaxTime \in Nat \ {0} /\ MaxPosts \in Nat /\ MaxStarts \in Nat
    /\ MaxSkew \in Int
    /\ Timestamps \subseteq Int

\* Validate refuses an empty device_id; as a filter it stands for none.
ASSUME DevicesAssumption == "" \notin Devices

VARIABLES
    main,       \* where main() is
    timedOut,   \* srv.Shutdown gave up waiting for the handlers
    store,      \* st: nil, open, or closed by main's deferred close
    now,        \* the wall clock in Unix seconds
    table,      \* the telemetry table in id order; survives the process
    rowCount,   \* store.rowCount
    lastWrite,  \* store.lastWriteAt
    lastStore,  \* the in-memory last entry
    gauge,      \* db_up, db_rows_total, db_last_write_unix, last_telemetry
    writeFail,  \* iiot_db_write_fail_total
    answered,   \* iiot_http_requests_total of the POST route, by status
    pc,         \* where each handler is
    body,       \* the request body each handler decodes
    at,         \* each handler's receivedAt
    snap,       \* each handler's statsSnapshot
    posts,      \* POSTs so far
    starts,     \* starts so far
    base,       \* auxiliary: rows in the table when this process started
    missed,     \* auxiliary: rows the COUNT at startup failed to find
    wrote       \* auxiliary: the last INSERT of this process succeeded

lifeVars    == <<starts, base, missed>>
processVars == <<main, timedOut, store, lifeVars>>
contextVars == <<processVars, now, posts>>
storeVars   == <<rowCount, lastWrite, wrote>>
dataVars    == <<table, storeVars, lastStore>>
metricVars  == <<gauge, writeFail, answered>>
localVars   == <<body, at, snap>>
handlerVars == <<metricVars, pc, localVars>>
vars == <<contextVars, dataVars, handlerVars>>

Reading == [kind : {"reading"}, device : Devices, ts : Timestamps]
Other(kind) == [kind |-> kind, device |-> "none", ts |-> 0]
Body    == Reading \cup {Other("malformed"), Other("invalid")}
NoBody  == Other("none")
Row     == [device : Devices, at : 1 .. MaxTime]
NoRow   == [device |-> "none", at |-> 0]

Gauges   == {"up", "rows", "lastWrite", "lastTelemetry"}
Statuses == {"202", "400", "422"}

\* Where a handler is, in program order; from "setDown" it goes on at "memory".
HandlerStates == {"idle", "check", "stamp", "insert", "failed", "setDown",
                  "count", "setLastWrite", "setUp", "loadRows", "loadLast",
                  "setRows", "setLast", "memory", "telemetry"}

Alive == main \in {"serving", "draining", "closing", "exiting"}

NoCounts  == [s \in Statuses |-> 0]
NoGauges  == [g \in Gauges |-> 0]
AllIdle   == [h \in Handlers |-> "idle"]
NoBodies  == [h \in Handlers |-> NoBody]
NoStamps  == [h \in Handlers |-> 0]
NoSnaps   == [h \in Handlers |-> [rows |-> 0, last |-> 0]]

Init ==
    /\ main = "down" /\ timedOut = FALSE /\ store = "nil"
    /\ starts = 0 /\ base = 0 /\ missed = 0
    /\ now = 1 /\ posts = 0 /\ table = <<>>
    /\ rowCount = 0 /\ lastWrite = 0 /\ wrote = TRUE /\ lastStore = NoRow
    /\ gauge = NoGauges /\ writeFail = 0 /\ answered = NoCounts
    /\ pc = AllIdle /\ body = NoBodies /\ at = NoStamps /\ snap = NoSnaps

-----------------------------------------------------------------------------
(* The world: time passes, the volume is lost.                             *)

Tick ==
    /\ now < MaxTime
    /\ now' = now + 1
    /\ UNCHANGED <<processVars, posts, dataVars, handlerVars>>

\* The emptyDir volume goes with the pod, not with the container.
VolumeLost ==
    /\ main = "down" /\ starts > 0
    /\ table' = <<>>
    /\ UNCHANGED <<contextVars, storeVars, lastStore, handlerVars>>

-----------------------------------------------------------------------------
(* main: start, graceful shutdown, crash.                                  *)

\* Mutant: the migration drops the table before it creates it.
StartWithStoreAnew(n) ==
    /\ main = "down" /\ starts < MaxStarts
    /\ n = 0
    /\ table' = <<>>
    /\ rowCount' = n
    /\ gauge' = [gauge EXCEPT !["up"] = 1, !["rows"] = n,
                              !["lastWrite"] = lastWrite]
    /\ main' = "serving" /\ store' = "open"
    /\ starts' = starts + 1
    /\ base' = 0 /\ missed' = 0
    /\ UNCHANGED <<timedOut, now, posts, lastWrite, wrote, lastStore,
                   writeFail, answered, pc, localVars>>

\* openStore and the start of main.  The COUNT may fail, unnoticed, after the
\* migration succeeded; last_write_unix is not read back from the table.
StartWithStore(n) ==
    /\ main = "down" /\ starts < MaxStarts
    /\ n \in {0, Len(table)}
    /\ rowCount' = n
    /\ gauge' = [gauge EXCEPT !["up"] = 1, !["rows"] = n,
                              !["lastWrite"] = lastWrite]
    /\ main' = "serving" /\ store' = "open"
    /\ starts' = starts + 1
    /\ base' = Len(table) /\ missed' = Len(table) - n
    /\ UNCHANGED <<timedOut, now, posts, table, lastWrite, wrote, lastStore,
                   writeFail, answered, pc, localVars>>

\* openStore failed: the ingestor serves without persistence.
StartWithoutStore ==
    /\ main = "down" /\ starts < MaxStarts
    /\ main' = "serving"
    /\ starts' = starts + 1
    /\ base' = Len(table) /\ missed' = Len(table)
    /\ UNCHANGED <<timedOut, store, now, posts, dataVars, handlerVars>>

Idle == \A h \in Handlers : pc[h] = "idle"

\* A signal, or an error of the listener: Shutdown takes no new request.
StopServing ==
    /\ main = "serving"
    /\ main' = "draining"
    /\ UNCHANGED <<timedOut, store, lifeVars, now, posts, dataVars,
                   handlerVars>>

\* Mutant: the server is closed without waiting for its handlers.
ShutdownAbrupt ==
    /\ main = "draining"
    /\ timedOut' = FALSE
    /\ main' = "closing"
    /\ UNCHANGED <<store, lifeVars, now, posts, dataVars, handlerVars>>

\* Shutdown returns when the handlers have, or after 15 s.
ShutdownReturns ==
    /\ main = "draining"
    /\ timedOut' = ~Idle
    /\ main' = "closing"
    /\ UNCHANGED <<store, lifeVars, now, posts, dataVars, handlerVars>>

CloseStore ==
    /\ main = "closing"
    /\ main' = "exiting"
    /\ store' = IF store = "open" THEN "closed" ELSE store
    /\ UNCHANGED <<timedOut, lifeVars, now, posts, dataVars, handlerVars>>

\* main returns, or the process is killed: all but the table is gone.
Die ==
    /\ main' = "down" /\ timedOut' = FALSE /\ store' = "nil"
    /\ base' = 0 /\ missed' = 0
    /\ rowCount' = 0 /\ lastWrite' = 0 /\ wrote' = TRUE /\ lastStore' = NoRow
    /\ gauge' = NoGauges /\ writeFail' = 0 /\ answered' = NoCounts
    /\ pc' = AllIdle /\ body' = NoBodies /\ at' = NoStamps /\ snap' = NoSnaps
    /\ UNCHANGED <<starts, now, posts, table>>

Exit == main = "exiting" /\ Die

Crash == Alive /\ Die

-----------------------------------------------------------------------------
(* The POST handler.                                                       *)

HandlerAt(h, state) == Alive /\ pc[h] = state

HandlerGoto(h, state) == pc' = [pc EXCEPT ![h] = state]

\* The middleware counts the status once the handler has returned.
Answer(h, status) ==
    /\ HandlerGoto(h, "idle")
    /\ body' = [body EXCEPT ![h] = NoBody]
    /\ at' = [at EXCEPT ![h] = 0]
    /\ snap' = [snap EXCEPT ![h] = [rows |-> 0, last |-> 0]]
    /\ answered' = [answered EXCEPT ![status] = @ + 1]

SetGauge(name, value) == gauge' = [gauge EXCEPT ![name] = value]

Post(h, b) ==
    /\ main = "serving" /\ pc[h] = "idle" /\ posts < MaxPosts
    /\ HandlerGoto(h, "check")
    /\ body' = [body EXCEPT ![h] = b]
    /\ posts' = posts + 1
    /\ UNCHANGED <<processVars, now, dataVars, metricVars, at, snap>>

Skewed(b) == MaxSkew > 0 /\ (b.ts - now < -MaxSkew \/ b.ts - now > MaxSkew)

\* Mutant: the return after a failed validation is missing.
CheckFallsThrough(h) ==
    /\ HandlerAt(h, "check")
    /\ HandlerGoto(h, "stamp")
    /\ UNCHANGED <<contextVars, dataVars, metricVars, localVars>>

\* Decode, Validate and the skew check, against a first reading of the clock.
Check(h) ==
    /\ HandlerAt(h, "check")
    /\ \/ body[h].kind = "malformed" /\ Answer(h, "400")
       \/ body[h].kind = "invalid" /\ Answer(h, "422")
       \/ body[h].kind = "reading" /\ Skewed(body[h]) /\ Answer(h, "422")
       \/ /\ body[h].kind = "reading" /\ ~Skewed(body[h])
          /\ HandlerGoto(h, "stamp")
          /\ UNCHANGED <<localVars, answered>>
    /\ UNCHANGED <<contextVars, dataVars, gauge, writeFail>>

\* receivedAt is taken before the insert: handlers may insert in another order.
Stamp(h) ==
    /\ HandlerAt(h, "stamp")
    /\ at' = [at EXCEPT ![h] = now]
    /\ HandlerGoto(h, IF store = "nil" THEN "memory" ELSE "insert")
    /\ UNCHANGED <<contextVars, dataVars, metricVars, body, snap>>

\* Mutant: insert ignores the error of Exec and counts the row anyway.
InsertIgnoresError(h) ==
    /\ HandlerAt(h, "insert")
    /\ \/ /\ store = "open" /\ wrote' = TRUE
          /\ table' = Append(table, [device |-> body[h].device, at |-> at[h]])
       \/ wrote' = FALSE /\ UNCHANGED table
    /\ HandlerGoto(h, "count")
    /\ UNCHANGED <<contextVars, rowCount, lastWrite, lastStore, metricVars,
                   localVars>>

\* The INSERT may fail at any time, and does so once the store is closed.
Insert(h) ==
    /\ HandlerAt(h, "insert")
    /\ \/ /\ store = "open" /\ wrote' = TRUE
          /\ table' = Append(table, [device |-> body[h].device, at |-> at[h]])
          /\ HandlerGoto(h, "count")
       \/ /\ wrote' = FALSE /\ UNCHANGED table
          /\ HandlerGoto(h, "failed")
    /\ UNCHANGED <<contextVars, rowCount, lastWrite, lastStore, metricVars,
                   localVars>>

\* Mutant: the failure is only logged.
CountFailureSkipped(h) ==
    /\ HandlerAt(h, "failed")
    /\ HandlerGoto(h, "setDown")
    /\ UNCHANGED <<contextVars, dataVars, metricVars, localVars>>

\* A failed insert is counted and the request accepted all the same.
CountFailure(h) ==
    /\ HandlerAt(h, "failed")
    /\ writeFail' = writeFail + 1
    /\ HandlerGoto(h, "setDown")
    /\ UNCHANGED <<contextVars, dataVars, gauge, answered, localVars>>

SetDown(h) ==
    /\ HandlerAt(h, "setDown")
    /\ SetGauge("up", 0)
    /\ HandlerGoto(h, "memory")
    /\ UNCHANGED <<contextVars, dataVars, writeFail, answered, localVars>>

CountRow(h) ==
    /\ HandlerAt(h, "count")
    /\ rowCount' = rowCount + 1
    /\ HandlerGoto(h, "setLastWrite")
    /\ UNCHANGED <<contextVars, table, lastWrite, wrote, lastStore, metricVars,
                   localVars>>

SetLastWrite(h) ==
    /\ HandlerAt(h, "setLastWrite")
    /\ lastWrite' = at[h]
    /\ HandlerGoto(h, "setUp")
    /\ UNCHANGED <<contextVars, table, rowCount, wrote, lastStore, metricVars,
                   localVars>>

SetUp(h) ==
    /\ HandlerAt(h, "setUp")
    /\ SetGauge("up", 1)
    /\ HandlerGoto(h, "loadRows")
    /\ UNCHANGED <<contextVars, dataVars, writeFail, answered, localVars>>

\* Mutant: the snapshot counts the row of its own request once more.
LoadRowsAhead(h) ==
    /\ HandlerAt(h, "loadRows")
    /\ snap' = [snap EXCEPT ![h].rows = rowCount + 1]
    /\ HandlerGoto(h, "loadLast")
    /\ UNCHANGED <<contextVars, dataVars, metricVars, body, at>>

\* statsSnapshot loads the two counters one after the other.
LoadRows(h) ==
    /\ HandlerAt(h, "loadRows")
    /\ snap' = [snap EXCEPT ![h].rows = rowCount]
    /\ HandlerGoto(h, "loadLast")
    /\ UNCHANGED <<contextVars, dataVars, metricVars, body, at>>

LoadLast(h) ==
    /\ HandlerAt(h, "loadLast")
    /\ snap' = [snap EXCEPT ![h].last = lastWrite]
    /\ HandlerGoto(h, "setRows")
    /\ UNCHANGED <<contextVars, dataVars, metricVars, body, at>>

SetRows(h) ==
    /\ HandlerAt(h, "setRows")
    /\ SetGauge("rows", snap[h].rows)
    /\ HandlerGoto(h, "setLast")
    /\ UNCHANGED <<contextVars, dataVars, writeFail, answered, localVars>>

SetLast(h) ==
    /\ HandlerAt(h, "setLast")
    /\ SetGauge("lastWrite", snap[h].last)
    /\ HandlerGoto(h, "memory")
    /\ UNCHANGED <<contextVars, dataVars, writeFail, answered, localVars>>

\* The last entry changes under lastMu, the gauge after the unlock.
SetMemory(h) ==
    /\ HandlerAt(h, "memory")
    /\ lastStore' = [device |-> body[h].device, at |-> at[h]]
    /\ HandlerGoto(h, "telemetry")
    /\ UNCHANGED <<contextVars, table, storeVars, metricVars, localVars>>

Accept(h) ==
    /\ HandlerAt(h, "telemetry")
    /\ SetGauge("lastTelemetry", at[h])
    /\ Answer(h, "202")
    /\ UNCHANGED <<contextVars, dataVars, writeFail>>

Handler(h) ==
    \/ Check(h) \/ Stamp(h) \/ Insert(h) \/ CountFailure(h) \/ SetDown(h)
    \/ CountRow(h) \/ SetLastWrite(h) \/ SetUp(h) \/ LoadRows(h) \/ LoadLast(h)
    \/ SetRows(h) \/ SetLast(h) \/ SetMemory(h) \/ Accept(h)

-----------------------------------------------------------------------------
(* The GET endpoints: functions of the state, which they do not change,    *)
(* and of whether SQLite answers the query or ping each of them makes.     *)

Matching(filter) ==
    {i \in 1 .. Len(table) : filter \in {"", table[i].device}}

\* Mutant: ORDER BY id DESC alone.
NewerById(i, j) == i > j

\* ORDER BY received_at_unix DESC, id DESC.
Newer(i, j) ==
    \/ table[i].at > table[j].at
    \/ table[i].at = table[j].at /\ i > j

\* The id of the row queryLast returns, 0 for none.
QueryLast(filter) ==
    IF Matching(filter) = {} THEN 0
    ELSE CHOOSE i \in Matching(filter) :
             \A j \in Matching(filter) \ {i} : Newer(i, j)

\* Mutant: queryRecent orders by id, queryLast by received_at.
QueryRecentById(filter, limit) ==
    LET rows == Matching(filter)
        size == Cardinality(rows)
    IN  [k \in 1 .. (IF size < limit THEN size ELSE limit) |->
            CHOOSE i \in rows : Cardinality({j \in rows : j > i}) = k - 1]

\* The ids queryRecent returns: the k-th has k - 1 newer rows before it.
QueryRecent(filter, limit) ==
    LET rows == Matching(filter)
        size == Cardinality(rows)
    IN  [k \in 1 .. (IF size < limit THEN size ELSE limit) |->
            CHOOSE i \in rows :
                Cardinality({j \in rows : Newer(j, i)}) = k - 1]

Reply(status, rows) == [status |-> status, rows |-> rows]

\* A closed database answers nothing, an open one may still fail.
Answers(ok) == store = "open" /\ ok

\* GET /last: without a store it answers from memory, whatever the filter.
GetLast(filter, ok) ==
    CASE store = "nil" /\ lastStore = NoRow -> Reply("404", <<>>)
      [] store = "nil" /\ lastStore # NoRow -> Reply("200", <<lastStore>>)
      [] store # "nil" /\ ~Answers(ok) -> Reply("500", <<>>)
      [] Answers(ok) /\ QueryLast(filter) = 0 -> Reply("404", <<>>)
      [] Answers(ok) /\ QueryLast(filter) # 0 ->
             Reply("200", <<table[QueryLast(filter)]>>)

\* GET /recent; the limit is the one the handler has clamped.
GetRecent(filter, limit, ok) ==
    CASE store = "nil" -> Reply("503", <<>>)
      [] store # "nil" /\ ~Answers(ok) -> Reply("500", <<>>)
      [] Answers(ok) -> Reply("200", [k \in DOMAIN QueryRecent(filter, limit) |->
                                         table[QueryRecent(filter, limit)[k]]])

\* GET /stats: the counters of this process if the ping succeeds.
GetStats(ok) ==
    IF Answers(ok) THEN [status |-> "200", rows |-> rowCount, last |-> lastWrite]
                   ELSE [status |-> "503", rows |-> 0, last |-> 0]

\* GET /readyz: 503 without a store too.
GetReady(ok) == IF Answers(ok) THEN "200" ELSE "503"

-----------------------------------------------------------------------------

Main ==
    \/ \E n \in {0, Len(table)} : StartWithStore(n)
    \/ StartWithoutStore
    \/ ShutdownReturns \/ CloseStore \/ Exit

World == Tick \/ VolumeLost \/ StopServing \/ Crash

Next ==
    \/ World
    \/ Main
    \/ \E h \in Handlers : Handler(h) \/ \E b \in Body : Post(h, b)

Spec == Init /\ [][Next]_vars

-----------------------------------------------------------------------------
(* Correctness.                                                            *)

\* Every variable keeps its type, and a handler past the checks holds a
\* reading: nothing malformed or invalid reaches the store.
TypeOK ==
    /\ main \in {"down", "serving", "draining", "closing", "exiting"}
    /\ timedOut \in BOOLEAN /\ wrote \in BOOLEAN
    /\ store \in {"nil", "open", "closed"}
    /\ now \in 1 .. MaxTime
    /\ table \in Seq(Row)
    /\ rowCount \in Nat /\ lastWrite \in 0 .. MaxTime
    /\ lastStore \in Row \cup {NoRow}
    /\ gauge \in [Gauges -> Nat]
    /\ writeFail \in Nat /\ answered \in [Statuses -> Nat]
    /\ pc \in [Handlers -> HandlerStates]
    /\ body \in [Handlers -> Body \cup {NoBody}]
    /\ \A h \in Handlers :
           pc[h] \notin {"idle", "check"} => body[h] \in Reading
    /\ at \in [Handlers -> 0 .. MaxTime]
    /\ \A h \in Handlers :
           pc[h] \notin {"idle", "check", "stamp"} => at[h] \in 1 .. MaxTime
    /\ snap \in [Handlers -> [rows : Nat, last : 0 .. MaxTime]]
    /\ posts \in Nat /\ starts \in Nat /\ base \in Nat /\ missed \in Nat

InState(states) == {h \in Handlers : pc[h] \in states}

InsertedStates == {"count", "setLastWrite", "setUp", "loadRows", "loadLast",
                   "setRows", "setLast"}

\* Handlers whose reading is a row or a counted failure and not answered yet.
Decided == InState(InsertedStates \cup {"setDown", "memory", "telemetry"})

\* A 202 is a promise only of an attempt to store: with a store, the accepted
\* requests are at every moment the rows inserted by this process plus the
\* inserts counted as failed, so that iiot_db_write_fail_total is all that
\* tells an accepted reading from a lost one.
AcceptedAccounted ==
    store # "nil" =>
        answered["202"] + Cardinality(Decided) = Len(table) - base + writeFail

IfStore(count) == IF store # "nil" THEN count ELSE 0

\* The ingestor keeps the account that StoreLedger describes: of the readings
\* of a process with a store each is a row or a counted failure before it is
\* accepted, and neither a restart nor a handler touches a row that is there.
Ledger == INSTANCE StoreLedger WITH
    Rows     <- Row,
    attached <- store # "nil",
    failed   <- IfStore(writeFail),
    pending  <- IfStore(Cardinality(Decided)),
    accepted <- IfStore(answered["202"])

ImplementsStoreLedger == Ledger!Spec

\* rowCount is the length of the table but for the rows that the COUNT at
\* startup missed and the inserts that have not been counted yet.
RowCountExact ==
    store # "nil" =>
        Len(table) = missed + rowCount + Cardinality(InState({"count"}))

\* No gauge, snapshot or counter ever claims a row that is not in the table.
RowsNeverAhead ==
    Alive =>
        /\ rowCount <= Len(table)
        /\ gauge["rows"] <= rowCount
        /\ \A h \in Handlers : snap[h].rows <= rowCount

\* Unless Shutdown timed out, main closes the store only when no handler may
\* still use it: no accepted reading fails to be stored because of the close.
CloseAfterDrain == store = "closed" /\ ~timedOut => Idle

\* The row that queryLast selects never goes back in time while the volume
\* lasts, over restarts and although handlers may insert in another order than
\* they took their timestamps.  (A process without a store answers /last from
\* memory: of that nothing is claimed.)
StoredLastNeverGoesBack ==
    [][\A filter \in Devices \cup {""} :
          Matching(filter) # {} /\ Len(table') >= Len(table) =>
              table'[QueryLast(filter)'].at >= table[QueryLast(filter)].at
      ]_vars

\* queryRecent "returns the last limit records, newest first" (store.go:161):
\* no more rows than the limit, each strictly newer than the next, a matching
\* row left out only if the limit is reached and every row given is newer; and
\* queryLast, a query of its own, returns the first of them.
RecentNewestFirst ==
    \A filter \in Devices \cup {""}, limit \in 1 .. 3 :
        LET recent == QueryRecent(filter, limit)
            given  == {recent[k] : k \in 1 .. Len(recent)}
        IN  /\ Len(recent) <= limit /\ given \subseteq Matching(filter)
            /\ \A k \in 1 .. Len(recent) - 1 : Newer(recent[k], recent[k + 1])
            /\ \A i \in Matching(filter) \ given :
                   Len(recent) = limit /\ \A j \in given : Newer(j, i)
            /\ QueryLast(filter) = IF recent = <<>> THEN 0 ELSE recent[1]

\* A client reads what it wrote (runbook.md:365-367): from the moment the INSERT
\* of a request has returned, a query that the database answers finds, for its
\* device, a reading at least as new as the request's, whatever the other
\* handlers insert, and /last and /recent return the same one.
InsertedFound ==
    store = "open" =>
        \A h \in InState(InsertedStates) :
            LET last == GetLast(body[h].device, TRUE)
            IN  /\ last.status = "200"
                /\ last.rows[1].device = body[h].device
                /\ last.rows[1].at >= at[h]
                /\ GetRecent(body[h].device, 1, TRUE) = last

-----------------------------------------------------------------------------
(* What comments, help texts and docs say and the code does not do.        *)

\* No POST is being handled and the database is attached.
Quiet == main = "serving" /\ store = "open" /\ Idle

\* The database gauges are "accurate": "populated at startup from the existing
\* DB state and updated on every successful INSERT" (runbook.md:436-437), up "on
\* every successful/failed DB write" (main.go:50).  Read at their weakest they
\* say, when no POST is being handled, how the last write went, how many rows
\* there are if the COUNT at startup found them, and the stamp of the last one.
GaugesCurrent ==
    Quiet =>
        /\ gauge["up"] = 1 <=> wrote
        /\ missed = 0 => gauge["rows"] = Len(table)
        /\ table # <<>> => gauge["lastWrite"] = table[Len(table)].at
=============================================================================

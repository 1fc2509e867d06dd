# Verification of the IIoT edge platform

TLA+ models, TLC runs and TLAPS proofs for the platform's Go services. The
platform moves sensor readings along one line:

    collector --MQTT--> Mosquitto --MQTT QoS 1--> mqtt-bridge --HTTP--> ingestor --> SQLite

Code is quoted as `path:line` under `src/`. `PROJECT.json` lists the runs, the
mutated definitions that show each property can fail, the source lines of every
definition, the hazards, the findings and the theorems.

## 1. Inventory

| Part | State it keeps | Operations | What is hard about it |
|---|---|---|---|
| **mqtt-bridge** `cloud/mqtt-bridge/main.go` | buffered channel `b.queue`, the `WaitGroup`, the cancelled context, each worker's payload and attempt, Prometheus counters and the `queue_depth` gauge | `mqttHandler`, `startWorkers`, `process`, `forward`, `newMQTTClient`, `main` | paho's goroutine, a pool of workers and `main` run concurrently; a channel is closed under a possible sender; three timers; retries against cancellation |
| bridge drop log, same file | `dropLogAt` | `logDropRateLimited` | compare-and-swap on a wall clock |
| bridge configuration, metrics server, health check | none after start | `getEnvInt`, `getEnvDuration`, `newConfig`, `startMetricsServer` | boundaries of the parsers only |
| **ingestor** `cloud/ingestor/main.go` | gauges and counters, the in-memory `lastStore` under `lastMu`, `main`'s stage | POST handler, `/last`, `/recent`, `/stats`, `/readyz`, start, graceful shutdown | concurrent handlers publish what they read earlier; the store may fail, be missing or be closed |
| **store** `cloud/ingestor/store.go` | table `telemetry`, atomics `rowCount` and `lastWriteAt` | `openStore`, `insert`, `statsSnapshot`, `queryLast`, `queryRecent`, `ping`, `close` | row and counters change in separate steps; only the table survives a restart |
| telemetry model `pkg/models` | none | `Validate` | boundaries of the ranges |
| **collector** `edge/collector/main.go` | paho client and its outbox, the ticker, three counters | connect, publish on each tick and wait 3 s, signal | a publish counted as timed out may still arrive, or arrive twice; one loop for ticks, waits and the signal |
| Mosquitto | sessions and in-flight QoS 1 messages, no persistence | third-party | late acknowledgements, loss at a restart or a lost session |
| deployment, CI, scripts | | | configuration, no state machine |

How they interact: the broker calls `mqttHandler` on paho's one delivery
goroutine; the handler and the workers share the channel; `main` shares the
context with the workers and closes the channel; a worker POSTs and reads only
the status code; the ingestor's handlers share the store, the gauges and the
last entry; `main` closes the store on its way out.

What makes each part correct:

- collector: its counters bracket what the broker received and account for what the
  client still holds; copies need lost connections; a signal ends it;
- bridge: every message received gets exactly one outcome, or is still in one of
  three places; the process dies of no send on a closed channel that its own
  shutdown could have avoided; a shutdown that completes loses nothing; retries
  are bounded; a signal ends the process;
- drop log: warning lines a second apart, whatever the callers and the clock;
- ingestor: a 202 is a row or a failure counted, the row counter is exact, no
  number claims rows that do not exist, a stored reading is found from the moment
  its INSERT has returned, `/recent` gives the newest rows and `/last` the first of
  them, what `/last` reads from the table never goes back, the store closes after its
  users;
- the line as a whole: a duplicate row needs a retry or a lost connection, a
  reading counted as published is in the table, on its way, or at an end that has its
  cause, the end of the bridge's process loses no more than it holds, every message
  comes to an end;
- the data contract: what one program sends the next accepts.

## 2. Plan

Done:

1. `BridgeLedger`, `Bridge`, `MCBridge`, `BridgeProofs` - the bridge, its abstract
   account and the refinement between them;
2. `DropLog`, `MCDropLog`, `DropLogProofs` - the rate limit;
3. `StoreLedger`, `Ingestor`, `MCIngestor`, `IngestorProofs`, `IngestorQueryProofs` - the
   POST and GET handlers, the store, the life of the process, and the abstract account
   of the table that they implement;
4. `Collector`, `MCCollector`, `CollectorProofs` - the ticker loop against a broker
   that answers late;
5. `Delivery`, `MCDelivery`, `DeliveryProofs` - from the broker to the table: the
   session, the bridge and the ingestor at the grain of whole messages, with the
   faults between the processes;
6. `Pipeline`, `MCPipeline`, `PipelineProofs` - the collector composed with `Delivery`;
7. `Contract`, `MCContract`, `ContractProofs` - `Validate`, the answers by payload,
   `MAX_TS_SKEW` and the limit of `/recent`.

To do, in this order:

8. `Bridge` shown to implement the bridge's part of `Delivery`;
9. Mosquitto's limits (inflight window, queue per client) in `Delivery`.

## 3. The modules and the code

**`Bridge`.** One action per step between which another goroutine can be seen.

| Code | Definitions |
|---|---|
| paho client, `newMQTTClient` | `mqtt`; `ConnectUp`, `Subscribe`, `ConnectionLost`; `ConnectReturns`, `ConnectTimeout`, `ConnectError` |
| `mqttHandler` | `handler`, `held`; `HandlerReceive`, `HandlerEnqueue`, `HandlerCount` (the gauge moves after the send), `HandlerDrop`, `HandlerPanic` (the send on a closed channel) |
| `startWorkers` | `pc`, `data`; `WorkerReceive`, `WorkerCount`, `WorkerExit` |
| `process`, `forward` | `attempt`; `Process`, `CheckContext`, `Backoff`, `Post`, `Respond` |
| `main` | `main`, `disconnect`, `closed`, `cancelled`; `Signal`, `StartDisconnect`, `DisconnectReturns`, `QuiesceExpires`, `CloseQueue`, `DrainEnds`, `Exit` |

A payload is valid or invalid, an answer one of 202, 4xx, or anything that is
retried; a timer may fire whenever its `select` is reached, so no property
depends on 200 ms being shorter than 5 s. paho is environment: it delivers one
message at a time, calls the handler only while subscribed, reconnects by
itself, and a connection goes down only between two calls of the handler.
`Disconnect(500)` either completes or returns at its timer.

**`BridgeLedger`** is what the bridge promises: a message taken is pending until it
is settled once as dropped, invalid, forwarded or failed, at most `Capacity` are
pending, nothing moves after the stop. `Bridge!Ledger` maps `Capacity` to
`QueueSize + Cardinality(Workers) + 1`: the channel, one message per worker, one
in the handler.

**`DropLog`.** `Call` reads the clock, `Load` reads `dropLogAt` and compares, `Swap`
is the compare-and-swap and the line. `ClockReads` sets the clock to anything:
`UnixNano` has no monotonic reading. The module has any number of callers; the code
has one, paho's delivery goroutine, so that what the run and the proof say of this
program is that no movement of the clock brings two lines together.

**`Ingestor`.** Each handler walks through `check, stamp, insert, (failed, setDown | count,
setLastWrite, setUp, loadRows, loadLast, setRows, setLast), memory, telemetry`,
one action each, in the order of `makeTelemetryHandler` and `store.insert`. `main`
walks through `down, serving, draining, closing, exiting`. `StartWithStore(n)` is
`openStore`: `n` is what its COUNT found, or 0 when that failed unnoticed.
`StartWithoutStore` is a failed `openStore`: handlers then skip the insert.
`Crash` and `Exit` clear all but the table; `VolumeLost` clears the table of a pod
that is gone. `QueryLast` and `QueryRecent` are the two queries as functions of the
table; `GetLast`, `GetRecent`, `GetStats` and `GetReady` are the answers of the GET
handlers in a state: each makes at most one statement or ping, takes at most one
snapshot, and changes nothing. Every INSERT, query and ping succeeds or fails by
itself: `Insert` chooses, and the GET operators take the outcome as their argument
`ok`, so that a ping that succeeds says nothing of the query that follows. A closed
store answers nothing. `base`, `missed` and `wrote` are auxiliary: the table's length
at this start, what the COUNT did not see, and how the last INSERT went.

**`StoreLedger`** is what the ingestor promises of its table: while a process has the
store a reading becomes a row at the table's end or a counted failure, and is
accepted only then, once; rows stay as they are and where they are, and go only
with the volume, when no process has the store. `Ingestor!Ledger` maps `attached` to
`store # "nil"` and `pending` to the handlers whose insert has returned; the counts
are the process's and start from 0, the table is not. A start is `Attach`, a crash or
an exit `Detach`. What a process without a store accepts is outside the account.

**`Collector`.** One action per step of `main` that another part can see.

| Code | Definitions |
|---|---|
| `newMQTTClient` | `link`; `ConnectUp`, `ConnectionLost`; `Connected`, `ConnectFails` |
| the ticker and the signal | `tick` (the channel holds one), `cancelled`; `Tick`, `Signal` |
| the loop | `main`, `taken`, `token`; `Publish`, `Settle`, `WaitExpires`, `Stop` |
| the way out | `DisconnectReturns`, `Exit` |
| paho and the broker | `outbox`, `sent`, `copies`; `Transmit`, `PubAck` |

`WaitExpires` may also win against an acknowledgement that is already there: the
timer and the token are two channels of one `select`. `Publish` may fail at once,
with or without the client having kept the message.

**`Delivery`.** A message is at one place at a time: with the broker's session, in
the handler, in the queue, with a worker before or in an exchange, or at its
end. `Receive` is the broker's routing: to the session if the bridge is
subscribed, else nowhere (`missed`). paho's sessions are clean by default, so a
`Disconnect` drops what waits in the session. `SubscribeFails` is the other outcome of
`OnConnectHandler`: it logs, and the client stays connected without a subscription,
unless the broker takes the SUBSCRIBE after all (`Subscribe` from `unsubscribed`).
`Deliver`, `Enqueue`, `Take` are `mqttHandler` and the pool. `Invalid` is `process` with a
payload outside `valid`, a set chosen at the start. `Cancelled`, `Send`, `Answered` and
`Unanswered` are `forward`'s loop: a POST is sent, and its answer arrives or not,
independently of whether the ingestor handles it (`Handle`), which may be after the
bridge has given up. `Handle` answers 202 with a row (`stored`), 202 after an insert
that failed and was counted (`unstored`), 202 from an ingestor without a store, where
neither happens (`memory`), or a 4xx (`rejected`); which it is may change from one POST
to the next, since the ingestor may be started anew. `VolumeLost` empties the table
and keeps in `wiped` what it held. `Signal` cancels the workers' context, `BridgeExits` is
the end of the process between any two steps, by crash or because `main` returned:
what the process held is `lost`, what waited in its session `missed`, as in any lost
connection.

`Delivery` keeps of `Bridge` and `Ingestor` only what decides where a message ends. Their
counters, the steps of the two shutdowns (Disconnect, close, drain, the deferred
close of the store) and an `INGESTOR_URL` that does not parse are in those modules.

**`Pipeline`** extends `Delivery` and instantiates `Collector`. Its messages are the
copies `<<n, k>>` of the collector's readings. The two share `Route` (the broker
receives a copy and routes it) and `BrokerRestarts` (both connections go at once);
every other step is a step of one of them.

**`Contract`** has the pure functions as operators of their inputs and one initial
state for each choice of inputs: `Validate`, `Sampled` (`sampleReading`), `Forwarded`
(`process`), `PostStatus` (the POST handler up to the skew check), `Retried`
(`forward`'s switch), `parseMaxSkew`, `RecentLimit`. A text is its length and whether it
is blank.

## 4. Runs

Deadlock is checked in every run. In `Bridge` and `Collector` the ended process
stutters (`Stopped`), in `Contract` every state does; in `Ingestor` a living process may
crash and a dead one be started or lose its volume, in `Delivery` and `Pipeline` the
bridge's connection and in `DropLog` the clock can always move.

| Run | Question | Instance |
|---|---|---|
| `bridge_safety` | accounting, exact gauge, clean shutdown, when a crash is possible, retry budget (also with a URL that cannot be parsed); is `BridgeLedger` implemented | 2 workers, queue 1, 3 attempts, 5 messages, symmetric workers |
| `bridge_liveness` | does the process end, does every message get an outcome | 2 workers, queue 1, 2 attempts, 3 messages |
| `ingestor_safety` | are accepted readings accounted for, is the row counter exact, does no gauge lead, is the store closed last; does `/recent` give the newest rows and `/last` the first of them, is a reading found once inserted, does the row of `/last` never go back; is `StoreLedger` implemented | 2 handlers, 2 devices, 3 posts, 2 starts, clock 1..2, readings stamped 0 with a skew limit of 1, symmetric handlers and devices |
| `droplog_spacing` | lines a second apart | 3 callers, a second of 2 units, clock 0..5 |
| `collector` | what the three counters say of the broker, what is left in the client, how many copies; is every reading counted; does a signal end it | 3 readings, 2 lost connections |
| `delivery` | duplicates, meaning of a success, does every message come to an end | 2 messages, 1 worker, queue 1, 2 attempts, 1 end of the bridge |
| `delivery_loss` | what the end of the bridge's process takes with it | 4 messages, 1 worker, queue 1, 1 attempt, 1 end, symmetric messages |
| `pipeline` | rows per reading end to end, what a reading counted as published has come to | 1 reading, 1 lost connection, 1 worker, queue 1, 2 attempts, 1 end of the bridge; a lost volume or a stopped bridge, not both (`OneProcessFails`) |
| `contract` | do three programs agree on a reading; `MAX_TS_SKEW` and `limit` | lengths, values, offsets and numbers on both sides of every boundary |

Why the bounds are enough. Two workers are the fewest that can hold messages at
the same time and race for the last one. With a queue of one the process holds four
messages at most: five are one more, so that the queue is full with both workers
free and with both busy, overflows, and the ledger's capacity is reached and could be
exceeded (a handler that sends without room, `HandlerEnqueueAlways`, breaks
`ImplementsLedger` in this run). Three attempts have a first, a middle and a last
iteration. Two handlers show every race of a pair of
requests; three posts let a third request follow on the state such a race left;
two starts are a first one and one over an existing table; two clock readings
order two stamps both ways against the order of inserts, and readings stamped 0 pass
the skew check in the clock's first second and are refused in the next. Three
readings let two be unacknowledged while a third is published, and two lost
connections let one of them be sent three times. In `delivery` two messages compete for the
worker, and two attempts let the first one's POST be handled after the second's; in
`delivery_loss` four messages are one more than the handler, a queue of one and a worker
hold, so that a drop, a full process and its end meet, and one attempt keeps each
where it is long enough. In `pipeline` one reading in two copies has both of them in
the bridge at a time, and they may come to different ends; that the volume is lost
and the bridge is stopped in one behaviour is left to the proofs (section 6), which
carry the safety results beyond all these instances.

Three more runs are expected to fail. Each states what a comment, a help text
or the runbook says, and shows the code doing otherwise:

| Run | The text | What the code does |
|---|---|---|
| `bridge_late_send` | "No send to b.queue occurs after mqttClient.Disconnect" (`main.go:476`) | `Disconnect` also returns at its 500 ms timer, with the handler about to send |
| `ingestor_gauges` | the database gauges are "populated at startup ... and updated on every successful INSERT, so they are accurate" (`runbook.md:436-437`), `iiot_db_up` "on every successful/failed DB write" (`main.go:50`) | two handlers insert in one order and publish in the other: `iiot_db_up` is 1 after a failed write, until the next one |
| `delivery_resubscribe` | "re-subscribed inside OnConnectHandler so it survives reconnects" (`mqtt-bridge/main.go:357`) | a SUBSCRIBE that times out or is refused is only logged: connected and unsubscribed for ever |

`GaugesCurrent` takes the texts at their weakest: no request is being handled when the
gauges are compared, and `iiot_db_up` need only tell how the last write went (that a
database out of reach with no write at all leaves it at 1 is plain from the code).
It fails in more ways than the one the run shows: `iiot_db_rows_total` stays below the
table when a handler publishes an old snapshot over a newer one; `lastWriteAt`, and
with it `iiot_db_last_write_unix` and `/stats`, keeps an older row's stamp when two
handlers store it in another order than they inserted (`store.go:102`); and with a
second start `iiot_db_last_write_unix` is 0 over a table with rows, since `openStore`
reads back only their number. Each is found when the other conjuncts are dropped.
Under the fairness of `FairSpec` the counterexample of `delivery_resubscribe` ends with the
client's wait over and nothing left to do.

The bridge has two crash paths, and `CrashNeedsLateDelivery` says that there are no
others: a delivery goroutine that does not run for half a second while
`Disconnect(500)` times out, and a connect that times out at `main.go:385`, after
which `main` closes the queue (`main.go:459`) while the client keeps dialing: if it
then connects and delivers before the process ends, the handler sends on a
closed channel (with workers still busy, `wg.Wait` makes that wider). The second
path is in the model (`ConnectTimeout`, `HandlerPanic`). Also visible in the model and worth knowing: the
signal cancels the workers' context before the drain, so what is queued at
shutdown is counted as failed without a POST (`CheckContext`); and an ingestor whose
store could not be opened accepts every reading with neither a row nor a failure
counted (`Stamp`, and `memory` in `Delivery`), while its `/last` answers from
`lastStore`, which a handler with an older `receivedAt` may overwrite and so go back.
`StoredLastNeverGoesBack` is about the table only. The runbook (`runbook.md:385`) has
`/readyz` answer 200 "when no DB is configured", where a process without a store answers
503 (`GetReady`); the last entry and its timestamp gauge, which change on either side
of the unlock (`main.go:207-208`), may be left by different handlers.

## 5. Fairness

`Bridge!Fairness`: weak fairness of the handler, of `main` and of each worker. The Go
scheduler runs every runnable goroutine; each wait in these steps is bounded by a
timer that the code sets (`http.Client.Timeout` 5 s, the backoff, `WaitTimeout`,
`Disconnect(500)`, `SHUTDOWN_TIMEOUT`) and those fire. Nothing is assumed of the
broker, the network, signals or the ingestor, so `Subscribe` may never happen and
every exchange may fail. `ShutdownEnds` covers the connect-error path too, whose
`wg.Wait` has no bound of its own: it ends because the queue was closed before and
each worker's attempts are finite. `ImplementsLedger` does not need fairness.

`Ingestor` has no fairness and no liveness property: its handlers are straight-line, an
insert ends within SQLite's busy timeout, successfully or not, and `Shutdown` within
15 s, so that each POST is answered by the shape of the code.

`Collector!FairSpec`: weak fairness of `main` and strong fairness of `Stop`, nothing of
the client, the broker, the ticker or the signal. The strong one is the loop's
`select`: with a tick and a cancelled context both ready Go takes one at random, so
the context is not passed over for ever although a tick may be there each time.
`SignalEnds` needs it only for that; every wait inside the loop has its timer.

`Delivery!Fairness` (used by `delivery`, `delivery_resubscribe` and `pipeline`): weak fairness of the
bridge's steps for each message - its goroutines run, and `http.Client.Timeout` ends
every exchange (`Unanswered`) - and of `SubscribeEnds`, the end of `OnConnectHandler`'s
wait after 10 s, with one outcome or the other. Nothing is assumed of the network, the broker, the ingestor or the
collector. A message in the session of a bridge that loses its connection ends as
`missed`; one of a bridge that stays subscribed is delivered.

## 6. Proofs

TLAPS checks them for every value of the constants that satisfies the named
assumptions: `BridgeAssumption` (finitely many workers, at least one; a positive
queue size and number of attempts - what `getEnvInt` guarantees and the constant
`maxAttempts`), `IngestorAssumption` (finitely many handlers; numbers are
numbers), `DevicesAssumption` (no device is the empty text, which `Validate` refuses
and which as a filter stands for none), `DropLogAssumption`, `CollectorAssumption` and
`DeliveryAssumption` (the same for their constants; finitely many messages), `PipelineAssumption` (the messages are
the copies of the readings), `ContractAssumption`.

**`BridgeProofs`.**

- `TypeCorrect`: `TypeOK` is inductive.
- `ConservationHolds`, `BridgeImplementsLedger`: both rest on `StepAccount`: each step
  of the bridge takes a message (received and pending grow by one), settles one
  (one outcome grows, pending shrinks), or leaves the account alone. Counting the
  workers that hold a message needs the lemmas on adding and removing one of them
  (`BusyGrows`, `BusyShrinks`). For the refinement, a `Take` needs room: the channel
  within its capacity, at most all workers busy and the handler idle before it.
- `CrashOnlyByLateDelivery`, `ShutdownLosesNothing`: neither property is inductive.
  `ShutdownInv` ties `main`'s stage to how `Disconnect` ended, to `closed` and to the
  client's connection: after a `Disconnect` that completed the client is closed,
  the handler holds nothing and nobody calls it again; a worker has exited only
  with the queue closed and empty.
- `GaugeIsExact`: the gauge differs from the channel's length by the workers between
  receive and `Dec` and by the handler between send and `Inc`.
- `RetriesAreBounded` (`RetryBudget`): `BudgetInv` says that the retries counted are at
  most `MaxAttempts - 1` for each message settled by `forward`, plus the retries of
  the messages the workers hold. `Spent` writes the latter as a set of pairs of a worker and a
  number, so that the sum over the workers is a cardinality: a retry adds one pair,
  a settled message removes at most `MaxAttempts - 1`. The bound follows since only
  busy workers own pairs.

**`IngestorProofs`.**

- `TypeCorrect`: in parts (process, store, handlers), with the fact that a handler past
  the checks holds a valid reading.
- `ProcessLife`: `LifeInv`, the strengthening the others need: a process that is down
  has no store, handler or count; without a store no handler is in the states of
  the insert; after `Shutdown` returned in time no handler runs. `StoreClosedLast`
  follows.
- `AccountsBalance` (`AcceptedIsAccounted`, `RowCountIsExact`): `HandlerAccount` reduces
  every step of a handler to its effect on the table, the counters and its own
  state; `HandlerMoves` gives the change in the number of handlers in a set of
  states; the two accounts are then arithmetic. For that of the accepted requests
  `HandlerDecides` leaves four cases: a row, a failure, an acceptance, or nothing.
- `IngestorImplementsLedger`: the same four cases are the steps `Store`, `Fail`, `Accept`
  and a stutter of `StoreLedger`; that the row is appended, and the rest of the table
  left alone, is `HandlerGrowsTable`. `LifeInv` gives that the volume is lost, and a
  process starts, only with every count at 0.
- `RowsNeverLead`: the gauge and the snapshots are at most `rowCount`, which within one
  life only grows, and `rowCount` is at most the table's length by the account of rows.

**`IngestorQueryProofs`** (the GET endpoints, for a table of any length).

- `RecentIsNewest`: `queryRecent` takes as its k-th row the one with k - 1 newer
  rows. That there is one for every k is shown without induction: the number of newer
  rows (`Rank`) is different for different rows, since `Newer` is a total order, so
  it maps the matching rows one to one into equally many ranks, and takes each of
  them (`EveryRankTaken`). `queryLast` finds the row of rank 0 (`RecentAndLast`), a row of
  smaller rank is strictly newer, and a row that is not given has a rank beyond the
  limit, so that all that are given are newer than it (`RecentComplete`).
- `InsertedIsFound`: `HeldInv`, the row of a handler whose INSERT has returned is in the
  table for as long as the handler is on its way; rows are only added at the end
  (`HandlerGrowsTable`), and the volume goes only when no handler runs. The newest row
  of the device is then that row or a newer one, and both queries return it
  (`LastAndRecentAgree`).
- `StoredLastIsMonotonic`: an action property. A step leaves the table, adds a row at its end or
  empties it (`TableStep`); with `NewestInv`, that matching rows have a newest one, the
  newest of the longer table is the one before or the row added (`LastKept`).

**`DropLogProofs`.** `LinesAlwaysSpaced`, with `RateInv`: a caller about to swap has seen
a time at least a second before its own, and no line is later than `dropLogAt`. Only a
`Swap` that succeeds logs (`LogsOrNot`), and a line a second after a time that no line is
after leaves the lines apart (`AppendSpaced`).
The type invariant of `DropLog` is proved there too (`DropLogTypeCorrect`).

**`CollectorProofs`** (for any numbers of readings and lost connections).

- `CopiesBounded`: `CopiesInv` adds that a reading in the outbox that was not sent on the
  present connection has at most `losses` copies.
- `CountersBracket`, `BacklogBounded`: `Done` is the set of the readings whose outcome was
  counted, all `taken` ones but the one being published. `LoopInv` says that the
  counters add up to its size, `ReadingInv` that what was sent was received and an
  acknowledged reading has left the outbox, `CountInv` that of `Done` at least the
  successes were received and at most the failures and timeouts are in the outbox.

**`DeliveryProofs`** (for any messages, workers, queue size, attempts and ends of the
bridge).

- `DeliveryTypeOK`: `AttemptsInv` adds that a message not settled has an attempt left
  before its next POST, and one in an exchange has made one.
- `DuplicatesBounded`: `SentInv`, a message's rows and its POSTs still on their way are
  together at most its attempts: a POST that is handled late is paid for already.
- `SuccessIsAccounted`: `StoredInv`, a POST answered `stored` has its row or lost it with
  the volume, and a forwarded message has a POST that was accepted.
- `EndsHaveCauses`: `EndInv`, inductive by itself: a message is invalid only if its
  payload is, failed only after all attempts, a 4xx, or the signal or end of the
  process, lost only with the process.
- `TakenLossIsBounded`: `HeldInv`, the handler holds one message, the queue `QueueSize`, the
  workers `WorkerCount`; each end of the process moves at most these to the lost
  (`ExitStep`). What waits in the session goes to the missed and has no such bound.

**`PipelineProofs`** (for any numbers of readings, lost connections, workers and ends).

- `PipelineImplementsCollector`: every step is one of the collector or leaves it alone, so
  what `CollectorProofs` shows holds of the pipeline's edge (`EdgeHolds`).
- `PipelineImplementsDelivery`: every step is one of `Delivery` or leaves it alone. The one
  step that could fall outside it is the routing of a copy that is not among the
  messages; `CopiesBounded` of the collector excludes it (`RouteCopies`). What
  `DeliveryProofs` shows then holds of the pipeline.
- `RowsAreBounded`, `SuccessIsTraceable`: what the two parts say of themselves is joined by
  `CopyInv`: the broker has received the k-th copy of a reading exactly if k is at most
  the collector's `copies`. A row of a reading is then a pair of one of `1 + losses`
  copies and one of `MaxAttempts` numbers (`RowsOfReading`; a message not received has
  none, `NewIsUntried`). And the readings the broker received, which
  are no fewer than the successes counted, each have a first copy, whose place is
  explained by `SuccessAccounted` and `EndInv`.

**`ContractProofs`**. Each property for every text length, measured value, offset and
number, from the definitions alone; that the inputs stay what they were is the
only invariant.

Only model-checked: liveness under fairness (`ShutdownEnds`, `EveryMessageSettled`,
`SignalEnds`, `EveryReadingCounted`, `EveryMessageEnds`), which is
beyond the prover. Every invariant and every action property of the passing runs is
also proved.

## 7. Not modelled

Left out: logging, the metrics and health servers, the timeouts of the HTTP
servers, the file-size gauge (`os.Stat`), the bound of 1 MiB in bytes (a payload is
large or not), measured values within their ranges, the latency histogram,
deployment files, CI and scripts. Two replicas of the ingestor each have a volume
and a process of their own; one is modelled. SQLite, paho and Mosquitto are taken
at the behaviour the code relies on: a statement on the single connection is
atomic and fails or not by itself; paho's calls and its outbox are as described in
section 3, and it completes a publish token without an error only on the broker's
acknowledgement, also across a reconnect; the broker neither reorders nor limits
(inflight window and queue limits of `mosquitto.conf`'s defaults are out). A client
library that completed old tokens on a reconnect would weaken the lower bound of
`CountersBracketDeliveries` and, with it, `SuccessTraceable`. `Delivery` leaves out the steps
of the bridge's shutdown, which `Bridge` has, and the order of messages, which nothing
in the code depends on. The parsers of the settings are left out: each replaces what
does not parse or is not positive by a constant, which the assumptions on the
constants rely on.

------------------------------- MODULE Bridge -------------------------------
(***************************************************************************)
(* The MQTT-to-HTTP bridge (cloud/mqtt-bridge/main.go): paho's delivery    *)
(* goroutine puts messages into a buffered channel, a pool of workers      *)
(* forwards them to the ingestor with retries, and main connects, waits    *)
(* for a signal and shuts the two down.                                    *)
(*                                                                         *)
(* A message is abstracted to whether it decodes and passes Validate, an   *)
(* HTTP exchange to the class of its answer, a timer to the choice of      *)
(* firing at any moment.  The paho client and the broker are environment.  *)
(***************************************************************************)
EXTENDS Integers, Sequences, FiniteSets

CONSTANTS
    Workers,      \* the goroutines started by startWorkers (BRIDGE_WORKERS)
    QueueSize,    \* capacity of the channel (BRIDGE_QUEUE_SIZE)
    MaxAttempts,  \* maxAttempts
    MaxReceived   \* bound: messages the broker delivers in one run

ASSUME BridgeAssumption ==
    /\ IsFiniteSet(Workers) /\ Workers # {}
    /\ QueueSize \in Nat \ {0}
    /\ MaxAttempts \in Nat \ {0}
    /\ MaxReceived \in Nat

VARIABLES
    main,        \* where main() is
    disconnect,  \* how far mqttClient.Disconnect got
    cancelled,   \* ctx has been cancelled by SIGINT or SIGTERM
    mqtt,        \* the paho client's connection
    urlParses,   \* http.NewRequest accepts INGESTOR_URL; never changes
    handler,     \* where the delivery goroutine is in mqttHandler
    held,        \* the payload copy mqttHandler holds
    queue,       \* b.queue
    closed,      \* b.queue has been closed
    pc,          \* where each worker is
    data,        \* the payload each worker holds
    attempt,     \* the attempt counter of forward
    metric       \* the Prometheus counters and the queue_depth gauge

mainVars   == <<main, disconnect, cancelled, closed>>
outsideVars == <<mqtt, urlParses>>
handlerVars == <<handler, held>>
workerVars == <<pc, data, attempt>>
vars == <<mainVars, outsideVars, handlerVars, queue, workerVars, metric>>

Message == {"valid", "invalid"}

Metrics == {"received", "dropped", "invalid", "success", "failure",
            "retry", "depth"}

MainStates == {"connecting", "serving", "disconnecting", "closing",
               "draining", "abandoning", "joining", "stopping",
               "exited", "crashed"}

WorkerStates == {"receive", "dequeued", "process", "check", "backoff",
                 "post", "inflight", "exited"}

Running == main \notin {"exited", "crashed"}

Counted(name, n) == [metric EXCEPT ![name] = @ + n]

Init ==
    /\ main = "connecting"
    /\ disconnect = "none"
    /\ cancelled = FALSE
    /\ mqtt = "dialing" /\ urlParses \in BOOLEAN
    /\ handler = "idle" /\ held = "none"
    /\ queue = <<>> /\ closed = FALSE
    /\ pc = [w \in Workers |-> "receive"]
    /\ data = [w \in Workers |-> "none"]
    /\ attempt = [w \in Workers |-> 0]
    /\ metric = [m \in Metrics |-> 0]

-----------------------------------------------------------------------------
(* The paho client.  It keeps dialing after newMQTTClient has given up     *)
(* (ConnectRetry), reconnects by itself (AutoReconnect) and delivers one   *)
(* message at a time.  A connection goes down only once the delivery       *)
(* goroutine has returned from the handler.                                *)

ConnectUp ==
    /\ Running
    /\ mqtt \in {"dialing", "reconnecting"}
    /\ mqtt' = "connected"
    /\ UNCHANGED <<mainVars, urlParses, handlerVars, queue, workerVars,
                   metric>>

\* OnConnectHandler subscribes after every connect.  When the SUBSCRIBE is
\* refused or lost it only logs: the client then stays "connected".
Subscribe ==
    /\ Running
    /\ mqtt = "connected"
    /\ mqtt' = "subscribed"
    /\ UNCHANGED <<mainVars, urlParses, handlerVars, queue, workerVars,
                   metric>>

ConnectionLost ==
    /\ Running
    /\ mqtt \in {"connected", "subscribed"}
    /\ handler = "idle"
    /\ mqtt' = IF disconnect \in {"none", "never"} THEN "reconnecting"
                                                    ELSE "closed"
    /\ UNCHANGED <<mainVars, urlParses, handlerVars, queue, workerVars,
                   metric>>

Signal ==
    /\ Running
    /\ ~cancelled
    /\ cancelled' = TRUE
    /\ UNCHANGED <<main, disconnect, closed, outsideVars, handlerVars, queue,
                   workerVars, metric>>

-----------------------------------------------------------------------------
(* mqttHandler, on paho's delivery goroutine.                              *)

HandlerReceive(m) ==
    /\ Running
    /\ mqtt = "subscribed" /\ handler = "idle"
    /\ metric["received"] < MaxReceived
    /\ handler' = "holding" /\ held' = m
    /\ metric' = Counted("received", 1)
    /\ UNCHANGED <<mainVars, outsideVars, queue, workerVars>>

\* Mutant: the channel grows instead of being full.
HandlerEnqueueAlways ==
    /\ Running
    /\ handler = "holding" /\ ~closed
    /\ queue' = Append(queue, held)
    /\ handler' = "sent" /\ held' = "none"
    /\ UNCHANGED <<mainVars, outsideVars, workerVars, metric>>

HandlerEnqueue ==
    /\ Running
    /\ handler = "holding" /\ ~closed /\ Len(queue) < QueueSize
    /\ queue' = Append(queue, held)
    /\ handler' = "sent" /\ held' = "none"
    /\ UNCHANGED <<mainVars, outsideVars, workerVars, metric>>

\* The gauge moves after the send: a worker may take the message in between.
HandlerCount ==
    /\ Running
    /\ handler = "sent"
    /\ handler' = "idle"
    /\ metric' = Counted("depth", 1)
    /\ UNCHANGED <<mainVars, outsideVars, held, queue, workerVars>>

\* Mutant: queueDepth.Inc moved after the select, so that drops count too.
HandlerDropCountsDepth ==
    /\ Running
    /\ handler = "holding" /\ ~closed /\ Len(queue) = QueueSize
    /\ handler' = "idle" /\ held' = "none"
    /\ metric' = [metric EXCEPT !["dropped"] = @ + 1, !["depth"] = @ + 1]
    /\ UNCHANGED <<mainVars, outsideVars, queue, workerVars>>


HandlerDrop ==
    /\ Running
    /\ handler = "holding" /\ ~closed /\ Len(queue) = QueueSize
    /\ handler' = "idle" /\ held' = "none"
    /\ metric' = Counted("dropped", 1)
    /\ UNCHANGED <<mainVars, outsideVars, queue, workerVars>>

\* A send on a closed channel panics, select with a default or not, and
\* nothing recovers it: the process dies.
HandlerPanic ==
    /\ Running
    /\ handler = "holding" /\ closed
    /\ main' = "crashed"
    /\ UNCHANGED <<disconnect, cancelled, closed, outsideVars, handlerVars,
                   queue, workerVars, metric>>

Handler == HandlerEnqueue \/ HandlerCount \/ HandlerDrop \/ HandlerPanic

-----------------------------------------------------------------------------
(* The workers: startWorkers, process and forward.                         *)

At(w, state) == Running /\ pc[w] = state

Goto(w, state) == pc' = [pc EXCEPT ![w] = state]

\* process returns and the worker goes back to ranging over the channel.
Finish(w, outcome) ==
    /\ Goto(w, "receive")
    /\ data' = [data EXCEPT ![w] = "none"]
    /\ attempt' = [attempt EXCEPT ![w] = 0]
    /\ metric' = Counted(outcome, 1)

WorkerReceive(w) ==
    /\ At(w, "receive")
    /\ queue # <<>>
    /\ data' = [data EXCEPT ![w] = Head(queue)]
    /\ queue' = Tail(queue)
    /\ Goto(w, "dequeued")
    /\ UNCHANGED <<mainVars, outsideVars, handlerVars, attempt, metric>>

\* Mutant: a worker also leaves its loop when the context is cancelled.
WorkerExitOnCancel(w) ==
    /\ At(w, "receive")
    /\ cancelled \/ (closed /\ queue = <<>>)
    /\ Goto(w, "exited")
    /\ UNCHANGED <<mainVars, outsideVars, handlerVars, queue, data, attempt,
                   metric>>


WorkerExit(w) ==
    /\ At(w, "receive")
    /\ closed /\ queue = <<>>
    /\ Goto(w, "exited")
    /\ UNCHANGED <<mainVars, outsideVars, handlerVars, queue, data, attempt,
                   metric>>

WorkerCount(w) ==
    /\ At(w, "dequeued")
    /\ Goto(w, "process")
    /\ metric' = Counted("depth", -1)
    /\ UNCHANGED <<mainVars, outsideVars, handlerVars, queue, data, attempt>>

\* Mutant: the return after an invalid reading is missing.
ProcessFallsThrough(w) ==
    /\ At(w, "process")
    /\ Goto(w, "check")
    /\ metric' = IF data[w] = "invalid" THEN Counted("invalid", 1) ELSE metric
    /\ UNCHANGED <<mainVars, outsideVars, handlerVars, queue, data, attempt>>

\* Mutant: an invalid reading ends the worker instead of one iteration.
ProcessEndsWorker(w) ==
    /\ At(w, "process")
    /\ \/ /\ data[w] = "invalid"
          /\ Goto(w, "exited")
          /\ metric' = Counted("invalid", 1)
       \/ /\ data[w] = "valid"
          /\ Goto(w, "check")
          /\ UNCHANGED metric
    /\ UNCHANGED <<mainVars, outsideVars, handlerVars, queue, data, attempt>>


Process(w) ==
    /\ At(w, "process")
    /\ \/ data[w] = "invalid" /\ Finish(w, "invalid")
       \/ /\ data[w] = "valid"
          /\ Goto(w, "check")
          /\ UNCHANGED <<data, attempt, metric>>
    /\ UNCHANGED <<mainVars, outsideVars, handlerVars, queue>>

\* The top of forward's loop: give up once cancelled, count a retry.
CheckContext(w) ==
    /\ At(w, "check")
    /\ \/ cancelled /\ Finish(w, "failure")
       \/ /\ ~cancelled /\ attempt[w] = 0
          /\ Goto(w, "post")
          /\ UNCHANGED <<data, attempt, metric>>
       \/ /\ ~cancelled /\ attempt[w] > 0
          /\ Goto(w, "backoff")
          /\ metric' = Counted("retry", 1)
          /\ UNCHANGED <<data, attempt>>
    /\ UNCHANGED <<mainVars, outsideVars, handlerVars, queue>>

\* The timer and ctx.Done race: when both are ready select takes either.
Backoff(w) ==
    /\ At(w, "backoff")
    /\ \/ Goto(w, "post") /\ UNCHANGED <<data, attempt, metric>>
       \/ cancelled /\ Finish(w, "failure")
    /\ UNCHANGED <<mainVars, outsideVars, handlerVars, queue>>

\* Mutant: the loop runs once too often.
AttemptFailedOffByOne(w) ==
    \/ /\ attempt[w] + 1 <= MaxAttempts
       /\ attempt' = [attempt EXCEPT ![w] = @ + 1]
       /\ Goto(w, "check")
       /\ UNCHANGED <<data, metric>>
    \/ attempt[w] = MaxAttempts /\ Finish(w, "failure")

\* The loop's next iteration, or the error after its last one.
AttemptFailed(w) ==
    \/ /\ attempt[w] + 1 < MaxAttempts
       /\ attempt' = [attempt EXCEPT ![w] = @ + 1]
       /\ Goto(w, "check")
       /\ UNCHANGED <<data, metric>>
    \/ attempt[w] + 1 = MaxAttempts /\ Finish(w, "failure")

\* A request under a cancelled context fails without being sent.
Post(w) ==
    /\ At(w, "post")
    /\ \/ ~urlParses /\ Finish(w, "failure")
       \/ urlParses /\ cancelled /\ AttemptFailed(w)
       \/ /\ urlParses /\ ~cancelled
          /\ Goto(w, "inflight")
          /\ UNCHANGED <<data, attempt, metric>>
    /\ UNCHANGED <<mainVars, outsideVars, handlerVars, queue>>

\* 202 settles the message, 4xx settles it as failed, and 5xx, any other
\* status, a network error, the client timeout or a cancelled context leads
\* to the next attempt.
Respond(w) ==
    /\ At(w, "inflight")
    /\ \/ Finish(w, "success")
       \/ Finish(w, "failure")
       \/ AttemptFailed(w)
    /\ UNCHANGED <<mainVars, outsideVars, handlerVars, queue>>

Worker(w) ==
    \/ WorkerReceive(w) \/ WorkerExit(w) \/ WorkerCount(w) \/ Process(w)
    \/ CheckContext(w) \/ Backoff(w) \/ Post(w) \/ Respond(w)

AllExited == \A w \in Workers : pc[w] = "exited"

-----------------------------------------------------------------------------
(* main.                                                                   *)

MainGoto(from, to) == main = from /\ main' = to

ConnectReturns ==
    /\ MainGoto("connecting", "serving")
    /\ mqtt # "dialing"
    /\ UNCHANGED <<disconnect, cancelled, closed, outsideVars, handlerVars,
                   queue, workerVars, metric>>

\* WaitTimeout gives up after 10 s; nothing tells the client to stop dialing.
ConnectTimeout ==
    /\ MainGoto("connecting", "abandoning")
    /\ disconnect' = "never"
    /\ UNCHANGED <<cancelled, closed, outsideVars, handlerVars, queue,
                   workerVars, metric>>

\* Connect reports an error (no usable broker URL): the client is dead.
ConnectError ==
    /\ MainGoto("connecting", "abandoning")
    /\ mqtt = "dialing" /\ mqtt' = "closed"
    /\ disconnect' = "never"
    /\ UNCHANGED <<cancelled, closed, urlParses, handlerVars, queue,
                   workerVars, metric>>

StartDisconnect ==
    /\ MainGoto("serving", "disconnecting")
    /\ cancelled
    /\ disconnect' = "called"
    /\ mqtt' = IF mqtt = "reconnecting" THEN "closed" ELSE mqtt
    /\ UNCHANGED <<cancelled, closed, urlParses, handlerVars, queue,
                   workerVars, metric>>

\* Disconnect returns once the client has stopped...
DisconnectReturns ==
    /\ MainGoto("disconnecting", "closing")
    /\ mqtt = "closed"
    /\ disconnect' = "done"
    /\ UNCHANGED <<cancelled, closed, outsideVars, handlerVars, queue,
                   workerVars, metric>>

\* ... or when its 500 ms quiesce timer fires first.
QuiesceExpires ==
    /\ MainGoto("disconnecting", "closing")
    /\ disconnect' = "expired"
    /\ UNCHANGED <<cancelled, closed, outsideVars, handlerVars, queue,
                   workerVars, metric>>

\* Mutant: main closes the queue without disconnecting first.
CloseQueueFirst ==
    /\ \/ MainGoto("closing", "draining")
       \/ MainGoto("abandoning", "joining")
       \/ MainGoto("serving", "draining") /\ cancelled
    /\ closed' = TRUE
    /\ UNCHANGED <<disconnect, cancelled, outsideVars, handlerVars, queue,
                   workerVars, metric>>

\* Mutant: the connect-error path waits for the workers of an open queue.
CloseQueueForgotten ==
    /\ \/ MainGoto("closing", "draining") /\ closed' = TRUE
       \/ MainGoto("abandoning", "joining") /\ closed' = closed
    /\ UNCHANGED <<disconnect, cancelled, outsideVars, handlerVars, queue,
                   workerVars, metric>>


CloseQueue ==
    /\ MainGoto("closing", "draining") \/ MainGoto("abandoning", "joining")
    /\ closed' = TRUE
    /\ UNCHANGED <<disconnect, cancelled, outsideVars, handlerVars, queue,
                   workerVars, metric>>

\* Draining is bounded by SHUTDOWN_TIMEOUT, which may fire at any moment; the
\* wg.Wait of the connect-error path has no bound.
DrainEnds ==
    /\ \/ MainGoto("draining", "stopping")
       \/ MainGoto("joining", "stopping") /\ AllExited
    /\ UNCHANGED <<disconnect, cancelled, closed, outsideVars, handlerVars,
                   queue, workerVars, metric>>

\* The metrics server shuts down within 5 s and main returns.
Exit ==
    /\ MainGoto("stopping", "exited")
    /\ UNCHANGED <<disconnect, cancelled, closed, outsideVars, handlerVars,
                   queue, workerVars, metric>>

Main ==
    \/ ConnectReturns \/ ConnectTimeout \/ ConnectError
    \/ StartDisconnect \/ DisconnectReturns \/ QuiesceExpires
    \/ CloseQueue \/ DrainEnds \/ Exit

\* The process is gone; nothing moves any more.
Stopped == ~Running /\ UNCHANGED vars

Environment ==
    \/ ConnectUp \/ Subscribe \/ ConnectionLost \/ Signal
    \/ \E m \in Message : HandlerReceive(m)

Next ==
    \/ Environment
    \/ Handler
    \/ \E w \in Workers : Worker(w)
    \/ Main
    \/ Stopped

Spec == Init /\ [][Next]_vars

\* Goroutines are scheduled, timers fire, and the HTTP client's own timeout
\* ends every exchange.  Nothing is assumed of the network or of signals.
Fairness ==
    /\ WF_vars(Handler)
    /\ WF_vars(Main)
    /\ \A w \in Workers : WF_vars(Worker(w))

FairSpec == Spec /\ Fairness

-----------------------------------------------------------------------------
(* Correctness.                                                            *)

ControlOK ==
    /\ main \in MainStates
    /\ disconnect \in {"none", "called", "done", "expired", "never"}
    /\ cancelled \in BOOLEAN /\ closed \in BOOLEAN /\ urlParses \in BOOLEAN
    /\ mqtt \in {"dialing", "reconnecting", "connected", "subscribed",
                 "closed"}
    /\ handler \in {"idle", "holding", "sent"}
    /\ pc \in [Workers -> WorkerStates]

DataOK ==
    /\ held \in Message \cup {"none"}
    /\ handler = "holding" => held \in Message
    /\ queue \in Seq(Message) /\ Len(queue) <= QueueSize
    /\ data \in [Workers -> Message \cup {"none"}]
    /\ attempt \in [Workers -> 0 .. MaxAttempts - 1]

MetricOK(m) ==
    /\ m \in [Metrics -> Int]
    /\ \A k \in Metrics \ {"depth"} : m[k] >= 0

\* Every variable keeps its type: the channel never holds more than
\* QueueSize messages, only queue_depth may be negative, and forward's
\* attempt counter stays below maxAttempts.
TypeOK == ControlOK /\ DataOK /\ MetricOK(metric)

One(condition) == IF condition THEN 1 ELSE 0

\* The workers that have taken a message off the queue and not settled it.
Busy == {w \in Workers : pc[w] \notin {"receive", "exited"}}

Dequeued == {w \in Workers : pc[w] = "dequeued"}

Pending == Len(queue) + Cardinality(Busy) + One(handler = "holding")

Settled == metric["dropped"] + metric["invalid"]
             + metric["success"] + metric["failure"]

\* bridge_messages_received_total is at every moment the sum of the outcome
\* counters and of the messages in the handler, the queue and the workers:
\* no message is lost between the goroutines or counted under two outcomes.
Conservation == metric["received"] = Settled + Pending

\* bridge_queue_depth differs from the length of the channel only by the
\* messages whose Inc or Dec is outstanding (lines 189-190 and 221-222); a
\* worker faster than the handler makes it read -1.
GaugeExact ==
    metric["depth"] =
        Len(queue) + Cardinality(Dequeued) - One(handler = "sent")

\* wg.Wait promises that all in-flight items have been processed (lines
\* 213-214): once Disconnect completed and every worker has returned, every
\* message received has been settled, and none is left in the channel.
CleanShutdown ==
    disconnect = "done" /\ AllExited => Settled = metric["received"]

\* The process dies of a send on the closed queue only if Disconnect's
\* quiesce timer cut it short or was never called at all: a Disconnect that
\* completes makes the close safe.
CrashNeedsLateDelivery ==
    main = "crashed" => disconnect \in {"expired", "never"}

\* Summed over all messages no more than maxAttempts - 1 retries are counted
\* for each one that reached forward, and none at all for a request that cannot
\* be built (lines 308-311): a bad INGESTOR_URL spends no backoff.
RetryBudget ==
    metric["retry"] <=
        IF urlParses
          THEN (MaxAttempts - 1) *
                   (metric["success"] + metric["failure"] + Cardinality(Busy))
          ELSE 0

\* The bridge keeps the account that BridgeLedger describes: a message is
\* settled once, and at most QueueSize + BRIDGE_WORKERS + 1 are pending.
Ledger == INSTANCE BridgeLedger WITH
    Capacity <- QueueSize + Cardinality(Workers) + 1,
    running  <- Running,
    taken    <- metric["received"],
    pending  <- Pending,
    settled  <- [o \in {"dropped", "invalid", "success", "failure"} |->
                    metric[o]]

ImplementsLedger == Ledger!Spec

\* A signal, or a failed initial connect, ends the process: no order of
\* messages, retries and answers keeps main waiting for ever, although the
\* wg.Wait of the connect-error path has no timeout.
ShutdownEnds == cancelled \/ main = "abandoning" ~> ~Running

\* While the process lives every message taken from the broker is settled.
EveryMessageSettled ==
    \A n \in 1 .. MaxReceived :
        metric["received"] >= n ~> (Settled >= n \/ ~Running)

-----------------------------------------------------------------------------
(* What comments and help texts of the source say and the code does not do. *)

\* "No send to b.queue occurs after mqttClient.Disconnect" (main.go:476).
NoSendAfterDisconnect ==
    disconnect \in {"done", "expired"} => handler # "holding"
=============================================================================

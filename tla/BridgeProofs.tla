---------------------------- MODULE BridgeProofs ----------------------------
(***************************************************************************)
(* Proofs about the bridge for every number of workers, queue size, number *)
(* of attempts and number of messages.                                     *)
(***************************************************************************)
EXTENDS Bridge, FiniteSetTheorems, TLAPS

-----------------------------------------------------------------------------
(* The metrics.                                                            *)

LEMMA MetricNames ==
  /\ "received" \in Metrics /\ "dropped" \in Metrics /\ "invalid" \in Metrics
  /\ "success" \in Metrics /\ "failure" \in Metrics /\ "retry" \in Metrics
  /\ "depth" \in Metrics
BY DEF Metrics

(* Counting up any metric, or the gauge up or down, changes that metric    *)
(* only and keeps the counters non-negative.                               *)
LEMMA CountedMetric ==
  ASSUME MetricOK(metric), NEW name \in Metrics, NEW n \in Int,
         n >= 0 \/ name = "depth"
  PROVE  /\ MetricOK(Counted(name, n))
         /\ Counted(name, n)[name] = metric[name] + n
         /\ \A k \in Metrics \ {name} : Counted(name, n)[k] = metric[k]
BY DEF MetricOK, Counted

-----------------------------------------------------------------------------
(* Type correctness.                                                       *)

(* What every step of a worker between dequeuing and the end of process    *)
(* leaves alone.                                                           *)
WorkerAlone == UNCHANGED <<mainVars, outsideVars, handlerVars, queue>>

LEMMA FinishTyped ==
  ASSUME TypeOK, NEW w \in Workers, NEW o \in {"invalid", "success", "failure"},
         Finish(w, o), WorkerAlone
  PROVE  TypeOK'
<1> USE DEF TypeOK, WorkerAlone, mainVars, outsideVars, handlerVars, Finish, Goto
<1>1. ControlOK'
  BY DEF ControlOK, WorkerStates
<1>2. DataOK'
  BY BridgeAssumption DEF BridgeAssumption, DataOK
<1>3. MetricOK(metric)'
  BY CountedMetric, MetricNames
<1>4. QED
  BY <1>1, <1>2, <1>3

LEMMA AttemptFailedTyped ==
  ASSUME TypeOK, NEW w \in Workers, AttemptFailed(w), WorkerAlone
  PROVE  TypeOK'
<1>1. CASE Finish(w, "failure")
  BY <1>1, FinishTyped
<1>2. CASE /\ attempt[w] + 1 < MaxAttempts
           /\ attempt' = [attempt EXCEPT ![w] = @ + 1]
           /\ Goto(w, "check")
           /\ UNCHANGED <<data, metric>>
  <2> USE <1>2 DEF TypeOK, WorkerAlone, mainVars, outsideVars, handlerVars, Goto
  <2>1. ControlOK'
    BY DEF ControlOK, WorkerStates
  <2>2. DataOK'
    BY BridgeAssumption DEF BridgeAssumption, DataOK
  <2>3. QED
    BY <2>1, <2>2
<1>3. QED
  BY <1>1, <1>2 DEF AttemptFailed

(* Moving a worker, with its data and counters untouched.                  *)
LEMMA GotoTyped ==
  ASSUME TypeOK, NEW w \in Workers, NEW state \in WorkerStates,
         Goto(w, state), UNCHANGED <<data, attempt>>, WorkerAlone,
         MetricOK(metric)'
  PROVE  TypeOK'
<1> USE DEF TypeOK, WorkerAlone, mainVars, outsideVars, handlerVars, Goto
<1>1. ControlOK'
  BY DEF ControlOK
<1>2. DataOK'
  BY DEF DataOK
<1>3. QED
  BY <1>1, <1>2

\* The type invariant of the bridge holds in every reachable state: in
\* particular the channel never exceeds its capacity and the attempt counter
\* of forward stays below maxAttempts.
THEOREM TypeCorrect == Spec => []TypeOK
<1> USE BridgeAssumption DEF BridgeAssumption, Message
<1>1. Init => TypeOK
  <2> SUFFICES ASSUME Init PROVE TypeOK
    OBVIOUS
  <2>1. ControlOK
    BY DEF Init, ControlOK, MainStates, WorkerStates
  <2>2. DataOK
    BY DEF Init, DataOK
  <2>3. MetricOK(metric)
    BY DEF Init, MetricOK
  <2>4. QED
    BY <2>1, <2>2, <2>3 DEF TypeOK
<1>2. TypeOK /\ [Next]_vars => TypeOK'
  <2> SUFFICES ASSUME TypeOK, [Next]_vars PROVE TypeOK'
    OBVIOUS
  <2> USE MetricNames, CountedMetric
      DEF TypeOK, mainVars, outsideVars, handlerVars, workerVars
  <2>1. CASE ConnectUp
    BY <2>1 DEF ConnectUp, ControlOK, DataOK
  <2>2. CASE Subscribe
    BY <2>2 DEF Subscribe, ControlOK, DataOK
  <2>3. CASE ConnectionLost
    BY <2>3 DEF ConnectionLost, ControlOK, DataOK
  <2>4. CASE Signal
    BY <2>4 DEF Signal, ControlOK, DataOK
  <2>5. ASSUME NEW m \in Message, HandlerReceive(m) PROVE TypeOK'
    BY <2>5 DEF HandlerReceive, ControlOK, DataOK
  <2>6. CASE HandlerEnqueue
    BY <2>6 DEF HandlerEnqueue, ControlOK, DataOK
  <2>7. CASE HandlerCount
    BY <2>7 DEF HandlerCount, ControlOK, DataOK
  <2>8. CASE HandlerDrop
    BY <2>8 DEF HandlerDrop, ControlOK, DataOK
  <2>9. CASE HandlerPanic
    BY <2>9 DEF HandlerPanic, ControlOK, DataOK, MainStates
  <2>10. ASSUME NEW w \in Workers, Worker(w) PROVE TypeOK'
    <3>1. CASE WorkerReceive(w)
      BY <3>1 DEF WorkerReceive, At, Goto, WorkerStates, ControlOK, DataOK
    <3>2. CASE WorkerExit(w)
      BY <3>2, GotoTyped DEF WorkerExit, WorkerAlone, WorkerStates
    <3>3. CASE WorkerCount(w)
      BY <3>3, GotoTyped DEF WorkerCount, WorkerAlone, WorkerStates
    <3>4. CASE Process(w)
      BY <3>4, FinishTyped, GotoTyped DEF Process, WorkerAlone, WorkerStates
    <3>5. CASE CheckContext(w)
      BY <3>5, FinishTyped, GotoTyped
         DEF CheckContext, WorkerAlone, WorkerStates
    <3>6. CASE Backoff(w)
      BY <3>6, FinishTyped, GotoTyped DEF Backoff, WorkerAlone, WorkerStates
    <3>7. CASE Post(w)
      BY <3>7, FinishTyped, AttemptFailedTyped, GotoTyped
         DEF Post, WorkerAlone, WorkerStates
    <3>8. CASE Respond(w)
      BY <3>8, FinishTyped, AttemptFailedTyped DEF Respond, WorkerAlone
    <3>9. QED
      BY <2>10, <3>1, <3>2, <3>3, <3>4, <3>5, <3>6, <3>7, <3>8 DEF Worker
  <2>11. CASE Main
    <3> SUFFICES ControlOK'
      BY <2>11 DEF Main, ConnectReturns, ConnectTimeout, ConnectError,
         StartDisconnect, DisconnectReturns, QuiesceExpires, CloseQueue,
         DrainEnds, Exit, DataOK
    <3> USE DEF MainGoto, ControlOK, MainStates
    <3>1. CASE ConnectReturns \/ ConnectTimeout \/ ConnectError
      BY <3>1 DEF ConnectReturns, ConnectTimeout, ConnectError
    <3>2. CASE StartDisconnect \/ DisconnectReturns \/ QuiesceExpires
      BY <3>2 DEF StartDisconnect, DisconnectReturns, QuiesceExpires
    <3>3. CASE CloseQueue \/ DrainEnds \/ Exit
      BY <3>3 DEF CloseQueue, DrainEnds, Exit
    <3>4. QED
      BY <2>11, <3>1, <3>2, <3>3 DEF Main
  <2>12. CASE UNCHANGED vars
    BY <2>12 DEF vars, ControlOK, DataOK
  <2>13. QED
    BY <2>1, <2>2, <2>3, <2>4, <2>5, <2>6, <2>7, <2>8, <2>9, <2>10, <2>11,
       <2>12 DEF Next, Environment, Handler, Stopped
<1>3. QED
  BY <1>1, <1>2, PTL DEF Spec

-----------------------------------------------------------------------------
(* Counting the messages that are on their way.                            *)

LEMMA WorkerSetsFinite ==
  /\ IsFiniteSet(Busy) /\ Cardinality(Busy) \in Nat
  /\ Cardinality(Busy) <= Cardinality(Workers)
  /\ Cardinality(Workers) \in Nat
  /\ IsFiniteSet(Dequeued) /\ Cardinality(Dequeued) \in Nat
<1>1. Busy \subseteq Workers /\ Dequeued \subseteq Workers
  BY DEF Busy, Dequeued
<1>2. IsFiniteSet(Workers)
  BY BridgeAssumption DEF BridgeAssumption
<1>3. QED
  BY <1>1, <1>2, FS_Subset, FS_CardinalityType

(* A worker becomes busy, stays busy, or becomes idle.                     *)
LEMMA BusyGrows ==
  ASSUME ControlOK, NEW w \in Workers, NEW state \in WorkerStates,
         pc[w] = "receive", state \notin {"receive", "exited"}, Goto(w, state)
  PROVE  Cardinality(Busy)' = Cardinality(Busy) + 1
<1>1. Busy' = Busy \cup {w} /\ w \notin Busy
  BY DEF Busy, Goto, ControlOK
<1>2. QED
  BY <1>1, WorkerSetsFinite, FS_AddElement

LEMMA BusyStays ==
  ASSUME ControlOK, NEW w \in Workers, NEW state \in WorkerStates,
         pc[w] \in {"receive", "exited"} <=> state \in {"receive", "exited"},
         Goto(w, state)
  PROVE  Cardinality(Busy)' = Cardinality(Busy)
<1>1. Busy' = Busy
  BY DEF Busy, Goto, ControlOK
<1>2. QED
  BY <1>1

LEMMA BusyShrinks ==
  ASSUME ControlOK, NEW w \in Workers,
         pc[w] \notin {"receive", "exited"}, Goto(w, "receive")
  PROVE  /\ Cardinality(Busy)' = Cardinality(Busy) - 1
         /\ Cardinality(Busy) > 0
<1>1. Busy' = Busy \ {w} /\ w \in Busy
  BY DEF Busy, Goto, ControlOK
<1>2. Cardinality(Busy') = Cardinality(Busy) - 1
  BY <1>1, WorkerSetsFinite, FS_RemoveElement
<1>3. IsFiniteSet(Busy') /\ Cardinality(Busy') \in Nat
  BY <1>1, WorkerSetsFinite, FS_RemoveElement, FS_CardinalityType
<1>4. QED
  BY <1>2, <1>3, WorkerSetsFinite

-----------------------------------------------------------------------------
(* The effect of a step on the account of messages: it takes a message, or *)
(* settles one, or leaves the account alone.                               *)

Outcomes == {"dropped", "invalid", "success", "failure"}

Takes ==
  /\ handler = "idle"
  /\ metric' = Counted("received", 1)
  /\ Pending' = Pending + 1

Settles(o) ==
  /\ Pending > 0
  /\ metric' = Counted(o, 1)
  /\ Pending' = Pending - 1

Spares ==
  /\ \A k \in Metrics \ {"retry", "depth"} : metric'[k] = metric[k]
  /\ Pending' = Pending

LEMMA CountsAside ==
  ASSUME MetricOK(metric), NEW name \in {"retry", "depth"}, NEW n \in {-1, 1},
         name = "retry" => n = 1
  PROVE  \A k \in Metrics \ {"retry", "depth"} : Counted(name, n)[k] = metric[k]
BY CountedMetric, MetricNames

LEMMA PendingParts ==
  ASSUME TypeOK
  PROVE  /\ Len(queue) \in Nat /\ Cardinality(Busy) \in Nat
         /\ Pending \in Nat
         /\ Pending = Len(queue) + Cardinality(Busy) + One(handler = "holding")
BY WorkerSetsFinite DEF TypeOK, DataOK, Pending, One

(* A worker settles its message when process returns.                      *)
LEMMA FinishSettles ==
  ASSUME TypeOK, NEW w \in Workers, NEW o \in {"invalid", "success", "failure"},
         pc[w] \notin {"receive", "exited"}, Finish(w, o), WorkerAlone
  PROVE  Settles(o)
<1>1. Cardinality(Busy)' = Cardinality(Busy) - 1 /\ Cardinality(Busy) > 0
  BY BusyShrinks DEF Finish, TypeOK
<1>2. QED
  BY <1>1, PendingParts
     DEF Settles, Finish, WorkerAlone, handlerVars, Pending, One

(* A worker that moves on with its message changes nothing pending.        *)
LEMMA GotoSpares ==
  ASSUME TypeOK, NEW w \in Workers, NEW state \in WorkerStates,
         pc[w] \notin {"receive", "exited"}, state \notin {"receive", "exited"},
         Goto(w, state), WorkerAlone,
         \A k \in Metrics \ {"retry", "depth"} : metric'[k] = metric[k]
  PROVE  Spares
<1>1. Cardinality(Busy)' = Cardinality(Busy)
  BY BusyStays DEF TypeOK
<1>2. QED
  BY <1>1, PendingParts DEF Spares, WorkerAlone, handlerVars, Pending

LEMMA AttemptFailedAccount ==
  ASSUME TypeOK, NEW w \in Workers, pc[w] \notin {"receive", "exited"},
         AttemptFailed(w), WorkerAlone
  PROVE  Settles("failure") \/ Spares
<1>1. CASE Finish(w, "failure")
  BY <1>1, FinishSettles
<1>2. CASE Goto(w, "check") /\ UNCHANGED <<data, metric>>
  BY <1>2, GotoSpares DEF WorkerStates
<1>3. QED
  BY <1>1, <1>2 DEF AttemptFailed

LEMMA WorkerAccount ==
  ASSUME TypeOK, NEW w \in Workers, Worker(w)
  PROVE  Spares \/ \E o \in Outcomes : Settles(o)
<1> USE DEF At
<1>1. CASE WorkerReceive(w)
  <2>1. Cardinality(Busy)' = Cardinality(Busy) + 1
    BY <1>1, BusyGrows DEF WorkerReceive, TypeOK, WorkerStates
  <2>2. Len(queue') = Len(queue) - 1
    BY <1>1 DEF WorkerReceive, TypeOK, DataOK
  <2>3. QED
    BY <1>1, <2>1, <2>2, PendingParts
       DEF WorkerReceive, handlerVars, Spares, Pending, One
<1>2. CASE WorkerExit(w)
  <2>1. Cardinality(Busy)' = Cardinality(Busy)
    BY <1>2, BusyStays DEF WorkerExit, TypeOK, WorkerStates
  <2>2. QED
    BY <1>2, <2>1, PendingParts
       DEF WorkerExit, handlerVars, Spares, Pending, One
<1>3. CASE WorkerCount(w)
  <2>1. \A k \in Metrics \ {"retry", "depth"} : metric'[k] = metric[k]
    BY <1>3, CountsAside DEF WorkerCount, TypeOK
  <2>2. QED
    BY <1>3, <2>1, GotoSpares DEF WorkerCount, WorkerAlone, WorkerStates
<1>4. CASE Process(w)
  BY <1>4, FinishSettles, GotoSpares
     DEF Process, WorkerAlone, WorkerStates, Outcomes
<1>5. CASE CheckContext(w)
  <2>1. CASE Finish(w, "failure")
    BY <1>5, <2>1, FinishSettles DEF CheckContext, WorkerAlone, Outcomes
  <2>2. CASE Goto(w, "post") /\ UNCHANGED metric
    BY <1>5, <2>2, GotoSpares DEF CheckContext, WorkerAlone, WorkerStates
  <2>3. CASE Goto(w, "backoff") /\ metric' = Counted("retry", 1)
    <3>1. \A k \in Metrics \ {"retry", "depth"} : metric'[k] = metric[k]
      BY <2>3, CountsAside DEF TypeOK
    <3>2. QED
      BY <1>5, <2>3, <3>1, GotoSpares
         DEF CheckContext, WorkerAlone, WorkerStates
  <2>4. QED
    BY <1>5, <2>1, <2>2, <2>3 DEF CheckContext
<1>6. CASE Backoff(w)
  BY <1>6, FinishSettles, GotoSpares
     DEF Backoff, WorkerAlone, WorkerStates, Outcomes
<1>7. CASE Post(w)
  BY <1>7, FinishSettles, AttemptFailedAccount, GotoSpares
     DEF Post, WorkerAlone, WorkerStates, Outcomes
<1>8. CASE Respond(w)
  BY <1>8, FinishSettles, AttemptFailedAccount
     DEF Respond, WorkerAlone, Outcomes
<1>9. QED
  BY <1>1, <1>2, <1>3, <1>4, <1>5, <1>6, <1>7, <1>8 DEF Worker

LEMMA HandlerAccount ==
  ASSUME TypeOK, Handler
  PROVE  Spares \/ (HandlerDrop /\ Settles("dropped"))
<1> USE DEF Spares, Pending, One, workerVars
<1>1. CASE HandlerEnqueue
  <2>1. Busy' = Busy
    BY <1>1 DEF HandlerEnqueue, Busy
  <2>2. Len(queue') = Len(queue) + 1
    BY <1>1 DEF HandlerEnqueue, TypeOK, DataOK
  <2>3. QED
    BY <1>1, <2>1, <2>2, PendingParts DEF HandlerEnqueue
<1>2. CASE HandlerCount
  <2>1. Busy' = Busy
    BY <1>2 DEF HandlerCount, Busy
  <2>2. \A k \in Metrics \ {"retry", "depth"} : metric'[k] = metric[k]
    BY <1>2, CountsAside DEF HandlerCount, TypeOK
  <2>3. QED
    BY <1>2, <2>1, <2>2, PendingParts DEF HandlerCount
<1>3. CASE HandlerDrop
  <2>1. Busy' = Busy
    BY <1>3 DEF HandlerDrop, Busy
  <2>2. QED
    BY <1>3, <2>1, PendingParts DEF HandlerDrop, Settles
<1>4. CASE HandlerPanic
  <2>1. Busy' = Busy
    BY <1>4 DEF HandlerPanic, Busy
  <2>2. QED
    BY <1>4, <2>1 DEF HandlerPanic, handlerVars
<1>5. QED
  BY <1>1, <1>2, <1>3, <1>4 DEF Handler

LEMMA StepAccount ==
  ASSUME TypeOK, [Next]_vars
  PROVE  \/ Running /\ Running' /\ Takes
         \/ Running /\ Running' /\ \E o \in Outcomes : Settles(o)
         \/ (Running' => Running) /\ Spares
<1>1. ASSUME NEW m \in Message, HandlerReceive(m)
      PROVE  Running /\ Running' /\ Takes
  <2>1. Busy' = Busy
    BY <1>1 DEF HandlerReceive, workerVars, Busy
  <2>2. QED
    BY <1>1, <2>1, PendingParts
       DEF HandlerReceive, mainVars, Running, Takes, Pending, One
<1>2. ASSUME NEW w \in Workers, Worker(w) PROVE Running /\ Running'
  BY <1>2 DEF Worker, At, Running, mainVars, WorkerReceive, WorkerExit,
     WorkerCount, Process, CheckContext, Backoff, Post, Respond
<1>3. CASE Handler
  <2>1. Running
    BY <1>3 DEF Handler, HandlerEnqueue, HandlerCount, HandlerDrop, HandlerPanic
  <2>2. HandlerDrop => Running'
    BY <2>1 DEF HandlerDrop, mainVars, Running
  <2>3. QED
    BY <1>3, <2>1, <2>2, HandlerAccount DEF Outcomes
<1>4. CASE \/ ConnectUp \/ Subscribe \/ ConnectionLost \/ Signal
           \/ Main \/ UNCHANGED vars
  <2>1. UNCHANGED <<handler, queue, pc, metric>>
    BY <1>4 DEF ConnectUp, Subscribe, ConnectionLost, Signal, Main,
       ConnectReturns, ConnectTimeout, ConnectError, StartDisconnect,
       DisconnectReturns, QuiesceExpires, CloseQueue, DrainEnds, Exit,
       vars, handlerVars, workerVars
  <2>2. Busy' = Busy
    BY <2>1 DEF Busy
  <2>3. Running' => Running
    BY <1>4 DEF ConnectUp, Subscribe, ConnectionLost, Signal, Main, MainGoto,
       ConnectReturns, ConnectTimeout, ConnectError, StartDisconnect,
       DisconnectReturns, QuiesceExpires, CloseQueue, DrainEnds, Exit,
       vars, mainVars, Running
  <2>4. QED
    BY <2>1, <2>2, <2>3 DEF Spares, Pending, One
<1>5. QED
  BY <1>1, <1>2, <1>3, <1>4, WorkerAccount
     DEF Next, Environment, Stopped

-----------------------------------------------------------------------------
(* The account balances, and it is the one BridgeLedger describes.         *)

LEMMA InitAccount ==
  ASSUME Init
  PROVE  Pending = 0 /\ \A k \in Metrics : metric[k] = 0
<1>1. Busy = {}
  BY DEF Init, Busy
<1>2. QED
  BY <1>1, FS_EmptySet DEF Init, Pending, One

\* In every reachable state bridge_messages_received_total equals the outcome
\* counters plus the messages in the handler, the queue and the workers.
THEOREM ConservationHolds == Spec => []Conservation
<1>1. Init => Conservation
  BY InitAccount, MetricNames DEF Conservation, Settled
<1>2. TypeOK /\ Conservation /\ [Next]_vars => Conservation'
  <2> SUFFICES ASSUME TypeOK, Conservation, [Next]_vars PROVE Conservation'
    OBVIOUS
  <2> USE MetricNames DEF Conservation, Settled
  <2>1. (\A k \in Metrics : metric[k] \in Int) /\ Pending \in Int
    BY PendingParts DEF TypeOK, MetricOK
  <2>2. CASE Takes
    <3>1. /\ metric'["received"] = metric["received"] + 1
          /\ \A k \in Metrics \ {"received"} : metric'[k] = metric[k]
      BY <2>2, CountedMetric DEF Takes, TypeOK
    <3>2. QED
      BY <2>1, <2>2, <3>1 DEF Takes
  <2>3. ASSUME NEW o \in Outcomes, Settles(o) PROVE Conservation'
    <3>1. /\ metric'[o] = metric[o] + 1
          /\ \A k \in Metrics \ {o} : metric'[k] = metric[k]
      BY <2>3, CountedMetric DEF Settles, TypeOK, Outcomes
    <3>2. QED
      BY <2>1, <2>3, <3>1 DEF Settles, Outcomes
  <2>4. CASE Spares
    BY <2>1, <2>4 DEF Spares
  <2>5. QED
    BY <2>2, <2>3, <2>4, StepAccount
<1>3. QED
  BY <1>1, <1>2, TypeCorrect, PTL DEF Spec

\* The bridge implements BridgeLedger: every message it takes is settled at
\* most once, at most QueueSize + |Workers| + 1 are pending at a time, and no
\* message is settled after the process has stopped.
THEOREM BridgeImplementsLedger == Spec => ImplementsLedger
<1> USE DEF Ledger!Next, Ledger!ledgerVars, Ledger!Outcomes
<1>1. Init => Ledger!Init
  BY InitAccount, MetricNames DEF Init, Ledger!Init, Running
<1>2. TypeOK /\ [Next]_vars => [Ledger!Next]_(Ledger!ledgerVars)
  <2> SUFFICES ASSUME TypeOK, [Next]_vars
               PROVE  [Ledger!Next]_(Ledger!ledgerVars)
    OBVIOUS
  <2> USE CountedMetric, MetricNames DEF TypeOK
  <2>1. CASE Running /\ Running' /\ Takes
    <3>1. Pending < QueueSize + Cardinality(Workers) + 1
      BY <2>1, PendingParts, WorkerSetsFinite, BridgeAssumption
         DEF BridgeAssumption, Takes, DataOK, One
    <3>2. \A o \in Outcomes : metric'[o] = metric[o]
      BY <2>1 DEF Takes, Outcomes
    <3>3. metric'["received"] = metric["received"] + 1
      BY <2>1 DEF Takes
    <3>4. Ledger!Take
      BY <2>1, <3>1, <3>2, <3>3 DEF Takes, Ledger!Take, Outcomes
    <3>5. QED
      BY <3>4
  <2>2. ASSUME Running, Running', NEW o \in Outcomes, Settles(o)
        PROVE  Ledger!Next
    <3>1. metric'[o] = metric[o] + 1
      BY <2>2 DEF Settles, Outcomes
    <3>2. \A k \in Metrics \ {o} : metric'[k] = metric[k]
      BY <2>2 DEF Settles, Outcomes
    <3>3. Ledger!Settle(o)
      BY <2>2, <3>1, <3>2 DEF Settles, Ledger!Settle, Outcomes
    <3>4. QED
      BY <3>3 DEF Outcomes
  <2>3. CASE (Running' => Running) /\ Spares
    BY <2>3 DEF Spares, Ledger!Stop, Running
  <2>4. QED
    BY <2>1, <2>2, <2>3, StepAccount
<1>3. QED
  BY <1>1, <1>2, TypeCorrect, PTL DEF Spec, ImplementsLedger, Ledger!Spec

-----------------------------------------------------------------------------
(* Shutdown.  ShutdownInv is inductive relative to TypeOK: where main is    *)
(* says how Disconnect ended and whether the queue is closed, a completed   *)
(* Disconnect leaves a closed connection and an idle handler, and a worker  *)
(* exits only from a closed, empty queue.                                   *)

ShutdownInv ==
  /\ main \in {"connecting", "serving"} => disconnect = "none"
  /\ main = "disconnecting" => disconnect = "called"
  /\ main \in {"closing", "draining"} => disconnect \in {"done", "expired"}
  /\ main \in {"abandoning", "joining"} => disconnect = "never"
  /\ closed => disconnect \in {"done", "expired", "never"}
  /\ disconnect = "done" => mqtt = "closed"
  /\ handler = "holding" => mqtt = "subscribed"
  /\ handler = "sent" => mqtt = "subscribed"
  /\ main = "crashed" => disconnect \in {"expired", "never"}
  /\ \A w \in Workers : pc[w] = "exited" => closed /\ queue = <<>>

LEMMA ShutdownInductive == Spec => []ShutdownInv
<1>1. Init => ShutdownInv
  BY DEF Init, ShutdownInv
<1>2. TypeOK /\ ShutdownInv /\ [Next]_vars => ShutdownInv'
  <2> SUFFICES ASSUME TypeOK, ShutdownInv, [Next]_vars PROVE ShutdownInv'
    OBVIOUS
  <2> USE DEF ShutdownInv, mainVars, outsideVars, handlerVars, workerVars
  <2>1. ASSUME NEW m \in Message, HandlerReceive(m) PROVE ShutdownInv'
    BY <2>1 DEF HandlerReceive
  <2>2. CASE ConnectUp \/ Subscribe \/ ConnectionLost \/ Signal
    BY <2>2 DEF ConnectUp, Subscribe, ConnectionLost, Signal
  <2>3. CASE Handler
    <3>1. CASE HandlerEnqueue
      BY <3>1 DEF HandlerEnqueue
    <3>2. CASE HandlerCount \/ HandlerDrop
      BY <3>2 DEF HandlerCount, HandlerDrop
    <3>3. CASE HandlerPanic
      BY <3>3 DEF HandlerPanic
    <3>4. QED
      BY <2>3, <3>1, <3>2, <3>3 DEF Handler
  <2>4. ASSUME NEW w \in Workers, Worker(w) PROVE ShutdownInv'
    <3> USE DEF At, Goto
    <3>1. UNCHANGED <<main, disconnect, closed, mqtt, handler>>
      BY <2>4 DEF Worker, WorkerReceive, WorkerExit, WorkerCount, Process,
         CheckContext, Backoff, Post, Respond
    <3>2. CASE WorkerReceive(w)
      BY <3>1, <3>2 DEF WorkerReceive, TypeOK, ControlOK
    <3>3. CASE WorkerExit(w)
      BY <3>1, <3>3 DEF WorkerExit, TypeOK, ControlOK
    <3>4. CASE ~WorkerReceive(w) /\ ~WorkerExit(w)
      <4>1. queue' = queue
        BY <2>4, <3>4 DEF Worker, WorkerCount, Process, CheckContext, Backoff,
           Post, Respond
      <4>2. \E state \in WorkerStates : state # "exited" /\ Goto(w, state)
        BY <2>4, <3>4 DEF Worker, WorkerCount, Process, CheckContext, Backoff,
           Post, Respond, AttemptFailed, Finish, WorkerStates
      <4>3. \A v \in Workers : pc'[v] = "exited" => pc[v] = "exited"
        BY <4>2 DEF TypeOK, ControlOK
      <4>4. QED
        BY <3>1, <4>1, <4>3
    <3>5. QED
      BY <3>2, <3>3, <3>4
  <2>5. CASE Main
    <3> USE DEF MainGoto
    <3>1. CASE ConnectReturns \/ ConnectTimeout
      BY <3>1 DEF ConnectReturns, ConnectTimeout
    <3>2. CASE ConnectError
      BY <3>2 DEF ConnectError
    <3>3. CASE StartDisconnect
      BY <3>3 DEF StartDisconnect
    <3>4. CASE DisconnectReturns \/ QuiesceExpires
      BY <3>4 DEF DisconnectReturns, QuiesceExpires
    <3>5. CASE CloseQueue
      BY <3>5 DEF CloseQueue
    <3>6. CASE DrainEnds \/ Exit
      BY <3>6 DEF DrainEnds, Exit
    <3>7. QED
      BY <2>5, <3>1, <3>2, <3>3, <3>4, <3>5, <3>6 DEF Main
  <2>6. CASE UNCHANGED vars
    BY <2>6 DEF vars
  <2>7. QED
    BY <2>1, <2>2, <2>3, <2>4, <2>5, <2>6 DEF Next, Environment, Stopped
<1>3. QED
  BY <1>1, <1>2, TypeCorrect, PTL DEF Spec

\* A bridge dies of a send on its closed queue only when Disconnect was cut
\* short by its quiesce timer, or never called after a failed connect.
THEOREM CrashOnlyByLateDelivery == Spec => []CrashNeedsLateDelivery
<1>1. ShutdownInv => CrashNeedsLateDelivery
  BY DEF ShutdownInv, CrashNeedsLateDelivery
<1>2. QED
  BY <1>1, ShutdownInductive, PTL

\* When Disconnect completed and every worker has returned, the counters have
\* settled every message that was received.
THEOREM ShutdownLosesNothing == Spec => []CleanShutdown
<1>1. TypeOK /\ Conservation /\ ShutdownInv => CleanShutdown
  <2> SUFFICES ASSUME TypeOK, Conservation, ShutdownInv,
                      disconnect = "done", AllExited
               PROVE  Settled = metric["received"]
    BY DEF CleanShutdown
  <2>1. queue = <<>>
    BY BridgeAssumption DEF BridgeAssumption, ShutdownInv, AllExited
  <2>2. handler # "holding"
    BY DEF ShutdownInv
  <2>3. Busy = {}
    BY DEF AllExited, Busy
  <2>4. Pending = 0
    BY <2>1, <2>2, <2>3, FS_EmptySet DEF Pending, One
  <2>5. QED
    BY <2>4, MetricNames DEF Conservation, Settled, TypeOK, MetricOK
<1>2. QED
  BY <1>1, TypeCorrect, ConservationHolds, ShutdownInductive, PTL

-----------------------------------------------------------------------------
(* The queue_depth gauge.                                                  *)

LEMMA DequeuedGrows ==
  ASSUME ControlOK, NEW w \in Workers, pc[w] # "dequeued", Goto(w, "dequeued")
  PROVE  Cardinality(Dequeued)' = Cardinality(Dequeued) + 1
<1>1. Dequeued' = Dequeued \cup {w} /\ w \notin Dequeued
  BY DEF Dequeued, Goto, ControlOK
<1>2. QED
  BY <1>1, WorkerSetsFinite, FS_AddElement

LEMMA DequeuedShrinks ==
  ASSUME ControlOK, NEW w \in Workers, pc[w] = "dequeued", Goto(w, "process")
  PROVE  Cardinality(Dequeued)' = Cardinality(Dequeued) - 1
<1>1. Dequeued' = Dequeued \ {w} /\ w \in Dequeued
  BY DEF Dequeued, Goto, ControlOK
<1>2. QED
  BY <1>1, WorkerSetsFinite, FS_RemoveElement

LEMMA DequeuedStays ==
  ASSUME ControlOK, NEW w \in Workers, NEW state \in WorkerStates,
         pc[w] # "dequeued", state # "dequeued", Goto(w, state)
  PROVE  Dequeued' = Dequeued
BY DEF Dequeued, Goto, ControlOK

LEMMA CountKeepsDepth ==
  ASSUME MetricOK(metric), NEW name \in Metrics \ {"depth"}
  PROVE  Counted(name, 1)["depth"] = metric["depth"]
BY CountedMetric, MetricNames

\* queue_depth is exact up to the increments and decrements that are
\* outstanding, whatever the number of workers and the size of the queue.
THEOREM GaugeIsExact == Spec => []GaugeExact
<1>1. Init => GaugeExact
  <2> SUFFICES ASSUME Init PROVE GaugeExact
    OBVIOUS
  <2>1. Dequeued = {}
    BY DEF Init, Dequeued
  <2>2. QED
    BY <2>1, FS_EmptySet, MetricNames DEF Init, GaugeExact, One
<1>2. TypeOK /\ GaugeExact /\ [Next]_vars => GaugeExact'
  <2> SUFFICES ASSUME TypeOK, GaugeExact, [Next]_vars PROVE GaugeExact'
    OBVIOUS
  <2>a. /\ ControlOK /\ MetricOK(metric)
        /\ metric["depth"] \in Int /\ Len(queue) \in Nat
        /\ Cardinality(Dequeued) \in Nat
    BY WorkerSetsFinite, MetricNames DEF TypeOK, DataOK, MetricOK
  <2> USE <2>a, MetricNames DEF GaugeExact, mainVars, outsideVars, handlerVars,
          workerVars, One
  <2>1. ASSUME NEW m \in Message, HandlerReceive(m) PROVE GaugeExact'
    BY <2>1, CountKeepsDepth DEF HandlerReceive, Dequeued
  <2>2. CASE Handler
    <3>1. Dequeued' = Dequeued
      BY <2>2 DEF Handler, HandlerEnqueue, HandlerCount, HandlerDrop,
         HandlerPanic, Dequeued
    <3>2. CASE HandlerEnqueue
      <4>1. Len(queue') = Len(queue) + 1
        BY <3>2 DEF HandlerEnqueue, TypeOK, DataOK
      <4>2. QED
        BY <3>1, <3>2, <4>1 DEF HandlerEnqueue
    <3>3. CASE HandlerCount
      <4>1. metric'["depth"] = metric["depth"] + 1
        <5>1. metric' = Counted("depth", 1)
          BY <3>3 DEF HandlerCount
        <5>2. Counted("depth", 1)["depth"] = metric["depth"] + 1
          BY CountedMetric
        <5>3. QED
          BY <5>1, <5>2
      <4>2. QED
        BY <3>1, <3>3, <4>1 DEF HandlerCount
    <3>4. CASE HandlerDrop
      BY <3>1, <3>4, CountKeepsDepth DEF HandlerDrop
    <3>5. CASE HandlerPanic
      BY <3>1, <3>5 DEF HandlerPanic
    <3>6. QED
      BY <2>2, <3>2, <3>3, <3>4, <3>5 DEF Handler
  <2>3. ASSUME NEW w \in Workers, Worker(w) PROVE GaugeExact'
    <3> USE DEF At
    <3>1. CASE WorkerReceive(w)
      <4>1. Cardinality(Dequeued)' = Cardinality(Dequeued) + 1
        BY <3>1, DequeuedGrows DEF WorkerReceive
      <4>2. Len(queue') = Len(queue) - 1
        BY <3>1 DEF WorkerReceive, TypeOK, DataOK
      <4>3. QED
        BY <3>1, <4>1, <4>2 DEF WorkerReceive
    <3>2. CASE WorkerCount(w)
      <4>1. Cardinality(Dequeued)' = Cardinality(Dequeued) - 1
        BY <3>2, DequeuedShrinks DEF WorkerCount
      <4>2. metric'["depth"] = metric["depth"] - 1
        <5>1. metric' = Counted("depth", -1) /\ -1 \in Int
          BY <3>2 DEF WorkerCount
        <5>2. Counted("depth", -1)["depth"] = metric["depth"] + (-1)
          BY <5>1, CountedMetric
        <5>3. QED
          BY <5>1, <5>2
      <4>3. QED
        BY <3>2, <4>1, <4>2 DEF WorkerCount
    <3>3. CASE ~WorkerReceive(w) /\ ~WorkerCount(w)
      <4>1. UNCHANGED <<handler, queue>>
        BY <2>3, <3>3 DEF Worker, WorkerExit, Process, CheckContext, Backoff,
           Post, Respond
      <4>2. \E state \in WorkerStates :
               pc[w] # "dequeued" /\ state # "dequeued" /\ Goto(w, state)
        BY <2>3, <3>3 DEF Worker, WorkerExit, Process, CheckContext, Backoff,
           Post, Respond, AttemptFailed, Finish, WorkerStates
      <4>3. \/ metric' = metric
            \/ \E name \in Metrics \ {"depth"} : metric' = Counted(name, 1)
        BY <2>3, <3>3 DEF Worker, WorkerExit, Process, CheckContext, Backoff,
           Post, Respond, AttemptFailed, Finish
      <4>4. metric'["depth"] = metric["depth"]
        BY <4>3, CountKeepsDepth
      <4>5. Dequeued' = Dequeued
        BY <4>2, DequeuedStays
      <4>6. QED
        BY <4>1, <4>4, <4>5
    <3>4. QED
      BY <3>1, <3>2, <3>3
  <2>4. CASE \/ ConnectUp \/ Subscribe \/ ConnectionLost \/ Signal
             \/ Main \/ UNCHANGED vars
    <3>1. UNCHANGED <<handler, queue, pc, metric>>
      BY <2>4 DEF ConnectUp, Subscribe, ConnectionLost, Signal, Main,
         ConnectReturns, ConnectTimeout, ConnectError, StartDisconnect,
         DisconnectReturns, QuiesceExpires, CloseQueue, DrainEnds, Exit, vars
    <3>2. Dequeued' = Dequeued
      BY <3>1 DEF Dequeued
    <3>3. QED
      BY <3>1, <3>2
  <2>5. QED
    BY <2>1, <2>2, <2>3, <2>4 DEF Next, Environment, Stopped
<1>3. QED
  BY <1>1, <1>2, TypeCorrect, PTL DEF Spec

-----------------------------------------------------------------------------
(* The retry budget: the retries counted for the messages that the workers *)
(* still hold, as pairs of a worker and a number, so that their sum over   *)
(* the workers is the cardinality of a set.                                *)

Retried(w) == IF pc[w] = "check" /\ attempt[w] > 0 THEN attempt[w] - 1
                                                   ELSE attempt[w]

Spent == {p \in Workers \X (1 .. MaxAttempts - 1) : p[2] <= Retried(p[1])}

Ended == metric["success"] + metric["failure"]

Forwarding == {"check", "backoff", "post", "inflight"}

AttemptInv ==
  \A w \in Workers : /\ pc[w] \notin Forwarding => attempt[w] = 0
                     /\ ~urlParses => attempt[w] = 0 /\ pc[w] # "inflight"

SpentInv ==
  /\ ~urlParses => metric["retry"] = 0
  /\ metric["retry"] <= (MaxAttempts - 1) * Ended + Cardinality(Spent)

BudgetInv == AttemptInv /\ SpentInv

LEMMA Distributes ==
  ASSUME NEW k \in Int, NEW m \in Int, NEW n \in Int
  PROVE  k * (m + n) = k * m + k * n /\ m * n = n * m /\ m * n \in Int
OBVIOUS

LEMMA BudgetTypes ==
  ASSUME TypeOK
  PROVE  /\ MaxAttempts - 1 \in Nat /\ MaxAttempts \in Nat
         /\ Ended \in Nat /\ metric["retry"] \in Nat
         /\ \A w \in Workers : /\ attempt[w] \in 0 .. MaxAttempts - 1
                               /\ Retried(w) \in 0 .. MaxAttempts - 1
<1>1. MaxAttempts - 1 \in Nat /\ MaxAttempts \in Nat
  BY BridgeAssumption DEF BridgeAssumption
<1>2. \A w \in Workers : attempt[w] \in 0 .. MaxAttempts - 1
  BY DEF TypeOK, DataOK
<1>3. \A w \in Workers : Retried(w) \in 0 .. MaxAttempts - 1
  BY <1>1, <1>2 DEF Retried
<1>4. /\ metric["success"] \in Nat /\ metric["failure"] \in Nat
      /\ metric["retry"] \in Nat
  BY MetricNames DEF TypeOK, MetricOK
<1>5. QED
  BY <1>1, <1>2, <1>3, <1>4 DEF Ended

LEMMA SpentFinite ==
  ASSUME TypeOK
  PROVE  /\ IsFiniteSet(Spent) /\ Cardinality(Spent) \in Nat
         /\ Cardinality(Spent)' \in Nat
<1>1. IsFiniteSet(1 .. MaxAttempts - 1)
  BY BudgetTypes, FS_Interval
<1>2. IsFiniteSet(Workers \X (1 .. MaxAttempts - 1))
  BY <1>1, BridgeAssumption, FS_Product DEF BridgeAssumption
<1>3. /\ Spent \in SUBSET (Workers \X (1 .. MaxAttempts - 1))
      /\ Spent' \in SUBSET (Workers \X (1 .. MaxAttempts - 1))
  BY DEF Spent
<1>4. IsFiniteSet(Spent) /\ IsFiniteSet(Spent')
  BY <1>2, <1>3, FS_Subset
<1>5. QED
  BY <1>4, FS_CardinalityType

\* What a step does to the retries of one worker's message.
LEMMA SpentStays ==
  ASSUME \A k \in Workers : Retried(k)' = Retried(k)
  PROVE  Spent' = Spent
BY DEF Spent

LEMMA SpentGrows ==
  ASSUME TypeOK, NEW w \in Workers, Retried(w)' = Retried(w) + 1,
         Retried(w)' <= MaxAttempts - 1,
         \A k \in Workers \ {w} : Retried(k)' = Retried(k)
  PROVE  Cardinality(Spent)' = Cardinality(Spent) + 1
<1> DEFINE new == <<w, Retried(w) + 1>>
<1>1. /\ Retried(w) \in Nat /\ MaxAttempts - 1 \in Nat
      /\ \A k \in Workers : Retried(k) \in Nat
  BY BudgetTypes
<1>2. new \notin Spent
  BY <1>1 DEF Spent
<1>3. Spent' = Spent \cup {new}
  <2>1. Spent' \subseteq Spent \cup {new}
    BY <1>1 DEF Spent
  <2>2. Spent \cup {new} \subseteq Spent'
    BY <1>1 DEF Spent
  <2>3. QED
    BY <2>1, <2>2
<1> HIDE DEF new
<1>4. QED
  BY <1>2, <1>3, SpentFinite, FS_AddElement

LEMMA SpentForgets ==
  ASSUME TypeOK, NEW w \in Workers, Retried(w)' = 0,
         \A k \in Workers \ {w} : Retried(k)' = Retried(k)
  PROVE  Cardinality(Spent) <= Cardinality(Spent)' + (MaxAttempts - 1)
<1> DEFINE Own == {w} \X (1 .. MaxAttempts - 1)
<1>1. /\ IsFiniteSet(1 .. MaxAttempts - 1) /\ MaxAttempts - 1 \in Nat
      /\ Cardinality(1 .. MaxAttempts - 1) = MaxAttempts - 1
  BY BudgetTypes, FS_Interval
<1>2. IsFiniteSet({w}) /\ Cardinality({w}) = 1
  BY FS_Singleton
<1>3. IsFiniteSet(Own) /\ Cardinality(Own) = MaxAttempts - 1
  BY <1>1, <1>2, FS_Product
<1>4. Spent \ Own \subseteq Spent'
  BY DEF Spent
<1>5. Spent' \subseteq Spent
  BY BudgetTypes DEF Spent
<1> HIDE DEF Own
<1>6. /\ IsFiniteSet(Spent) /\ IsFiniteSet(Spent')
      /\ Cardinality(Spent) \in Nat /\ Cardinality(Spent)' \in Nat
  BY <1>5, SpentFinite, FS_Subset
<1>7. Spent \subseteq Spent' \cup Own
  BY <1>4
<1>8. /\ IsFiniteSet(Spent' \cup Own)
      /\ Cardinality(Spent) <= Cardinality(Spent' \cup Own)
  BY <1>3, <1>6, <1>7, FS_Union, FS_Subset
<1>9. Cardinality(Spent' \cup Own) <= Cardinality(Spent') + Cardinality(Own)
  <2>1. IsFiniteSet(Spent' \cap Own)
    BY <1>3, FS_Subset
  <2>2. Cardinality(Spent' \cap Own) \in Nat
    BY <2>1, FS_CardinalityType
  <2>3. Cardinality(Spent' \cup Own) =
            Cardinality(Spent') + Cardinality(Own) - Cardinality(Spent' \cap Own)
    BY <1>3, <1>6, FS_Union
  <2>4. QED
    BY <1>1, <1>3, <1>6, <2>2, <2>3
<1>10. Cardinality(Spent' \cup Own) \in Nat
  BY <1>8, FS_CardinalityType
<1>11. QED
  BY <1>1, <1>3, <1>6, <1>8, <1>9, <1>10

\* Steps of the bridge that leave the account of retries as it is.
LEMMA BudgetKept ==
  ASSUME BudgetInv, AttemptInv', UNCHANGED urlParses,
         \A k \in Workers : Retried(k)' = Retried(k),
         metric'["retry"] = metric["retry"], Ended' = Ended
  PROVE  BudgetInv'
<1>1. Spent' = Spent
  BY SpentStays
<1>2. QED
  BY <1>1 DEF BudgetInv, SpentInv

\* A worker that moves on with its attempt, or without one.
LEMMA MoveKeepsBudget ==
  ASSUME TypeOK, BudgetInv, NEW w \in Workers, NEW state \in WorkerStates,
         Goto(w, state), UNCHANGED <<attempt, urlParses>>,
         pc[w] # "check" \/ attempt[w] = 0,
         state \in Forwarding \/ attempt[w] = 0, state # "check" \/ attempt[w] = 0,
         state = "inflight" => urlParses,
         metric'["retry"] = metric["retry"], Ended' = Ended
  PROVE  BudgetInv'
<1>1. pc \in [Workers -> WorkerStates]
  BY DEF TypeOK, ControlOK
<1>2. AttemptInv'
  BY <1>1 DEF BudgetInv, AttemptInv, Goto, Forwarding
<1>3. \A k \in Workers : Retried(k)' = Retried(k)
  BY <1>1 DEF Retried, Goto
<1>4. QED
  BY <1>2, <1>3, BudgetKept

\* A message that ends takes at most MaxAttempts - 1 retries with it.
LEMMA FinishKeepsBudget ==
  ASSUME TypeOK, BudgetInv, NEW w \in Workers,
         NEW o \in {"success", "failure"}, Finish(w, o), UNCHANGED urlParses
  PROVE  BudgetInv'
<1>1. /\ pc \in [Workers -> WorkerStates]
      /\ attempt \in [Workers -> 0 .. MaxAttempts - 1]
      /\ MetricOK(metric)
  BY DEF TypeOK, ControlOK, DataOK
<1>2. AttemptInv'
  BY <1>1 DEF BudgetInv, AttemptInv, Finish, Goto
<1>3. /\ Retried(w)' = 0
      /\ \A k \in Workers \ {w} : Retried(k)' = Retried(k)
  BY <1>1 DEF Retried, Finish, Goto
<1>4. Cardinality(Spent) <= Cardinality(Spent)' + (MaxAttempts - 1)
  BY <1>3, SpentForgets
<1>5. metric'["retry"] = metric["retry"] /\ Ended' = Ended + 1
  <2>1. metric' = Counted(o, 1) /\ metric \in [Metrics -> Int]
    BY <1>1 DEF Finish, MetricOK
  <2>2. metric["success"] \in Int /\ metric["failure"] \in Int
    BY <2>1, MetricNames
  <2>3. CASE o = "success"
    <3>1. /\ metric'["success"] = metric["success"] + 1
          /\ metric'["failure"] = metric["failure"]
          /\ metric'["retry"] = metric["retry"]
      BY <2>1, <2>3 DEF Counted, Metrics
    <3>2. QED
      BY <2>2, <3>1 DEF Ended
  <2>4. CASE o = "failure"
    <3>1. /\ metric'["failure"] = metric["failure"] + 1
          /\ metric'["success"] = metric["success"]
          /\ metric'["retry"] = metric["retry"]
      BY <2>1, <2>4 DEF Counted, Metrics
    <3>2. QED
      BY <2>2, <3>1 DEF Ended
  <2>5. QED
    BY <2>3, <2>4
<1>6. /\ MaxAttempts - 1 \in Int /\ Ended \in Int
      /\ metric["retry"] \in Nat
      /\ Cardinality(Spent) \in Nat /\ Cardinality(Spent)' \in Nat
  BY BudgetTypes, SpentFinite
<1>7. /\ (MaxAttempts - 1) * (Ended + 1) =
             (MaxAttempts - 1) * Ended + (MaxAttempts - 1)
      /\ (MaxAttempts - 1) * Ended \in Int
  BY <1>6, Distributes
<1>8. metric'["retry"] <= (MaxAttempts - 1) * Ended' + Cardinality(Spent)'
  BY <1>4, <1>5, <1>6, <1>7 DEF BudgetInv, SpentInv
<1>9. QED
  BY <1>2, <1>5, <1>8 DEF BudgetInv, SpentInv

LEMMA AttemptFailedKeepsBudget ==
  ASSUME TypeOK, BudgetInv, NEW w \in Workers, AttemptFailed(w), urlParses,
         UNCHANGED urlParses, pc[w] \in {"post", "inflight"}
  PROVE  BudgetInv'
<1>1. CASE Finish(w, "failure")
  BY <1>1, FinishKeepsBudget
<1>2. CASE /\ attempt[w] + 1 < MaxAttempts
           /\ attempt' = [attempt EXCEPT ![w] = @ + 1]
           /\ Goto(w, "check")
           /\ UNCHANGED <<data, metric>>
  <2>1. /\ pc \in [Workers -> WorkerStates]
        /\ attempt \in [Workers -> 0 .. MaxAttempts - 1]
        /\ MaxAttempts \in Nat
    BY BudgetTypes DEF TypeOK, ControlOK, DataOK
  <2>2. AttemptInv'
    BY <1>2, <2>1 DEF BudgetInv, AttemptInv, Goto, Forwarding
  <2>3. \A k \in Workers : Retried(k)' = Retried(k)
    BY <1>2, <2>1 DEF Retried, Goto
  <2>4. QED
    BY <1>2, <2>2, <2>3, BudgetKept DEF Ended
<1>3. QED
  BY <1>1, <1>2 DEF AttemptFailed

\* A retry is counted for the worker that makes it.
LEMMA RetryKeepsBudget ==
  ASSUME TypeOK, BudgetInv, NEW w \in Workers, pc[w] = "check", attempt[w] > 0,
         Goto(w, "backoff"), metric' = Counted("retry", 1),
         UNCHANGED <<attempt, urlParses>>
  PROVE  BudgetInv'
<1>1. /\ pc \in [Workers -> WorkerStates]
      /\ attempt \in [Workers -> 0 .. MaxAttempts - 1]
      /\ MetricOK(metric) /\ MaxAttempts \in Nat
  BY BudgetTypes DEF TypeOK, ControlOK, DataOK
<1>2. AttemptInv'
  BY <1>1 DEF BudgetInv, AttemptInv, Goto, Forwarding
<1>3. /\ Retried(w)' = Retried(w) + 1 /\ Retried(w)' <= MaxAttempts - 1
      /\ \A k \in Workers \ {w} : Retried(k)' = Retried(k)
  BY <1>1 DEF Retried, Goto
<1>4. Cardinality(Spent)' = Cardinality(Spent) + 1
  BY <1>3, SpentGrows
<1>5. metric'["retry"] = metric["retry"] + 1 /\ Ended' = Ended
  BY <1>1, CountedMetric, MetricNames DEF Ended
<1>6. urlParses
  BY DEF BudgetInv, AttemptInv
<1>7. /\ MaxAttempts - 1 \in Int /\ Ended \in Int /\ metric["retry"] \in Nat
      /\ Cardinality(Spent) \in Nat
  BY BudgetTypes, SpentFinite
<1>8. (MaxAttempts - 1) * Ended \in Int
  BY <1>7, Distributes
<1>9. QED
  BY <1>2, <1>4, <1>5, <1>6, <1>7, <1>8 DEF BudgetInv, SpentInv

LEMMA WorkerKeepsBudget ==
  ASSUME TypeOK, BudgetInv, NEW w \in Workers, Worker(w)
  PROVE  BudgetInv'
<1> USE DEF At
<1>1. /\ UNCHANGED urlParses /\ MetricOK(metric)
      /\ attempt[w] \in 0 .. MaxAttempts - 1 /\ MaxAttempts - 1 \in Nat
      /\ pc[w] \notin Forwarding => attempt[w] = 0
      /\ pc[w] = "inflight" => urlParses
  BY BudgetTypes DEF Worker, WorkerReceive, WorkerExit, WorkerCount, Process,
     CheckContext, Backoff, Post, Respond, outsideVars, TypeOK, BudgetInv,
     AttemptInv
<1>2. CASE WorkerReceive(w)
  BY <1>1, <1>2, MoveKeepsBudget DEF WorkerReceive, WorkerStates, Forwarding,
     Ended
<1>3. CASE WorkerExit(w)
  BY <1>1, <1>3, MoveKeepsBudget DEF WorkerExit, WorkerStates, Forwarding,
     Ended
<1>4. CASE WorkerCount(w)
  <2>1. /\ Counted("depth", -1)["retry"] = metric["retry"]
        /\ Counted("depth", -1)["success"] = metric["success"]
        /\ Counted("depth", -1)["failure"] = metric["failure"]
    BY <1>1 DEF Counted, MetricOK, Metrics
  <2>2. QED
    BY <1>1, <1>4, <2>1, MoveKeepsBudget DEF WorkerCount, WorkerStates,
       Forwarding, Ended
<1>5. CASE Process(w)
  <2>1. attempt[w] = 0 /\ pc[w] = "process"
    BY <1>1, <1>5 DEF Process, Forwarding
  <2>2. CASE Finish(w, "invalid")
    <3>1. attempt' = attempt
      BY <2>1, <2>2 DEF Finish, TypeOK, DataOK
    <3>2. metric'["retry"] = metric["retry"] /\ Ended' = Ended
      BY <1>1, <2>2, CountedMetric, MetricNames DEF Finish, Ended
    <3>3. QED
      BY <1>1, <2>1, <2>2, <3>1, <3>2, MoveKeepsBudget DEF Finish, WorkerStates
  <2>3. CASE Goto(w, "check") /\ UNCHANGED <<data, attempt, metric>>
    BY <1>1, <2>1, <2>3, MoveKeepsBudget DEF WorkerStates, Ended
  <2>4. QED
    BY <1>5, <2>2, <2>3 DEF Process
<1>6. CASE CheckContext(w)
  <2>1. CASE Finish(w, "failure")
    BY <1>1, <2>1, FinishKeepsBudget
  <2>2. CASE attempt[w] = 0 /\ Goto(w, "post") /\ UNCHANGED <<attempt, metric>>
    BY <1>1, <2>2, MoveKeepsBudget DEF WorkerStates, Forwarding, Ended
  <2>3. CASE /\ attempt[w] > 0 /\ Goto(w, "backoff")
             /\ metric' = Counted("retry", 1) /\ UNCHANGED attempt
    BY <1>1, <1>6, <2>3, RetryKeepsBudget DEF CheckContext
  <2>4. QED
    BY <1>6, <2>1, <2>2, <2>3 DEF CheckContext
<1>7. CASE Backoff(w)
  <2>1. CASE Finish(w, "failure")
    BY <1>1, <2>1, FinishKeepsBudget
  <2>2. CASE Goto(w, "post") /\ UNCHANGED <<attempt, metric>>
    BY <1>1, <1>7, <2>2, MoveKeepsBudget DEF Backoff, WorkerStates, Forwarding,
       Ended
  <2>3. QED
    BY <1>7, <2>1, <2>2 DEF Backoff
<1>8. CASE Post(w)
  <2>1. CASE Finish(w, "failure")
    BY <1>1, <2>1, FinishKeepsBudget
  <2>2. CASE urlParses /\ AttemptFailed(w)
    BY <1>1, <1>8, <2>2, AttemptFailedKeepsBudget DEF Post
  <2>3. CASE urlParses /\ Goto(w, "inflight") /\ UNCHANGED <<attempt, metric>>
    BY <1>1, <1>8, <2>3, MoveKeepsBudget DEF Post, WorkerStates, Forwarding,
       Ended
  <2>4. QED
    BY <1>8, <2>1, <2>2, <2>3 DEF Post
<1>9. CASE Respond(w)
  <2>1. ASSUME NEW o \in {"success", "failure"}, Finish(w, o) PROVE BudgetInv'
    BY <1>1, <2>1, FinishKeepsBudget
  <2>2. CASE AttemptFailed(w)
    BY <1>1, <1>9, <2>2, AttemptFailedKeepsBudget DEF Respond
  <2>3. QED
    BY <1>9, <2>1, <2>2 DEF Respond
<1>10. QED
  BY <1>2, <1>3, <1>4, <1>5, <1>6, <1>7, <1>8, <1>9 DEF Worker

\* No more than MaxAttempts - 1 retries are counted for each message that
\* forward has settled or a worker still holds, and none for a bad URL,
\* whatever the number of workers, attempts and messages.
THEOREM RetriesAreBounded == Spec => []RetryBudget
<1>1. Init => BudgetInv
  <2> SUFFICES ASSUME Init PROVE BudgetInv
    OBVIOUS
  <2>1. AttemptInv
    BY DEF Init, AttemptInv, Forwarding
  <2>2. \A w \in Workers : Retried(w) = 0
    BY DEF Init, Retried
  <2>3. Spent = {}
    BY <2>2 DEF Spent
  <2>4. metric["retry"] = 0 /\ Ended = 0
    BY MetricNames DEF Init, Ended
  <2>5. MaxAttempts - 1 \in Int
    BY BridgeAssumption DEF BridgeAssumption
  <2>6. QED
    BY <2>1, <2>3, <2>4, <2>5, FS_EmptySet DEF BudgetInv, SpentInv
<1>2. TypeOK /\ BudgetInv /\ [Next]_vars => BudgetInv'
  <2> SUFFICES ASSUME TypeOK, BudgetInv, [Next]_vars PROVE BudgetInv'
    OBVIOUS
  <2>1. ASSUME NEW w \in Workers, Worker(w) PROVE BudgetInv'
    BY <2>1, WorkerKeepsBudget
  <2>2. ASSUME UNCHANGED <<pc, attempt, urlParses>>,
               metric'["retry"] = metric["retry"], Ended' = Ended
        PROVE  BudgetInv'
    <3>1. AttemptInv' /\ \A k \in Workers : Retried(k)' = Retried(k)
      BY <2>2 DEF BudgetInv, AttemptInv, Retried
    <3>2. QED
      BY <2>2, <3>1, BudgetKept
  <2>3. ASSUME NEW name \in {"received", "dropped", "depth"},
               UNCHANGED <<pc, attempt, urlParses>>, metric' = Counted(name, 1)
        PROVE  BudgetInv'
    <3>1. metric \in [Metrics -> Int]
      BY DEF TypeOK, MetricOK
    <3>2. metric'["retry"] = metric["retry"] /\ Ended' = Ended
      BY <2>3, <3>1 DEF Counted, Metrics, Ended
    <3>3. QED
      BY <2>2, <2>3, <3>2
  <2>4. CASE Handler \/ \E m \in Message : HandlerReceive(m)
    BY <2>2, <2>3, <2>4 DEF Handler, HandlerReceive, HandlerEnqueue,
       HandlerCount, HandlerDrop, HandlerPanic, workerVars, outsideVars, Ended
  <2>5. CASE \/ ConnectUp \/ Subscribe \/ ConnectionLost \/ Signal
             \/ Main \/ UNCHANGED vars
    BY <2>2, <2>5 DEF ConnectUp, Subscribe, ConnectionLost, Signal, Main,
       ConnectReturns, ConnectTimeout, ConnectError, StartDisconnect,
       DisconnectReturns, QuiesceExpires, CloseQueue, DrainEnds, Exit, vars,
       workerVars, outsideVars, Ended
  <2>6. QED
    BY <2>1, <2>4, <2>5 DEF Next, Environment, Stopped
<1>3. TypeOK /\ BudgetInv => RetryBudget
  <2> SUFFICES ASSUME TypeOK, BudgetInv PROVE RetryBudget
    OBVIOUS
  <2>1. Spent \in SUBSET (Busy \X (1 .. MaxAttempts - 1))
    BY BudgetTypes DEF Spent, Retried, Busy, BudgetInv, AttemptInv, Forwarding
  <2>2. /\ IsFiniteSet(1 .. MaxAttempts - 1) /\ MaxAttempts - 1 \in Nat
        /\ Cardinality(1 .. MaxAttempts - 1) = MaxAttempts - 1
    BY BudgetTypes, FS_Interval
  <2>3. IsFiniteSet(Busy) /\ Cardinality(Busy) \in Nat
    BY WorkerSetsFinite
  <2>4. /\ IsFiniteSet(Busy \X (1 .. MaxAttempts - 1))
        /\ Cardinality(Busy \X (1 .. MaxAttempts - 1)) =
               Cardinality(Busy) * (MaxAttempts - 1)
    BY <2>2, <2>3, FS_Product
  <2>5. Cardinality(Spent) <= Cardinality(Busy) * (MaxAttempts - 1)
    BY <2>1, <2>4, FS_Subset
  <2>6. /\ MaxAttempts - 1 \in Int /\ Ended \in Int /\ Cardinality(Busy) \in Int
        /\ Cardinality(Spent) \in Nat /\ metric["retry"] \in Nat
    BY <2>3, BudgetTypes, SpentFinite
  <2>7. /\ Cardinality(Busy) * (MaxAttempts - 1) =
               (MaxAttempts - 1) * Cardinality(Busy)
        /\ (MaxAttempts - 1) * (Ended + Cardinality(Busy)) =
               (MaxAttempts - 1) * Ended
                   + (MaxAttempts - 1) * Cardinality(Busy)
        /\ (MaxAttempts - 1) * Ended \in Int
        /\ (MaxAttempts - 1) * Cardinality(Busy) \in Int
    BY <2>6, Distributes
  <2>8. metric["retry"] <= (MaxAttempts - 1) * (Ended + Cardinality(Busy))
    BY <2>5, <2>6, <2>7 DEF BudgetInv, SpentInv
  <2>9. QED
    BY <2>6, <2>8 DEF RetryBudget, Ended, BudgetInv, SpentInv
<1>4. QED
  BY <1>1, <1>2, <1>3, TypeCorrect, PTL DEF Spec
=============================================================================

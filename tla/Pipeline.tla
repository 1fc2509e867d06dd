------------------------------ MODULE Pipeline -------------------------------
(***************************************************************************)
(* The platform from the sensor to the table: the collector, Mosquitto,    *)
(* the bridge and the ingestor.  The collector and what follows the broker *)
(* share one step, the PUBLISH the broker receives and routes to the       *)
(* bridge's session; and a restart of the broker, which keeps nothing      *)
(* (persistence false), ends both connections at once.                     *)
(***************************************************************************)
EXTENDS Delivery

CONSTANTS MaxReadings, MaxLosses

VARIABLES main, cancelled, tick, taken, token, uplink, losses, outbox, sent,
          copies, metric

Edge == INSTANCE Collector WITH link <- uplink

\* The k-th copy of the n-th reading, as the broker receives it.
Copy(n, k) == <<n, k>>

ASSUME PipelineAssumption ==
    /\ MaxReadings \in Nat /\ MaxLosses \in Nat
    /\ Messages = (1 .. MaxReadings) \X (1 .. MaxLosses + 1)

edgeVars == <<main, cancelled, tick, taken, token, uplink, losses, outbox,
              sent, copies, metric>>
pipelineVars == <<vars, edgeVars>>

\* The copies of a reading are valid together.
PipelineInit ==
    /\ Init /\ Edge!Init
    /\ \A m, k \in Messages : m[1] = k[1] => (m \in valid <=> k \in valid)

\* Mosquitto hands the PUBLISH on as it comes, duplicates included.
Route(n) == Edge!Transmit(n) /\ Receive(Copy(n, copies[n] + 1))

BrokerRestarts == Edge!ConnectionLost /\ Disconnect

EdgeStep ==
    /\ \/ Edge!Main \/ Edge!Stop \/ Edge!Signal \/ Edge!Tick
       \/ Edge!ConnectUp \/ Edge!ConnectionLost
       \/ \E n \in Edge!Readings : Edge!PubAck(n)
    /\ UNCHANGED vars

CloudStep == Step /\ UNCHANGED edgeVars

PipelineNext ==
    \/ \E n \in Edge!Readings : Route(n)
    \/ BrokerRestarts \/ EdgeStep \/ CloudStep

PipelineSpec == PipelineInit /\ [][PipelineNext]_pipelineVars /\ Fairness

-----------------------------------------------------------------------------
(* Correctness.                                                            *)

CopiesOf(n) == {m \in Messages : m[1] = n}

\* The rows of a reading: the copy each comes from, and its number.
RowsOf(n) == UNION {{m} \X (1 .. rows[m]) : m \in CopiesOf(n)}

\* End to end a reading is stored at most once for each attempt at each of its
\* copies, and copied once more for each connection the collector lost: the
\* retries of the two hops multiply, and nothing else makes a duplicate row.
RowsEndToEnd ==
    \A n \in Edge!Readings :
        Cardinality(RowsOf(n)) <= MaxAttempts * (1 + losses)

\* A copy in the table, on its way through the bridge, or at an end that has
\* its cause: these are all the ways of a message the broker has received.
Explained(m) ==
    \/ rows[m] > 0 \/ m \in wiped
    \/ place[m] \in {"session"} \cup InBridge
    \/ place[m] \in {"missed", "dropped"}
    \/ place[m] = "lost" /\ exits > 0
    \/ place[m] = "invalid" /\ m \notin valid
    \/ /\ place[m] = "failure"
       /\ attempt[m] = MaxAttempts \/ Got(m, {"rejected"}) \/ stopping \/ exits > 0
    \/ place[m] = "success" /\ Got(m, {"unstored", "memory"})

\* What the collector counts as published can be explained: no reading is only
\* in its counter.  iiot_publish_success_total says nothing of the table, and
\* these are the ways in which it is ahead: the payload is invalid, which the
\* collector does not check; it was missed for want of a subscription, dropped
\* at the full queue or lost in the bridge; all attempts failed, one was
\* refused or a shutdown cancelled them; it was accepted without a row; or its
\* row was lost with the volume.
SuccessTraceable ==
    metric["success"] <=
        Cardinality({n \in Edge!Readings :
                         \E m \in CopiesOf(n) : Explained(m)})
=============================================================================

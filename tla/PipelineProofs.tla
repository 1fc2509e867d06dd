--------------------------- MODULE PipelineProofs ---------------------------
(***************************************************************************)
(* Proofs about the platform from the sensor to the table.  The pipeline   *)
(* implements the specifications of both its parts, the collector and      *)
(* Delivery, so that what is proved of each of them holds in it; the       *)
(* properties end to end follow from what relates the two: a copy of a     *)
(* reading is with the broker or beyond it exactly if the collector's      *)
(* client has transmitted it.                                              *)
(***************************************************************************)
EXTENDS Pipeline, DeliveryProofs

(* The collector in the pipeline, with what is proved of it.               *)
Collector == INSTANCE CollectorProofs WITH link <- uplink

-----------------------------------------------------------------------------
(* The pipeline implements its parts.                                      *)

(* What is assumed of the collector's constants is assumed of the          *)
(* pipeline's.                                                             *)
LEMMA CollectorConstants == Collector!CollectorAssumption
BY PipelineAssumption DEF PipelineAssumption, Collector!CollectorAssumption

LEMMA EdgeIsCollector ==
  /\ Edge!Init <=> Collector!Init
  /\ [Edge!Next]_Edge!vars <=> [Collector!Next]_Collector!vars
<1> USE DEF Edge!vars, Edge!loopVars, Edge!signalVars, Edge!linkVars,
            Edge!clientVars, Edge!Running, Edge!Readings, Edge!Outcomes
<1> USE DEF Collector!vars, Collector!loopVars, Collector!signalVars,
            Collector!linkVars, Collector!clientVars, Collector!Running,
            Collector!Readings, Collector!Outcomes
<1>1. Edge!Init <=> Collector!Init
  BY DEF Edge!Init, Collector!Init
<1>2. Edge!Main <=> Collector!Main
  BY DEF Edge!Main, Edge!MainGoto, Edge!Connected, Edge!ConnectFails,
         Edge!Publish, Edge!Count, Edge!Settle, Edge!WaitExpires,
         Edge!DisconnectReturns, Edge!Exit,
         Collector!Main, Collector!MainGoto, Collector!Connected,
         Collector!ConnectFails, Collector!Publish, Collector!Count,
         Collector!Settle, Collector!WaitExpires, Collector!DisconnectReturns,
         Collector!Exit
<1>3. Edge!Client <=> Collector!Client
  BY DEF Edge!Client, Edge!ConnectUp, Edge!ConnectionLost, Edge!Transmit,
         Edge!PubAck, Collector!Client, Collector!ConnectUp,
         Collector!ConnectionLost, Collector!Transmit, Collector!PubAck
<1>4. /\ Edge!Stop <=> Collector!Stop
      /\ Edge!Signal <=> Collector!Signal
      /\ Edge!Tick <=> Collector!Tick
      /\ Edge!Stopped <=> Collector!Stopped
  BY DEF Edge!Stop, Edge!MainGoto, Edge!Signal, Edge!Tick, Edge!Stopped,
         Collector!Stop, Collector!MainGoto, Collector!Signal, Collector!Tick,
         Collector!Stopped
<1>5. QED
  BY <1>1, <1>2, <1>3, <1>4 DEF Edge!Next, Collector!Next

\* Every step of the pipeline is one of the collector, or leaves it alone.
THEOREM PipelineImplementsCollector == PipelineSpec => Edge!Spec
<1>1. PipelineInit => Edge!Init
  BY DEF PipelineInit
<1>2. [PipelineNext]_pipelineVars => [Edge!Next]_Edge!vars
  <2> SUFFICES ASSUME [PipelineNext]_pipelineVars
               PROVE  Edge!Next \/ UNCHANGED Edge!vars
    OBVIOUS
  <2>1. CASE CloudStep \/ UNCHANGED pipelineVars
    <3>1. UNCHANGED edgeVars
      BY <2>1 DEF CloudStep, pipelineVars
    <3>2. QED
      BY <3>1 DEF edgeVars, Edge!vars, Edge!loopVars, Edge!signalVars,
                  Edge!linkVars, Edge!clientVars
  <2>2. ASSUME NEW n \in Edge!Readings, Route(n) PROVE Edge!Next
    BY <2>2 DEF Route, Edge!Next, Edge!Client
  <2>3. CASE BrokerRestarts
    BY <2>3 DEF BrokerRestarts, Edge!Next, Edge!Client
  <2>4. CASE EdgeStep
    BY <2>4 DEF EdgeStep, Edge!Next, Edge!Client
  <2>5. QED
    BY <2>1, <2>2, <2>3, <2>4 DEF PipelineNext
<1>3. QED
  BY <1>1, <1>2, PTL DEF PipelineSpec, Edge!Spec

(* What is proved of the collector holds of the edge of the pipeline.  An  *)
(* instance's Cardinality is that of the standard module.                  *)
LEMMA SameCardinality ==
  \A S : /\ Edge!Cardinality(S) = Cardinality(S)
         /\ Collector!Cardinality(S) = Cardinality(S)
BY DEF Edge!Cardinality, Collector!Cardinality, Cardinality

EdgeInv == Edge!TypeOK /\ Edge!CopiesNeedLosses
             /\ Edge!CountersBracketDeliveries

LEMMA EdgeHolds == PipelineSpec => []EdgeInv
<1>1. Edge!Spec => Collector!Spec
  BY EdgeIsCollector, PTL DEF Edge!Spec, Collector!Spec
<1>2. Collector!Spec => /\ []Collector!TypeOK /\ []Collector!CopiesNeedLosses
                        /\ []Collector!CountersBracketDeliveries
  BY CollectorConstants, Collector!CollectorTypeCorrect,
     Collector!CopiesBounded, Collector!CountersBracket
<1>3. Collector!TypeOK <=> Edge!TypeOK
  BY DEF Collector!TypeOK, Edge!TypeOK, Collector!Readings, Edge!Readings,
         Collector!Outcomes, Edge!Outcomes
<1>4. Collector!CopiesNeedLosses <=> Edge!CopiesNeedLosses
  BY DEF Collector!CopiesNeedLosses, Edge!CopiesNeedLosses,
         Collector!Readings, Edge!Readings
<1>5. Collector!CountersBracketDeliveries <=> Edge!CountersBracketDeliveries
  <2>1. Collector!Delivered = Edge!Delivered
    BY DEF Collector!Delivered, Edge!Delivered, Collector!Readings,
           Edge!Readings
  <2>2. /\ Collector!One(main = "waiting") = Edge!One(main = "waiting")
        /\ Collector!Counted = Edge!Counted
    BY DEF Collector!One, Edge!One, Collector!Counted, Edge!Counted
  <2>3. QED
    BY <2>1, <2>2, SameCardinality
       DEF Collector!CountersBracketDeliveries, Edge!CountersBracketDeliveries
<1>6. QED
  BY <1>1, <1>2, <1>3, <1>4, <1>5, PipelineImplementsCollector, PTL
     DEF EdgeInv

(* The copy that a Transmit makes is one of the messages: copies are       *)
(* bounded by the connections lost.                                        *)
LEMMA RouteCopies ==
  ASSUME EdgeInv, EdgeInv', NEW n \in Edge!Readings, Route(n)
  PROVE  /\ copies[n] \in Nat /\ copies' = [copies EXCEPT ![n] = @ + 1]
         /\ copies'[n] = copies[n] + 1
         /\ copies[n] + 1 \in 1 .. MaxLosses + 1
         /\ Copy(n, copies[n] + 1) \in Messages
<1>1. /\ copies' = [copies EXCEPT ![n] = @ + 1]
      /\ copies[n] \in Nat /\ copies'[n] = copies[n] + 1
  BY DEF Route, Edge!Transmit, EdgeInv, Edge!TypeOK
<1>2. copies'[n] <= 1 + losses' /\ losses' \in 0 .. MaxLosses
  BY DEF EdgeInv, Edge!TypeOK, Edge!CopiesNeedLosses, Edge!Readings
<1>3. copies[n] + 1 \in 1 .. MaxLosses + 1
  BY <1>1, <1>2, PipelineAssumption DEF PipelineAssumption
<1>4. QED
  BY <1>1, <1>3, PipelineAssumption DEF PipelineAssumption, Copy, Edge!Readings

\* Every step of the pipeline is one of Delivery, or leaves it alone: the
\* broker's restart is a lost connection to the bridge.  The fairness is the
\* bridge's own.
THEOREM PipelineImplementsDelivery == PipelineSpec => FairSpec
<1>1. PipelineInit => Init
  BY DEF PipelineInit
<1>2. ASSUME EdgeInv, EdgeInv', [PipelineNext]_pipelineVars
      PROVE  [Next]_vars
  <2>1. ASSUME NEW n \in Edge!Readings, Route(n) PROVE Next
    <3>1. Copy(n, copies[n] + 1) \in Messages
      BY <1>2, <2>1, RouteCopies
    <3>2. Receive(Copy(n, copies[n] + 1))
      BY <2>1 DEF Route
    <3>3. QED
      BY <3>1, <3>2 DEF Next
  <2>2. CASE BrokerRestarts
    BY <2>2 DEF BrokerRestarts, Next, Step, Session
  <2>3. CASE EdgeStep \/ UNCHANGED pipelineVars
    BY <2>3 DEF EdgeStep, pipelineVars
  <2>4. CASE CloudStep
    BY <2>4 DEF CloudStep, Next
  <2>5. QED
    BY <1>2, <2>1, <2>2, <2>3, <2>4 DEF PipelineNext
<1>3. QED
  BY <1>1, <1>2, EdgeHolds, PTL DEF PipelineSpec, Spec, FairSpec

-----------------------------------------------------------------------------
(* What relates the two parts.                                             *)

(* A message the broker has not received has not been tried.               *)
NewUntried == \A m \in Messages : place[m] = "new" => attempt[m] = 0

(* Only Receive takes a message away from the collector, none gives it     *)
(* back.                                                                   *)
LEMMA StepKeepsNew ==
  ASSUME TypeOK, Step
  PROVE  \A m \in Messages : place'[m] = "new" <=> place[m] = "new"
<1>1. ASSUME NEW m \in Messages, Bridge(m)
      PROVE  /\ place[m] # "new"
             /\ \E where \in Places \ {"new"} : MoveTo(m, where)
  BY <1>1 DEF Bridge, Deliver, Enqueue, Take, Invalid, Cancelled, Send,
              Answered, Unanswered, Places, InBridge, Settled
<1>2. CASE \E m \in Messages : Bridge(m)
  BY <1>1, <1>2, MoveToPlace
<1>3. CASE Session \/ Signal \/ VolumeLost
  BY <1>3 DEF Session, Connect, Subscribe, SubscribeFails, Disconnect, Ends,
              Signal, VolumeLost
<1>4. CASE BridgeExits
  BY <1>4 DEF BridgeExits, InBridge
<1>5. CASE \E m \in Messages, a \in Attempts : Handle(m, a)
  BY <1>5 DEF Handle
<1>6. QED
  BY <1>2, <1>3, <1>4, <1>5 DEF Step

LEMMA NewIsUntried == Spec => []NewUntried
<1>1. Init => NewUntried
  BY DEF Init, NewUntried
<1>2. TypeOK /\ NewUntried /\ [Next]_vars => NewUntried'
  <2> SUFFICES ASSUME TypeOK, NewUntried, [Next]_vars PROVE NewUntried'
    OBVIOUS
  <2>1. ASSUME NEW m \in Messages, Send(m) PROVE NewUntried'
    BY <2>1 DEF Send, MoveTo, NewUntried, TypeOK
  <2>2. CASE Step /\ UNCHANGED attempt
    BY <2>2, StepKeepsNew DEF NewUntried
  <2>3. ASSUME NEW m \in Messages, Receive(m) PROVE NewUntried'
    BY <2>3 DEF Receive, MoveTo, NewUntried, TypeOK
  <2>4. CASE UNCHANGED vars
    BY <2>4 DEF vars, NewUntried
  <2>5. CASE Step
    <3>1. UNCHANGED attempt \/ \E m \in Messages : Send(m)
      BY <2>5 DEF Step, Session, Connect, Subscribe, SubscribeFails,
                  Disconnect, Signal, VolumeLost, Bridge, Deliver, Enqueue, Take,
                  Invalid, Cancelled, Answered, Unanswered, BridgeExits, Handle
    <3>2. QED
      BY <2>1, <2>2, <2>5, <3>1
  <2>6. QED
    BY <2>3, <2>4, <2>5 DEF Next
<1>3. QED
  BY <1>1, <1>2, DeliveryTypeOK, PTL DEF Spec

\* The broker has received the first copies[n] copies of reading n.
CopyInv ==
  \A n \in Edge!Readings, k \in 1 .. MaxLosses + 1 :
      place[Copy(n, k)] = "new" <=> k > copies[n]

LEMMA CopiesReceived == PipelineSpec => []CopyInv
<1> USE PipelineAssumption DEF PipelineAssumption, Copy, Edge!Readings
<1>1. PipelineInit => CopyInv
  BY DEF PipelineInit, Init, Edge!Init, CopyInv
<1>2. ASSUME TypeOK, EdgeInv, EdgeInv', CopyInv, [PipelineNext]_pipelineVars
      PROVE  CopyInv'
  <2>1. CASE /\ UNCHANGED copies
             /\ \A m \in Messages : place'[m] = "new" <=> place[m] = "new"
    BY <1>2, <2>1 DEF CopyInv
  <2>2. ASSUME NEW n \in Edge!Readings, Route(n) PROVE CopyInv'
    <3> DEFINE c == Copy(n, copies[n] + 1)
    <3>1. /\ copies[n] \in Nat /\ copies' = [copies EXCEPT ![n] = @ + 1]
          /\ copies[n] + 1 \in 1 .. MaxLosses + 1 /\ c \in Messages
      BY <1>2, <2>2, RouteCopies
    <3>2. \E where \in {"session", "missed"} :
              place' = [place EXCEPT ![c] = where]
      BY <2>2 DEF Route, Receive, MoveTo
    <3>3. \A r \in Edge!Readings : copies[r] \in Nat
      BY <1>2 DEF EdgeInv, Edge!TypeOK
    <3>4. ASSUME NEW r \in Edge!Readings, NEW k \in 1 .. MaxLosses + 1
          PROVE  place'[Copy(r, k)] = "new" <=> k > copies'[r]
      <4>1. Copy(r, k) \in Messages
        OBVIOUS
      <4>2. CASE r = n /\ k = copies[n] + 1
        BY <1>2, <3>1, <3>2, <4>1, <4>2 DEF TypeOK, EdgeInv, Edge!TypeOK
      <4>3. CASE ~(r = n /\ k = copies[n] + 1)
        <5>1. Copy(r, k) # c
          BY <4>3
        <5>2. place'[Copy(r, k)] = place[Copy(r, k)]
          <6> HIDE DEF c, Copy
          <6> QED
            BY <1>2, <3>2, <4>1, <5>1 DEF TypeOK
        <5>3. k > copies'[r] <=> k > copies[r]
          BY <1>2, <3>1, <3>3, <4>3 DEF EdgeInv, Edge!TypeOK
        <5>4. QED
          BY <1>2, <5>2, <5>3 DEF CopyInv
      <4>4. QED
        BY <4>2, <4>3
    <3>5. QED
      BY <3>4 DEF CopyInv
  <2>3. CASE CloudStep
    BY <1>2, <2>1, <2>3, StepKeepsNew DEF CloudStep, edgeVars
  <2>4. CASE BrokerRestarts
    BY <1>2, <2>1, <2>4
       DEF BrokerRestarts, Edge!ConnectionLost, Disconnect, Ends
  <2>5. CASE EdgeStep
    <3>1. UNCHANGED <<place, copies>>
      BY <2>5 DEF EdgeStep, vars, Edge!Main, Edge!Connected, Edge!ConnectFails,
                  Edge!Publish, Edge!Count, Edge!Settle, Edge!WaitExpires,
                  Edge!DisconnectReturns, Edge!Exit, Edge!Stop, Edge!Signal,
                  Edge!Tick, Edge!ConnectUp, Edge!ConnectionLost, Edge!PubAck,
                  Edge!clientVars
    <3>2. QED
      BY <2>1, <3>1
  <2>6. CASE UNCHANGED pipelineVars
    BY <2>1, <2>6 DEF pipelineVars, vars, edgeVars
  <2>7. QED
    BY <1>2, <2>2, <2>3, <2>4, <2>5, <2>6 DEF PipelineNext
<1>3. QED
  BY <1>1, <1>2, PipelineImplementsDelivery, DeliveryTypeOK, EdgeHolds, PTL
     DEF PipelineSpec, FairSpec
-----------------------------------------------------------------------------
(* From the sensor to the table.                                           *)

(* A row of reading n is the i-th of its k-th copy: the collector has lost *)
(* k - 1 connections at least, and the bridge made i attempts at the copy. *)
LEMMA RowsOfReading ==
  ASSUME TypeOK, NewUntried, DuplicatesWithinRetries, EdgeInv, CopyInv,
         NEW n \in Edge!Readings
  PROVE  RowsOf(n) \subseteq ({n} \X (1 .. 1 + losses)) \X (1 .. MaxAttempts)
<1> USE PipelineAssumption DEF PipelineAssumption
<1> SUFFICES ASSUME NEW m \in CopiesOf(n), NEW i \in 1 .. rows[m]
             PROVE  m \in {n} \X (1 .. 1 + losses) /\ i \in 1 .. MaxAttempts
  BY DEF RowsOf
<1>1. m \in Messages /\ m[1] = n
  BY DEF CopiesOf
<1>2. PICK k \in 1 .. MaxLosses + 1 : m = Copy(n, k)
  BY <1>1 DEF Copy
<1>3. /\ rows[m] \in Nat /\ attempt[m] \in 0 .. MaxAttempts
      /\ rows[m] <= attempt[m]
  BY <1>1 DEF TypeOK, DuplicatesWithinRetries
<1>4. attempt[m] > 0 /\ i <= MaxAttempts
  BY <1>3, DeliveryAssumption DEF DeliveryAssumption
<1>5. place[m] # "new"
  BY <1>1, <1>3, <1>4 DEF NewUntried
<1>6. k <= copies[n]
  BY <1>2, <1>5 DEF CopyInv, EdgeInv, Edge!TypeOK
<1>7. copies[n] \in Nat /\ copies[n] <= 1 + losses /\ losses \in Nat
  BY DEF EdgeInv, Edge!TypeOK, Edge!CopiesNeedLosses
<1>8. k \in 1 .. 1 + losses
  BY <1>6, <1>7
<1>9. QED
  BY <1>2, <1>3, <1>4, <1>8, DeliveryAssumption DEF DeliveryAssumption, Copy

\* End to end the retries of the two hops multiply, and nothing else makes a
\* duplicate row: a reading has at most one row for each attempt at each copy,
\* and a copy more for each connection the collector lost.
THEOREM RowsAreBounded == PipelineSpec => []RowsEndToEnd
<1>1. ASSUME TypeOK, NewUntried, DuplicatesWithinRetries, EdgeInv, CopyInv
      PROVE  RowsEndToEnd
  <2> SUFFICES ASSUME NEW n \in Edge!Readings
               PROVE  Cardinality(RowsOf(n)) <= MaxAttempts * (1 + losses)
    BY DEF RowsEndToEnd
  <2> DEFINE C == {n} \X (1 .. 1 + losses)
             A == 1 .. MaxAttempts
  <2>1. losses \in Nat /\ MaxAttempts \in Nat
    BY <1>1, DeliveryAssumption, PipelineAssumption
       DEF EdgeInv, Edge!TypeOK, DeliveryAssumption, PipelineAssumption
  <2>2. /\ IsFiniteSet(1 .. 1 + losses)
        /\ Cardinality(1 .. 1 + losses) = 1 + losses
        /\ IsFiniteSet(A) /\ Cardinality(A) = MaxAttempts
    BY <2>1, FS_Interval
  <2>3. IsFiniteSet({n}) /\ Cardinality({n}) = 1
    BY FS_Singleton
  <2>4. IsFiniteSet(C) /\ Cardinality(C) = 1 + losses
    <3>1. /\ IsFiniteSet(C)
          /\ Cardinality(C) = Cardinality({n}) * Cardinality(1 .. 1 + losses)
      BY <2>2, <2>3, FS_Product
    <3>2. QED
      BY <2>1, <2>2, <2>3, <3>1
  <2>5. RowsOf(n) \subseteq C \X A
    BY <1>1, RowsOfReading
  <2> HIDE DEF C, A
  <2>6. /\ IsFiniteSet(C \X A)
        /\ Cardinality(C \X A) = (1 + losses) * MaxAttempts
    BY <2>2, <2>4, FS_Product
  <2>7. Cardinality(RowsOf(n)) <= (1 + losses) * MaxAttempts
    BY <2>5, <2>6, FS_Subset
  <2>8. QED
    BY <2>1, <2>7
<1>2. QED
  BY <1>1, PipelineImplementsDelivery, DeliveryTypeOK, NewIsUntried,
     DuplicatesBounded, EdgeHolds, CopiesReceived, PTL DEF FairSpec

\* No reading the collector counts as published is only in its counter: it is
\* in the table, on its way through the bridge, or at an end that has its cause.
THEOREM SuccessIsTraceable == PipelineSpec => []SuccessTraceable
<1>1. ASSUME TypeOK, SuccessAccounted, EndInv, EdgeInv, CopyInv
      PROVE  SuccessTraceable
  <2> DEFINE T == {n \in Edge!Readings : \E m \in CopiesOf(n) : Explained(m)}
  <2>1. ASSUME NEW n \in Edge!Delivered
        PROVE  \E m \in CopiesOf(n) : Explained(m)
    <3> DEFINE c == Copy(n, 1)
    <3>1. /\ n \in Edge!Readings /\ n \in 1 .. MaxReadings
          /\ copies[n] > 0 /\ copies[n] \in Nat
      BY <1>1 DEF Edge!Delivered, Edge!Readings, EdgeInv, Edge!TypeOK
    <3>2. 1 \in 1 .. MaxLosses + 1 /\ ~ 1 > copies[n]
      BY <3>1, PipelineAssumption DEF PipelineAssumption
    <3>3. c \in Messages /\ c \in CopiesOf(n)
      BY <3>1, <3>2, PipelineAssumption DEF PipelineAssumption, Copy, CopiesOf
    <3>4. place[c] # "new"
      BY <1>1, <3>1, <3>2 DEF CopyInv
    <3> HIDE DEF c
    <3>5. CASE place[c] = "success"
      BY <1>1, <3>3, <3>5 DEF SuccessAccounted, At, Explained
    <3>6. CASE place[c] \in {"invalid", "failure", "lost"}
      BY <1>1, <3>3, <3>6 DEF EndInv, Explained
    <3>7. CASE \/ place[c] \in {"session"} \cup InBridge
               \/ place[c] \in {"missed", "dropped"}
      BY <3>3, <3>7 DEF Explained
    <3>8. place[c] \in Places
      BY <1>1, <3>3 DEF TypeOK
    <3>9. QED
      BY <3>4, <3>5, <3>6, <3>7, <3>8 DEF Places, Settled
  <2>2. Edge!Delivered \in SUBSET T
    BY <2>1 DEF Edge!Delivered
  <2>3. IsFiniteSet(1 .. MaxReadings) /\ T \in SUBSET (1 .. MaxReadings)
    BY FS_Interval, PipelineAssumption DEF PipelineAssumption, Edge!Readings
  <2>4. IsFiniteSet(T)
    BY <2>3, FS_Subset
  <2>5. /\ Cardinality(Edge!Delivered) <= Cardinality(T)
        /\ Cardinality(Edge!Delivered) \in Nat /\ Cardinality(T) \in Nat
    BY <2>2, <2>4, FS_Subset, FS_CardinalityType
  <2>6. /\ metric["success"] <= Cardinality(Edge!Delivered)
        /\ metric["success"] \in Nat
    BY <1>1, SameCardinality
       DEF EdgeInv, Edge!TypeOK, Edge!Outcomes, Edge!CountersBracketDeliveries
  <2> HIDE DEF T
  <2>7. metric["success"] <= Cardinality(T)
    BY <2>5, <2>6
  <2>8. QED
    BY <2>7 DEF SuccessTraceable, T
<1>2. QED
  BY <1>1, PipelineImplementsDelivery, DeliveryTypeOK, SuccessIsAccounted,
     EndsHaveCauses, EdgeHolds, CopiesReceived, PTL DEF FairSpec
=============================================================================

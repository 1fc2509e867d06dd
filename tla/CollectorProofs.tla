-------------------------- MODULE CollectorProofs ---------------------------
(***************************************************************************)
(* Proofs about the collector for every number of readings and of lost     *)
(* connections: its type invariant, what its counters say of the readings  *)
(* that the broker and the client hold, and the bound on the copies.       *)
(***************************************************************************)
EXTENDS Collector, FiniteSetTheorems, TLAPS

USE DEF loopVars, signalVars, linkVars, clientVars

-----------------------------------------------------------------------------
(* Type correctness.                                                       *)

(* Publish numbers the next reading, which the client keeps or not.        *)
LEMMA PublishEffect ==
  ASSUME TypeOK, Publish
  PROVE  /\ taken \in 0 .. MaxReadings - 1 /\ taken' = taken + 1
         /\ taken' \in 1 .. MaxReadings
         /\ main = "select" /\ main' = "waiting" /\ tick' = FALSE
         /\ token' \in {"pending", "failed"}
         /\ outbox' = outbox \/ outbox' = outbox \cup {taken'}
         /\ outbox' \subseteq 1 .. taken' /\ sent' \subseteq outbox'
         /\ UNCHANGED <<metric, cancelled, link, losses, sent, copies>>
<1>1. taken \in 0 .. MaxReadings /\ taken < MaxReadings /\ taken' = taken + 1
  BY DEF TypeOK, Publish
<1>2. outbox' = outbox \/ outbox' = outbox \cup {taken'}
  BY <1>1 DEF Publish
<1>3. outbox \subseteq 1 .. taken /\ sent \subseteq outbox
  BY DEF TypeOK
<1>4. taken \in 0 .. MaxReadings - 1 /\ taken' \in 1 .. MaxReadings
  BY <1>1, CollectorAssumption DEF CollectorAssumption
<1>5. 1 .. taken' = 1 .. taken \cup {taken'}
  BY <1>1, <1>4, CollectorAssumption DEF CollectorAssumption
<1>6. outbox' \subseteq 1 .. taken' /\ sent \subseteq outbox'
  BY <1>2, <1>3, <1>5
<1>7. QED
  BY <1>1, <1>2, <1>4, <1>6 DEF Publish, MainGoto

LEMMA PublishTyped ==
  ASSUME TypeOK, Publish PROVE TypeOK'
<1>1. /\ taken' \in 0 .. MaxReadings
      /\ main' = "waiting" /\ tick' = FALSE
      /\ token' \in {"pending", "failed"}
      /\ outbox' \subseteq 1 .. taken' /\ sent' \subseteq outbox'
      /\ UNCHANGED <<metric, cancelled, link, losses, copies>>
  BY PublishEffect
<1>2. QED
  BY <1>1 DEF TypeOK

\* The type invariant holds in every reachable state: in particular only
\* sampled readings are in the outbox, and only those that are in it are
\* marked as sent.
THEOREM CollectorTypeCorrect == Spec => []TypeOK
<1> USE CollectorAssumption DEF CollectorAssumption, TypeOK, Readings, Outcomes
<1>1. Init => TypeOK
  <2> SUFFICES ASSUME Init PROVE TypeOK
    OBVIOUS
  <2>1. copies \in [Readings -> Nat] /\ metric \in [Outcomes -> Nat]
    BY DEF Init
  <2>2. taken \in 0 .. MaxReadings /\ losses \in 0 .. MaxLosses
    BY DEF Init
  <2>3. QED
    BY <2>1, <2>2 DEF Init
<1>2. TypeOK /\ [Next]_vars => TypeOK'
  <2> SUFFICES ASSUME TypeOK, [Next]_vars PROVE TypeOK'
    OBVIOUS
  <2> USE DEF MainGoto
  <2>1. CASE Connected
    BY <2>1 DEF Connected
  <2>2. CASE ConnectFails
    BY <2>2 DEF ConnectFails
  <2>3. CASE Publish
    BY <2>3, PublishTyped
  <2>4. ASSUME NEW o \in Outcomes, Count(o) PROVE TypeOK'
    BY <2>4 DEF Count
  <2>5. CASE Settle \/ WaitExpires
    BY <2>4, <2>5 DEF Settle, WaitExpires
  <2>6. CASE DisconnectReturns
    BY <2>6 DEF DisconnectReturns
  <2>7. CASE Exit
    BY <2>7 DEF Exit
  <2>8. CASE Stop
    BY <2>8 DEF Stop
  <2>9. CASE ConnectUp
    BY <2>9 DEF ConnectUp
  <2>10. CASE ConnectionLost
    BY <2>10 DEF ConnectionLost
  <2>11. ASSUME NEW n \in Readings, Transmit(n) PROVE TypeOK'
    BY <2>11 DEF Transmit
  <2>12. ASSUME NEW n \in Readings, PubAck(n) PROVE TypeOK'
    BY <2>12 DEF PubAck
  <2>13. CASE Signal \/ Tick
    BY <2>13 DEF Signal, Tick
  <2>14. CASE UNCHANGED vars
    BY <2>14 DEF vars
  <2>15. QED
    BY <2>1, <2>2, <2>3, <2>5, <2>6, <2>7, <2>8, <2>9, <2>10, <2>11, <2>12,
       <2>13, <2>14 DEF Next, Main, Client, Stopped
<1>3. QED
  BY <1>1, <1>2, PTL DEF Spec

-----------------------------------------------------------------------------
(* Copies.                                                                 *)

\* A reading that waits to be sent has had at most one copy for each lost
\* connection; the closed client sends none.
CopiesInv ==
  /\ CopiesNeedLosses
  /\ \A n \in Readings : n > taken => copies[n] = 0
  /\ \A n \in outbox \ sent : link # "closed" => copies[n] <= losses

LEMMA PublishCopies ==
  ASSUME TypeOK, CopiesInv, Publish PROVE CopiesInv'
<1>1. /\ taken \in 0 .. MaxReadings - 1 /\ taken' = taken + 1
      /\ outbox' = outbox \/ outbox' = outbox \cup {taken'}
      /\ UNCHANGED <<link, losses, sent, copies>>
  BY PublishEffect
<1>2. taken' \in Readings /\ copies[taken'] = 0
  BY <1>1, CollectorAssumption
     DEF CollectorAssumption, CopiesInv, Readings
<1>3. CopiesNeedLosses' /\ \A n \in Readings : n > taken' => copies'[n] = 0
  BY <1>1, CollectorAssumption
     DEF CollectorAssumption, CopiesInv, CopiesNeedLosses, Readings
<1>4. losses \in Nat
  BY CollectorAssumption DEF CollectorAssumption, TypeOK
<1>5. \A n \in outbox' \ sent' : link' # "closed" => copies'[n] <= losses'
  BY <1>1, <1>2, <1>4 DEF CopiesInv
<1>6. QED
  BY <1>3, <1>5 DEF CopiesInv

\* The broker receives a reading at most once more than connections were lost:
\* a publish that timed out is not repeated, and a reconnect resends once.
THEOREM CopiesBounded == Spec => []CopiesNeedLosses
<1> USE CollectorAssumption
    DEF CollectorAssumption, CopiesInv, CopiesNeedLosses, Readings, TypeOK
<1>1. Init => CopiesInv
  BY DEF Init
<1>2. TypeOK /\ CopiesInv /\ [Next]_vars => CopiesInv'
  <2> SUFFICES ASSUME TypeOK, CopiesInv, [Next]_vars PROVE CopiesInv'
    OBVIOUS
  <2>1. CASE Publish
    BY <2>1, PublishCopies
  <2>2. CASE ConnectionLost
    <3>1. losses' = losses + 1 /\ UNCHANGED <<copies, taken, outbox>>
      BY <2>2 DEF ConnectionLost
    <3>2. \A n \in Readings : copies'[n] <= losses'
      BY <3>1
    <3>3. QED
      BY <3>1, <3>2
  <2>3. ASSUME NEW n \in Readings, Transmit(n) PROVE CopiesInv'
    BY <2>3 DEF Transmit
  <2>4. ASSUME NEW n \in Readings, PubAck(n) PROVE CopiesInv'
    BY <2>4 DEF PubAck
  <2>5. CASE DisconnectReturns \/ Exit
    BY <2>5 DEF DisconnectReturns, Exit
  <2>6. CASE ConnectUp
    BY <2>6 DEF ConnectUp
  <2>7. CASE Connected \/ ConnectFails \/ Stop \/ Signal \/ Tick
             \/ UNCHANGED vars
    BY <2>7 DEF Connected, ConnectFails, Stop, Signal, Tick, vars
  <2>8. CASE Settle \/ WaitExpires
    BY <2>8 DEF Settle, WaitExpires, Count
  <2>9. QED
    BY <2>1, <2>2, <2>3, <2>4, <2>5, <2>6, <2>7, <2>8
       DEF Next, Main, Client, Stopped
<1>3. CopiesInv => CopiesNeedLosses
  OBVIOUS
<1>4. QED
  BY <1>1, <1>2, <1>3, CollectorTypeCorrect, PTL DEF Spec

-----------------------------------------------------------------------------
(* Counters.                                                               *)

\* The readings with an outcome.
Done == 1 .. (IF main = "waiting" THEN taken - 1 ELSE taken)

\* The loop's state: a token while it waits, and an outcome for each reading.
LoopInv ==
  /\ main = "waiting" <=> token # "none"
  /\ taken = metric["success"] + metric["failure"] + metric["timeout"]
               + One(main = "waiting")

\* What is known of a reading: a sent one has been received, one that has been
\* received has been sampled, and an acknowledged one has left the outbox.
ReadingInv ==
  /\ sent \subseteq Delivered
  /\ Delivered \subseteq 1 .. taken
  /\ token = "acked" => taken \in Delivered \ outbox

\* Of the readings with an outcome, as many have been received as succeeded,
\* and no more wait in the outbox than failed or timed out.
CountInv ==
  /\ metric["success"] <= Cardinality(Delivered \cap Done)
  /\ Cardinality(outbox \cap Done) <= metric["failure"] + metric["timeout"]

LEMMA LoopStep ==
  ASSUME TypeOK, LoopInv, [Next]_vars PROVE LoopInv'
<1>1. CASE Publish
  <2>1. /\ taken' = taken + 1 /\ UNCHANGED metric
        /\ main = "select" /\ main' = "waiting" /\ token' # "none"
    BY <1>1, PublishEffect
  <2>2. \A o \in Outcomes : metric[o] \in Nat
    BY DEF TypeOK
  <2>3. QED
    BY <2>1, <2>2 DEF LoopInv, One, Outcomes
<1> USE DEF TypeOK, LoopInv, One, MainGoto, Outcomes
<1>2. ASSUME NEW o \in Outcomes, Count(o) PROVE LoopInv'
  BY <1>2 DEF Count
<1>3. CASE Settle \/ WaitExpires
  BY <1>2, <1>3 DEF Settle, WaitExpires
<1>4. ASSUME NEW n \in Readings, Transmit(n) \/ PubAck(n) PROVE LoopInv'
  BY <1>4 DEF Transmit, PubAck
<1>5. CASE Connected \/ ConnectFails \/ DisconnectReturns \/ Exit \/ Stop
  BY <1>5 DEF Connected, ConnectFails, DisconnectReturns, Exit, Stop
<1>6. CASE ConnectUp \/ ConnectionLost \/ Signal \/ Tick \/ UNCHANGED vars
  BY <1>6 DEF ConnectUp, ConnectionLost, Signal, Tick, vars
<1>7. QED
  BY <1>1, <1>3, <1>4, <1>5, <1>6 DEF Next, Main, Client, Stopped

LEMMA ReadingStep ==
  ASSUME TypeOK, LoopInv, ReadingInv, [Next]_vars PROVE ReadingInv'
<1>1. CASE Publish
  <2>1. /\ taken \in Nat /\ taken' = taken + 1 /\ token' # "acked"
        /\ UNCHANGED <<sent, copies>>
    BY <1>1, PublishEffect
  <2>2. QED
    BY <2>1 DEF ReadingInv, Delivered
<1> USE DEF TypeOK, LoopInv, ReadingInv, Delivered, MainGoto, Readings
<1>2. CASE Settle \/ WaitExpires
  BY <1>2 DEF Settle, WaitExpires, Count
<1>3. ASSUME NEW n \in Readings, Transmit(n) PROVE ReadingInv'
  BY <1>3 DEF Transmit
<1>4. ASSUME NEW n \in Readings, PubAck(n) PROVE ReadingInv'
  BY <1>4 DEF PubAck
<1>5. CASE Connected \/ ConnectFails \/ DisconnectReturns \/ Exit \/ Stop
  BY <1>5 DEF Connected, ConnectFails, DisconnectReturns, Exit, Stop
<1>6. CASE ConnectUp \/ ConnectionLost \/ Signal \/ Tick \/ UNCHANGED vars
  BY <1>6 DEF ConnectUp, ConnectionLost, Signal, Tick, vars
<1>7. QED
  BY <1>1, <1>2, <1>3, <1>4, <1>5, <1>6 DEF Next, Main, Client, Stopped

(* The sets that are counted are finite.                                   *)
LEMMA CountedFinite ==
  ASSUME TypeOK
  PROVE  /\ IsFiniteSet(Delivered \cap Done) /\ IsFiniteSet(outbox \cap Done)
         /\ IsFiniteSet(Delivered) /\ IsFiniteSet(outbox)
<1>1. taken \in Int /\ taken - 1 \in Int /\ outbox \subseteq 1 .. taken
  BY CollectorAssumption DEF CollectorAssumption, TypeOK
<1>2. IsFiniteSet(1 .. taken) /\ IsFiniteSet(Done) /\ IsFiniteSet(Readings)
  BY <1>1, FS_Interval, CollectorAssumption
     DEF CollectorAssumption, Done, Readings
<1>3. IsFiniteSet(Delivered) /\ IsFiniteSet(outbox)
  BY <1>1, <1>2, FS_Subset DEF Delivered
<1>4. Delivered \cap Done \subseteq Delivered /\ outbox \cap Done \subseteq outbox
  OBVIOUS
<1>5. QED
  BY <1>3, <1>4, FS_Subset

LEMMA AddedAtMostOne ==
  ASSUME NEW S, NEW x, IsFiniteSet(S)
  PROVE  /\ IsFiniteSet(S \cup {x})
         /\ Cardinality(S) \in Nat /\ Cardinality(S \cup {x}) \in Nat
         /\ Cardinality(S \cup {x}) <= Cardinality(S) + 1
<1>1. /\ IsFiniteSet(S \cup {x})
      /\ Cardinality(S \cup {x}) = Cardinality(S) + 1
            \/ Cardinality(S \cup {x}) = Cardinality(S)
  BY FS_AddElement
<1>2. Cardinality(S) \in Nat
  BY FS_CardinalityType
<1>3. QED
  BY <1>1, <1>2

(* A step that gives no reading an outcome.                                *)
LEMMA UncountedStep ==
  ASSUME TypeOK, CountInv, Done' = Done, UNCHANGED metric,
         Delivered \subseteq Delivered', outbox' \cap Done \subseteq outbox
  PROVE  CountInv'
<1>1. /\ IsFiniteSet(Delivered' \cap Done') /\ IsFiniteSet(Delivered \cap Done)
      /\ IsFiniteSet(outbox \cap Done) /\ IsFiniteSet(outbox' \cap Done')
  <2>1. IsFiniteSet(Delivered \cap Done) /\ IsFiniteSet(outbox \cap Done)
    BY CountedFinite
  <2>2. IsFiniteSet(Readings) /\ Delivered' \cap Done' \subseteq Readings
    BY FS_Interval, CollectorAssumption
       DEF CollectorAssumption, Readings, Delivered
  <2>3. outbox' \cap Done' \subseteq outbox \cap Done
    OBVIOUS
  <2>4. QED
    BY <2>1, <2>2, <2>3, FS_Subset
<1>2. /\ Delivered \cap Done \subseteq Delivered' \cap Done'
      /\ outbox' \cap Done' \subseteq outbox \cap Done
  OBVIOUS
<1>3. /\ Cardinality(Delivered \cap Done) <= Cardinality(Delivered' \cap Done')
      /\ Cardinality(outbox' \cap Done') <= Cardinality(outbox \cap Done)
  BY <1>1, <1>2, FS_Subset
<1>4. /\ Cardinality(Delivered \cap Done) \in Nat
      /\ Cardinality(Delivered' \cap Done') \in Nat
      /\ Cardinality(outbox \cap Done) \in Nat
      /\ Cardinality(outbox' \cap Done') \in Nat
  BY <1>1, FS_CardinalityType
<1>5. \A o \in Outcomes : metric[o] \in Nat
  BY DEF TypeOK
<1>6. QED
  BY <1>3, <1>4, <1>5 DEF CountInv, Outcomes

(* The reading being published gets its outcome: a success if it has been  *)
(* acknowledged, and a timeout or a failure whatever became of it.         *)
LEMMA CountedStep ==
  ASSUME TypeOK, LoopInv, ReadingInv, CountInv, NEW o \in Outcomes, Count(o),
         o = "success" => token = "acked"
  PROVE  CountInv'
<1>1. /\ main = "waiting" /\ main' = "select"
      /\ taken' = taken /\ outbox' = outbox /\ Delivered' = Delivered
  BY DEF Count, MainGoto, Delivered
<1>2. taken \in Nat /\ outbox \subseteq 1 .. taken
  BY DEF TypeOK
<1>3. Done = 1 .. taken - 1 /\ Done' = 1 .. taken
  BY <1>1 DEF Done
<1>4. Done' \subseteq Done \cup {taken} /\ Done \subseteq Done' /\ taken \notin Done
  BY <1>2, <1>3
<1>5. IsFiniteSet(Delivered \cap Done) /\ IsFiniteSet(outbox \cap Done)
  BY CountedFinite
<1>6. /\ Cardinality(Delivered \cap Done) \in Nat
      /\ Cardinality(outbox \cap Done) \in Nat
  BY <1>5, FS_CardinalityType
<1>7. /\ \A p \in Outcomes : metric[p] \in Nat
      /\ metric' = [metric EXCEPT ![o] = @ + 1]
      /\ DOMAIN metric = Outcomes
  BY DEF TypeOK, Count
<1>8. CASE o = "success"
  <2>1. taken \in Delivered \ outbox /\ taken \in Done'
    BY <1>2, <1>3, <1>8 DEF ReadingInv
  <2>2. /\ Delivered' \cap Done' = (Delivered \cap Done) \cup {taken}
        /\ outbox' \cap Done' = outbox \cap Done
    BY <1>1, <1>4, <2>1
  <2>3. Cardinality(Delivered' \cap Done') = Cardinality(Delivered \cap Done) + 1
    BY <1>4, <1>5, <2>2, FS_AddElement
  <2>4. /\ metric'["success"] = metric["success"] + 1
        /\ metric'["failure"] = metric["failure"]
        /\ metric'["timeout"] = metric["timeout"]
        /\ metric["success"] \in Nat
    BY <1>7, <1>8 DEF Outcomes
  <2>5. metric'["success"] <= Cardinality(Delivered' \cap Done')
    BY <1>6, <2>3, <2>4 DEF CountInv
  <2>6. Cardinality(outbox' \cap Done')
           <= metric'["failure"] + metric'["timeout"]
    BY <2>2, <2>4 DEF CountInv
  <2>7. QED
    BY <2>5, <2>6 DEF CountInv
<1>9. CASE o # "success"
  <2>1. /\ Delivered \cap Done \subseteq Delivered' \cap Done'
        /\ Delivered' \cap Done' \subseteq (Delivered \cap Done) \cup {taken}
        /\ outbox' \cap Done' \subseteq (outbox \cap Done) \cup {taken}
    BY <1>1, <1>4
  <2>2. /\ IsFiniteSet((Delivered \cap Done) \cup {taken})
        /\ IsFiniteSet((outbox \cap Done) \cup {taken})
        /\ Cardinality((outbox \cap Done) \cup {taken})
               <= Cardinality(outbox \cap Done) + 1
    BY <1>5, AddedAtMostOne
  <2>3. IsFiniteSet(Delivered' \cap Done') /\ IsFiniteSet(outbox' \cap Done')
    BY <2>1, <2>2, FS_Subset
  <2>4. /\ Cardinality(Delivered \cap Done) <= Cardinality(Delivered' \cap Done')
        /\ Cardinality(outbox' \cap Done')
               <= Cardinality((outbox \cap Done) \cup {taken})
    BY <2>1, <2>2, <2>3, FS_Subset
  <2>5. /\ Cardinality(Delivered' \cap Done') \in Nat
        /\ Cardinality(outbox' \cap Done') \in Nat
        /\ Cardinality((outbox \cap Done) \cup {taken}) \in Nat
    BY <2>2, <2>3, FS_CardinalityType
  <2>6. /\ metric'["success"] = metric["success"]
        /\ metric'["failure"] + metric'["timeout"]
               = metric["failure"] + metric["timeout"] + 1
    BY <1>7, <1>9 DEF Outcomes
  <2>7. /\ metric["success"] \in Nat /\ metric["failure"] \in Nat
        /\ metric["timeout"] \in Nat
    BY <1>7 DEF Outcomes
  <2>8. metric'["success"] <= Cardinality(Delivered' \cap Done')
    BY <1>6, <2>4, <2>5, <2>6, <2>7 DEF CountInv
  <2>9. Cardinality(outbox' \cap Done')
           <= metric'["failure"] + metric'["timeout"]
    BY <1>6, <2>2, <2>4, <2>5, <2>6, <2>7 DEF CountInv
  <2>10. QED
    BY <2>8, <2>9 DEF CountInv
<1>10. QED
  BY <1>8, <1>9

LEMMA CountStep ==
  ASSUME TypeOK, LoopInv, ReadingInv, CountInv, [Next]_vars
  PROVE  CountInv'
<1>1. CASE Publish
  <2>1. /\ taken \in Nat /\ taken' = taken + 1
        /\ main = "select" /\ main' = "waiting"
        /\ outbox' = outbox \/ outbox' = outbox \cup {taken'}
        /\ UNCHANGED <<metric, copies>>
    BY <1>1, PublishEffect
  <2>2. Done' = Done /\ taken' \notin Done
    BY <2>1 DEF Done
  <2>3. QED
    BY <2>1, <2>2, UncountedStep DEF Delivered
<1>2. CASE Settle \/ WaitExpires
  BY <1>2, CountedStep DEF Settle, WaitExpires, Outcomes
<1>3. ASSUME NEW n \in Readings, Transmit(n) PROVE CountInv'
  <2>1. /\ UNCHANGED <<main, taken, metric, outbox>>
        /\ copies' = [copies EXCEPT ![n] = @ + 1]
    BY <1>3 DEF Transmit
  <2>2. \A k \in Readings : copies[k] \in Nat /\ copies'[k] >= copies[k]
    BY <2>1 DEF TypeOK
  <2>3. Delivered \subseteq Delivered' /\ Done' = Done
    BY <2>1, <2>2 DEF Delivered, Done
  <2>4. QED
    BY <2>1, <2>3, UncountedStep
<1>4. ASSUME NEW n \in Readings, PubAck(n) PROVE CountInv'
  <2>1. UNCHANGED <<main, taken, metric, copies>> /\ outbox' \subseteq outbox
    BY <1>4 DEF PubAck
  <2>2. QED
    BY <2>1, UncountedStep DEF Delivered, Done
<1>5. CASE Connected \/ ConnectFails \/ DisconnectReturns \/ Exit \/ Stop
  <2>1. /\ UNCHANGED <<taken, metric, copies>> /\ outbox' \subseteq outbox
        /\ main # "waiting" /\ main' # "waiting"
    BY <1>5 DEF Connected, ConnectFails, DisconnectReturns, Exit, Stop, MainGoto
  <2>2. QED
    BY <2>1, UncountedStep DEF Delivered, Done
<1>6. CASE ConnectUp \/ ConnectionLost \/ Signal \/ Tick \/ UNCHANGED vars
  <2>1. UNCHANGED <<main, taken, metric, copies, outbox>>
    BY <1>6 DEF ConnectUp, ConnectionLost, Signal, Tick, vars
  <2>2. QED
    BY <2>1, UncountedStep DEF Delivered, Done
<1>7. QED
  BY <1>1, <1>2, <1>3, <1>4, <1>5, <1>6 DEF Next, Main, Client, Stopped

\* The invariant that the bounds follow from.
CountersInv == LoopInv /\ ReadingInv /\ CountInv

LEMMA CountersInductive == Spec => [](TypeOK /\ CountersInv)
<1>1. Init => CountersInv
  <2> SUFFICES ASSUME Init PROVE CountersInv
    OBVIOUS
  <2>1. LoopInv
    BY DEF Init, LoopInv, One, Outcomes
  <2>2. Delivered = {} /\ outbox = {} /\ sent = {} /\ token = "none"
    BY DEF Init, Delivered
  <2>3. ReadingInv
    BY <2>2 DEF ReadingInv
  <2>4. Delivered \cap Done = {} /\ outbox \cap Done = {}
    BY <2>2
  <2>5. \A o \in Outcomes : metric[o] = 0
    BY DEF Init
  <2>6. CountInv
    BY <2>4, <2>5, FS_EmptySet DEF CountInv, Outcomes
  <2>7. QED
    BY <2>1, <2>3, <2>6 DEF CountersInv
<1>2. TypeOK /\ CountersInv /\ [Next]_vars => CountersInv'
  BY LoopStep, ReadingStep, CountStep DEF CountersInv
<1>3. QED
  BY <1>1, <1>2, CollectorTypeCorrect, PTL DEF Spec

\* At every moment the broker has received at least the readings counted as
\* published, and at most those with an outcome and the one being published.
THEOREM CountersBracket == Spec => []CountersBracketDeliveries
<1>1. TypeOK /\ CountersInv => CountersBracketDeliveries
  <2> SUFFICES ASSUME TypeOK, CountersInv PROVE CountersBracketDeliveries
    OBVIOUS
  <2>1. IsFiniteSet(Delivered) /\ Delivered \cap Done \subseteq Delivered
    BY CountedFinite
  <2>2. Cardinality(Delivered \cap Done) <= Cardinality(Delivered)
    BY <2>1, FS_Subset
  <2>3. IsFiniteSet(Delivered \cap Done)
    BY CountedFinite
  <2>4. Cardinality(Delivered) \in Nat /\ Cardinality(Delivered \cap Done) \in Nat
    BY <2>1, <2>3, FS_CardinalityType
  <2>5. taken \in Nat /\ \A o \in Outcomes : metric[o] \in Nat
    BY DEF TypeOK
  <2>6. Cardinality(Delivered) <= Cardinality(1 .. taken)
    <3>1. IsFiniteSet(1 .. taken)
      BY <2>5, FS_Interval
    <3>2. QED
      BY <3>1, FS_Subset DEF CountersInv, ReadingInv
  <2>7. Cardinality(1 .. taken) = taken
    BY <2>5, FS_Interval
  <2>8. QED
    BY <2>2, <2>4, <2>5, <2>6, <2>7
       DEF CountersBracketDeliveries, Counted, CountersInv, LoopInv, CountInv,
           Outcomes
<1>2. QED
  BY <1>1, CountersInductive, PTL

\* The readings in the client's outbox, the one being published apart, are at
\* most those that were counted as timeouts or failures.
THEOREM BacklogBounded == Spec => []BacklogCounted
<1>1. TypeOK /\ CountersInv => BacklogCounted
  <2> SUFFICES ASSUME TypeOK, CountersInv PROVE BacklogCounted
    OBVIOUS
  <2>1. /\ taken \in Nat /\ outbox \subseteq 1 .. taken
        /\ \A o \in Outcomes : metric[o] \in Nat
    BY DEF TypeOK
  <2>2. IsFiniteSet(outbox \cap Done) /\ IsFiniteSet(outbox)
    BY CountedFinite
  <2>3. Cardinality(outbox \cap Done) \in Nat /\ Cardinality(outbox) \in Nat
    BY <2>2, FS_CardinalityType
  <2>4. CASE main = "waiting"
    <3>1. outbox \subseteq (outbox \cap Done) \cup {taken}
      BY <2>1, <2>4 DEF Done
    <3>2. /\ IsFiniteSet((outbox \cap Done) \cup {taken})
          /\ Cardinality((outbox \cap Done) \cup {taken})
                 <= Cardinality(outbox \cap Done) + 1
      BY <2>2, AddedAtMostOne
    <3>3. Cardinality(outbox) <= Cardinality((outbox \cap Done) \cup {taken})
      BY <3>1, <3>2, FS_Subset
    <3>4. Cardinality((outbox \cap Done) \cup {taken}) \in Nat
      BY <3>2, FS_CardinalityType
    <3>5. QED
      BY <2>1, <2>3, <2>4, <3>2, <3>3, <3>4
         DEF BacklogCounted, One, CountersInv, CountInv, Outcomes
  <2>5. CASE main # "waiting"
    <3>1. outbox \cap Done = outbox
      BY <2>1, <2>5 DEF Done
    <3>2. Cardinality(outbox) <= metric["failure"] + metric["timeout"]
      BY <3>1 DEF CountersInv, CountInv
    <3>3. /\ One(main = "waiting") = 0
          /\ metric["failure"] \in Nat /\ metric["timeout"] \in Nat
      BY <2>1, <2>5 DEF One, Outcomes
    <3>4. QED
      BY <2>3, <3>2, <3>3 DEF BacklogCounted
  <2>6. QED
    BY <2>4, <2>5
<1>2. QED
  BY <1>1, CountersInductive, PTL
=============================================================================

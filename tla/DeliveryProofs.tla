--------------------------- MODULE DeliveryProofs ---------------------------
(***************************************************************************)
(* Proofs about the way from the broker to the table, for every set of     *)
(* messages, every size of the bridge and every number of its ends.        *)
(***************************************************************************)
EXTENDS Delivery, FiniteSetTheorems, TLAPS

-----------------------------------------------------------------------------
(* Type correctness.                                                       *)

\* A message that forward may still try has an attempt left, and one whose
\* answer a worker waits for has had one.
AttemptsInv ==
  \A m \in Messages :
    /\ place[m] \in {"new", "session", "handler", "queue", "ready"} =>
           attempt[m] < MaxAttempts
    /\ place[m] = "exchange" => attempt[m] \in Attempts

TypeInv == TypeOK /\ AttemptsInv

LEMMA MoveToPlace ==
  ASSUME TypeOK, NEW m \in Messages, NEW where \in Places, MoveTo(m, where)
  PROVE  /\ place' \in [Messages -> Places]
         /\ place'[m] = where
         /\ \A k \in Messages \ {m} : place'[k] = place[k]
BY DEF TypeOK, MoveTo

\* The steps of the session and the bridge that only move one message.
Moves(m) ==
  Receive(m) \/ Deliver(m) \/ Enqueue(m) \/ Take(m) \/ Invalid(m)
    \/ Cancelled(m) \/ Answered(m) \/ Unanswered(m)

LEMMA MoveTyped ==
  ASSUME TypeInv, NEW m \in Messages, Moves(m) PROVE TypeInv'
<1> USE DeliveryAssumption DEF DeliveryAssumption, Places, Settled, InBridge
<1>1. \E where \in Places :
        /\ MoveTo(m, where)
        /\ UNCHANGED <<link, attempt, processVars, ingestorVars>>
        /\ place[m] \in Places
        /\ where \in {"session", "handler", "queue", "ready"} =>
               attempt[m] < MaxAttempts
        /\ where \notin {"exchange", "new"}
  BY DEF Moves, Receive, Deliver, Enqueue, Take, Invalid, Cancelled, Answered,
         Unanswered, TypeInv, TypeOK, AttemptsInv
<1>2. PICK where \in Places :
        /\ MoveTo(m, where)
        /\ UNCHANGED <<link, attempt, processVars, ingestorVars>>
        /\ where \in {"session", "handler", "queue", "ready"} =>
               attempt[m] < MaxAttempts
        /\ where \notin {"exchange", "new"}
  BY <1>1
<1>3. /\ place' \in [Messages -> Places]
      /\ place'[m] = where
      /\ \A k \in Messages \ {m} : place'[k] = place[k]
  BY <1>2, MoveToPlace DEF TypeInv
<1>4. TypeOK'
  BY <1>2, <1>3 DEF TypeInv, TypeOK, processVars, ingestorVars
<1>5. AttemptsInv'
  BY <1>2, <1>3 DEF TypeInv, AttemptsInv
<1>6. QED
  BY <1>4, <1>5 DEF TypeInv

LEMMA SendTyped ==
  ASSUME TypeInv, NEW m \in Messages, Send(m) PROVE TypeInv'
<1> USE DeliveryAssumption DEF DeliveryAssumption
<1>1. /\ place' = [place EXCEPT ![m] = "exchange"]
      /\ attempt' = [attempt EXCEPT ![m] = @ + 1]
      /\ post' = [post EXCEPT ![m][attempt[m] + 1] = "sent"]
      /\ UNCHANGED <<link, rows, wiped, processVars>>
      /\ place[m] = "ready"
  BY DEF Send, MoveTo
<1>2. attempt[m] \in Nat /\ attempt[m] + 1 \in Attempts
  BY <1>1 DEF TypeInv, TypeOK, AttemptsInv, Attempts
<1>3. attempt' \in [Messages -> 0 .. MaxAttempts] /\ attempt'[m] = attempt[m] + 1
  BY <1>1, <1>2 DEF TypeInv, TypeOK, Attempts
<1>4. post' \in [Messages -> [Attempts -> PostStates]]
  BY <1>1, <1>2 DEF TypeInv, TypeOK, PostStates
<1>5. place' \in [Messages -> Places] /\ place'[m] = "exchange"
  BY <1>1 DEF TypeInv, TypeOK, Places, InBridge
<1>6. TypeOK'
  BY <1>1, <1>3, <1>4, <1>5 DEF TypeInv, TypeOK, processVars
<1>7. \A k \in Messages \ {m} : place'[k] = place[k] /\ attempt'[k] = attempt[k]
  BY <1>1 DEF TypeInv, TypeOK
<1>8. AttemptsInv'
  BY <1>2, <1>3, <1>5, <1>7 DEF TypeInv, AttemptsInv
<1>9. QED
  BY <1>6, <1>8 DEF TypeInv

\* Every variable keeps its type: a worker makes no more attempts than
\* maxAttempts, whatever answers are lost.
THEOREM DeliveryTypeCorrect == Spec => []TypeInv
<1> USE DeliveryAssumption DEF DeliveryAssumption
<1>1. Init => TypeInv
  <2> SUFFICES ASSUME Init PROVE TypeInv
    OBVIOUS
  <2>1. stopping \in BOOLEAN /\ wiped \subseteq Messages /\ valid \subseteq Messages
    BY DEF Init
  <2>2. /\ place \in [Messages -> Places] /\ attempt \in [Messages -> 0 .. MaxAttempts]
        /\ rows \in [Messages -> Nat] /\ exits \in 0 .. MaxExits
        /\ link = "down"
    BY DEF Init, Places
  <2>3. post \in [Messages -> [Attempts -> PostStates]]
    BY DEF Init, PostStates
  <2>4. AttemptsInv
    BY DEF Init, AttemptsInv
  <2>5. QED
    BY <2>1, <2>2, <2>3, <2>4 DEF TypeInv, TypeOK
<1>2. TypeInv /\ [Next]_vars => TypeInv'
  <2> SUFFICES ASSUME TypeInv, [Next]_vars PROVE TypeInv'
    OBVIOUS
  <2>1. ASSUME NEW m \in Messages, Receive(m) \/ Bridge(m) PROVE TypeInv'
    BY <2>1, MoveTyped, SendTyped DEF Bridge, Moves
  <2>2. CASE Connect \/ Subscribe \/ SubscribeFails
    BY <2>2 DEF Connect, Subscribe, SubscribeFails, processVars, ingestorVars,
                TypeInv, TypeOK, AttemptsInv
  <2>3. CASE Disconnect
    <3>1. /\ place' \in [Messages -> Places] /\ link' = "down"
          /\ \A m \in Messages : place'[m] \in {place[m], "missed"}
          /\ UNCHANGED <<attempt, processVars, ingestorVars>>
      BY <2>3 DEF Disconnect, Ends, TypeInv, TypeOK, Places, Settled
    <3>2. QED
      BY <3>1 DEF TypeInv, TypeOK, AttemptsInv, processVars, ingestorVars
  <2>4. CASE BridgeExits
    <3>1. /\ place' \in [Messages -> Places] /\ link' = "down"
          /\ \A m \in Messages : place'[m] \in {place[m], "missed", "lost"}
      BY <2>4 DEF BridgeExits, TypeInv, TypeOK, Places, Settled
    <3>2. /\ UNCHANGED <<valid, attempt, ingestorVars>>
          /\ exits' \in 0 .. MaxExits
      BY <2>4 DEF BridgeExits, TypeInv, TypeOK
    <3>3. stopping' \in BOOLEAN
      BY <2>4 DEF BridgeExits
    <3>4. QED
      BY <3>1, <3>2, <3>3 DEF TypeInv, TypeOK, AttemptsInv, ingestorVars
  <2>5. ASSUME NEW m \in Messages, NEW a \in Attempts, Handle(m, a)
        PROVE  TypeInv'
    <3>1. PICK answer \in Answers :
            /\ post' = [post EXCEPT ![m][a] = answer]
            /\ rows' = rows \/ rows' = [rows EXCEPT ![m] = @ + 1]
      BY <2>5 DEF Handle
    <3>2. post' \in [Messages -> [Attempts -> PostStates]]
      BY <3>1 DEF TypeInv, TypeOK, PostStates
    <3>3. rows' \in [Messages -> Nat]
      BY <3>1 DEF TypeInv, TypeOK
    <3>4. UNCHANGED <<link, place, attempt, wiped, processVars>>
      BY <2>5 DEF Handle
    <3>5. QED
      BY <3>2, <3>3, <3>4 DEF TypeInv, TypeOK, AttemptsInv, processVars
  <2>6. CASE Signal \/ UNCHANGED vars
    BY <2>6 DEF Signal, vars, processVars, ingestorVars, TypeInv, TypeOK,
                AttemptsInv
  <2>7. CASE VolumeLost
    BY <2>7 DEF VolumeLost, processVars, TypeInv, TypeOK, AttemptsInv
  <2>8. QED
    BY <2>1, <2>2, <2>3, <2>4, <2>5, <2>6, <2>7 DEF Next, Step, Session
<1>3. QED
  BY <1>1, <1>2, PTL DEF Spec

COROLLARY DeliveryTypeOK == Spec => []TypeOK
<1>1. TypeInv => TypeOK
  BY DEF TypeInv
<1>2. QED
  BY <1>1, DeliveryTypeCorrect, PTL

-----------------------------------------------------------------------------
(* Rows.                                                                   *)

Sent(m) == {a \in Attempts : post[m][a] = "sent"}

\* A POST on its way may still become a row.
SentInv == \A m \in Messages : rows[m] + Cardinality(Sent(m)) <= attempt[m]

\* What the ingestor has answered with its reading stored is in the table or was
\* in a volume that is lost, and no success lacks a row without a cause.
StoredInv ==
  /\ \A m \in Messages, a \in Attempts :
         post[m][a] = "stored" => rows[m] > 0 \/ m \in wiped
  /\ SuccessAccounted

LEMMA SentFinite == \A m \in Messages : IsFiniteSet(Sent(m))
<1>1. IsFiniteSet(Attempts)
  BY FS_Interval, DeliveryAssumption DEF DeliveryAssumption, Attempts
<1>2. \A m \in Messages : Sent(m) \in SUBSET Attempts
  BY DEF Sent
<1>3. QED
  BY <1>1, <1>2, FS_Subset

LEMMA SendKeepsSentInv ==
  ASSUME TypeInv, SentInv, NEW m \in Messages, Send(m) PROVE SentInv'
<1>1. /\ attempt' = [attempt EXCEPT ![m] = @ + 1]
      /\ post' = [post EXCEPT ![m][attempt[m] + 1] = "sent"]
      /\ rows' = rows
  BY DEF Send
<1>2. /\ attempt'[m] = attempt[m] + 1
      /\ \A k \in Messages \ {m} : attempt'[k] = attempt[k] /\ post'[k] = post[k]
  BY <1>1 DEF TypeInv, TypeOK
<1>3. Sent(m)' \subseteq Sent(m) \cup {attempt[m] + 1}
  BY <1>1 DEF Sent, TypeInv, TypeOK
<1>4. \A k \in Messages \ {m} : Sent(k)' = Sent(k)
  BY <1>2 DEF Sent
<1>5. /\ IsFiniteSet(Sent(m)) /\ IsFiniteSet(Sent(m) \cup {attempt[m] + 1})
      /\ Cardinality(Sent(m) \cup {attempt[m] + 1}) = Cardinality(Sent(m)) + 1
            \/ Cardinality(Sent(m) \cup {attempt[m] + 1}) = Cardinality(Sent(m))
  BY SentFinite, FS_AddElement
<1>6. Cardinality(Sent(m)') <= Cardinality(Sent(m) \cup {attempt[m] + 1})
  BY <1>3, <1>5, FS_Subset
<1>7. IsFiniteSet(Sent(m)')
  BY <1>3, <1>5, FS_Subset
<1>8. Cardinality(Sent(m)) \in Nat /\ Cardinality(Sent(m)') \in Nat
  BY <1>5, <1>7, FS_CardinalityType
<1>9. Cardinality(Sent(m)') <= Cardinality(Sent(m)) + 1
  BY <1>5, <1>6, <1>8
<1>10. rows[m] \in Nat /\ attempt[m] \in Int
  BY DEF TypeInv, TypeOK
<1>11. rows'[m] + Cardinality(Sent(m)') <= attempt'[m]
  BY <1>1, <1>2, <1>8, <1>9, <1>10 DEF SentInv
<1>12. QED
  BY <1>1, <1>2, <1>4, <1>11 DEF SentInv

LEMMA HandleKeepsSentInv ==
  ASSUME TypeInv, SentInv, NEW m \in Messages, NEW a \in Attempts, Handle(m, a)
  PROVE  SentInv'
<1>1. PICK answer \in Answers :
        /\ post[m][a] = "sent"
        /\ post' = [post EXCEPT ![m][a] = answer]
        /\ rows' = rows \/ rows' = [rows EXCEPT ![m] = @ + 1]
        /\ attempt' = attempt
  BY DEF Handle
<1>2. answer # "sent"
  BY DEF Answers, Accepted
<1>3. /\ Sent(m)' = Sent(m) \ {a} /\ a \in Sent(m)
      /\ \A k \in Messages \ {m} : Sent(k)' = Sent(k)
  BY <1>1, <1>2 DEF Sent, TypeInv, TypeOK
<1>4. IsFiniteSet(Sent(m)) /\ Cardinality(Sent(m)) \in Nat
  BY SentFinite, FS_CardinalityType
<1>5. Cardinality(Sent(m)') = Cardinality(Sent(m)) - 1
  BY <1>3, <1>4, FS_RemoveElement
<1>6. /\ rows[m] \in Nat /\ rows'[m] \in {rows[m], rows[m] + 1}
      /\ attempt[m] \in Int
      /\ \A k \in Messages \ {m} : rows'[k] = rows[k]
  BY <1>1 DEF TypeInv, TypeOK
<1>7. rows'[m] + Cardinality(Sent(m)') <= attempt'[m]
  BY <1>1, <1>4, <1>5, <1>6 DEF SentInv
<1>8. QED
  BY <1>1, <1>3, <1>6, <1>7 DEF SentInv

\* Of each message at most one row is stored for each attempt at it, for every
\* pattern of lost answers, late answers and exits.
THEOREM DuplicatesBounded == Spec => []DuplicatesWithinRetries
<1>1. Init => SentInv
  <2> SUFFICES ASSUME Init PROVE SentInv
    OBVIOUS
  <2>1. \A m \in Messages : Sent(m) = {}
    BY DEF Init, Sent
  <2>2. QED
    BY <2>1, FS_EmptySet DEF Init, SentInv
<1>2. TypeInv /\ SentInv /\ [Next]_vars => SentInv'
  <2> SUFFICES ASSUME TypeInv, SentInv, [Next]_vars PROVE SentInv'
    OBVIOUS
  <2>1. CASE UNCHANGED <<attempt, post, rows>>
    BY <2>1 DEF SentInv, Sent
  <2>2. CASE VolumeLost
    <3>1. /\ UNCHANGED <<attempt, post>>
          /\ \A m \in Messages : rows[m] \in Nat /\ rows'[m] = 0
      BY <2>2 DEF VolumeLost, TypeInv, TypeOK
    <3>2. \A m \in Messages :
              Cardinality(Sent(m)) \in Nat /\ attempt[m] \in Int
      BY SentFinite, FS_CardinalityType DEF TypeInv, TypeOK
    <3>3. \A m \in Messages : Sent(m)' = Sent(m)
      BY <3>1 DEF Sent
    <3>4. QED
      BY <3>1, <3>2, <3>3 DEF SentInv
  <2>3. ASSUME NEW m \in Messages,
               \/ Receive(m) \/ Deliver(m) \/ Enqueue(m) \/ Take(m)
               \/ Invalid(m) \/ Cancelled(m) \/ Answered(m) \/ Unanswered(m)
        PROVE  UNCHANGED <<attempt, post, rows>>
    BY <2>3 DEF Receive, Deliver, Enqueue, Take, Invalid, Cancelled, Answered,
                Unanswered, ingestorVars
  <2>4. ASSUME Session \/ Signal \/ BridgeExits \/ UNCHANGED vars
        PROVE  UNCHANGED <<attempt, post, rows>>
    BY <2>4 DEF Session, Connect, Subscribe, SubscribeFails, Disconnect, Signal,
                BridgeExits, vars, ingestorVars
  <2>5. QED
    BY <2>1, <2>2, <2>3, <2>4, SendKeepsSentInv, HandleKeepsSentInv
       DEF Next, Step, Bridge
<1>3. TypeInv /\ SentInv => DuplicatesWithinRetries
  <2> SUFFICES ASSUME TypeInv, SentInv, NEW m \in Messages
               PROVE  rows[m] <= attempt[m]
    BY DEF DuplicatesWithinRetries
  <2>1. Cardinality(Sent(m)) \in Nat
    BY SentFinite, FS_CardinalityType
  <2>2. rows[m] \in Nat /\ attempt[m] \in Int
    BY DEF TypeInv, TypeOK
  <2>3. QED
    BY <2>1, <2>2 DEF SentInv
<1>4. QED
  BY <1>1, <1>2, <1>3, DeliveryTypeCorrect, PTL DEF Spec

\* A message counted as forwarded has a row, or lost it with the volume, or was
\* accepted without one: an insert that failed and was counted, or no store.
THEOREM SuccessIsAccounted == Spec => []SuccessAccounted
<1>1. Init => StoredInv
  BY DEF Init, StoredInv, SuccessAccounted, At, Got
<1>2. TypeInv /\ StoredInv /\ [Next]_vars => StoredInv'
  <2> SUFFICES ASSUME TypeInv, StoredInv, [Next]_vars PROVE StoredInv'
    OBVIOUS
  <2> USE DEF TypeInv, TypeOK, StoredInv, SuccessAccounted, At, Got,
              ingestorVars
  <2>1. ASSUME NEW m \in Messages, Send(m) PROVE StoredInv'
    BY <2>1 DEF Send, MoveTo
  <2>2. ASSUME NEW m \in Messages, Answered(m) PROVE StoredInv'
    BY <2>2 DEF Answered, MoveTo, PostOf, AttemptsInv, Accepted
  <2>3. ASSUME NEW m \in Messages, NEW a \in Attempts, Handle(m, a)
        PROVE  StoredInv'
    BY <2>3 DEF Handle, Answers, Accepted
  <2>4. CASE /\ UNCHANGED ingestorVars
             /\ \A m \in Messages : place'[m] = "success" => place[m] = "success"
    BY <2>4
  <2>5. ASSUME NEW m \in Messages,
               \/ Receive(m) \/ Deliver(m) \/ Enqueue(m) \/ Take(m)
               \/ Invalid(m) \/ Cancelled(m) \/ Unanswered(m)
        PROVE  StoredInv'
    BY <2>4, <2>5 DEF Receive, Deliver, Enqueue, Take, Invalid, Cancelled,
                      Unanswered, MoveTo
  <2>6. CASE Session \/ Signal \/ BridgeExits \/ UNCHANGED vars
    BY <2>4, <2>6
       DEF Session, Connect, Subscribe, SubscribeFails, Disconnect, Ends,
           Signal, BridgeExits, vars
  <2>7. CASE VolumeLost
    BY <2>7 DEF VolumeLost
  <2>8. QED
    BY <2>1, <2>2, <2>3, <2>5, <2>6, <2>7 DEF Next, Step, Bridge
<1>3. StoredInv => SuccessAccounted
  BY DEF StoredInv
<1>4. QED
  BY <1>1, <1>2, <1>3, DeliveryTypeCorrect, PTL DEF Spec

-----------------------------------------------------------------------------
(* The causes of the other ends.                                           *)

\* A message is invalid, failed or lost for a cause.
EndInv ==
  \A m \in Messages :
    /\ place[m] = "invalid" => m \notin valid
    /\ place[m] = "failure" =>
           \/ attempt[m] = MaxAttempts \/ Got(m, {"rejected"})
           \/ stopping \/ exits > 0
    /\ place[m] = "lost" => exits > 0

LEMMA LastAttempt ==
  \A n \in 0 .. MaxAttempts : n < MaxAttempts \/ n = MaxAttempts
BY DeliveryAssumption DEF DeliveryAssumption

LEMMA EndStep ==
  ASSUME TypeInv, EndInv, [Next]_vars PROVE EndInv'
<1> USE DEF TypeInv, TypeOK, EndInv, Got, processVars, ingestorVars
<1>1. ASSUME NEW m \in Messages,
             Receive(m) \/ Deliver(m) \/ Enqueue(m) \/ Take(m)
      PROVE  EndInv'
  BY <1>1 DEF Receive, Deliver, Enqueue, Take, MoveTo
<1>2. ASSUME NEW m \in Messages, Invalid(m) \/ Cancelled(m) PROVE EndInv'
  BY <1>2 DEF Invalid, Cancelled, MoveTo
<1>3. ASSUME NEW m \in Messages, Send(m) PROVE EndInv'
  <2>1. /\ place' = [place EXCEPT ![m] = "exchange"] /\ place[m] = "ready"
        /\ attempt' = [attempt EXCEPT ![m] = @ + 1]
        /\ post' = [post EXCEPT ![m][attempt[m] + 1] = "sent"]
        /\ UNCHANGED processVars
    BY <1>3 DEF Send, MoveTo
  <2>2. \A k \in Messages \ {m} :
            /\ place'[k] = place[k] /\ attempt'[k] = attempt[k]
            /\ post'[k] = post[k]
    BY <2>1
  <2>3. place'[m] = "exchange"
    BY <2>1
  <2>4. QED
    BY <2>1, <2>2, <2>3
<1>4. ASSUME NEW m \in Messages, Answered(m) \/ Unanswered(m) PROVE EndInv'
  <2>1. attempt[m] \in Attempts /\ attempt[m] \in 0 .. MaxAttempts
    BY <1>4 DEF Answered, Unanswered, AttemptsInv
  <2>2. UNCHANGED <<attempt, post, valid, stopping, exits>>
    BY <1>4 DEF Answered, Unanswered
  <2>3. CASE \/ place' = [place EXCEPT ![m] = "ready"]
             \/ place' = [place EXCEPT ![m] = "success"]
    BY <2>2, <2>3
  <2>4. CASE /\ place' = [place EXCEPT ![m] = "failure"]
             /\ attempt[m] = MaxAttempts \/ Got(m, {"rejected"})
    BY <2>2, <2>4
  <2>5. ASSUME Answered(m), PostOf(m) = "rejected"
        PROVE  Got(m, {"rejected"})
    BY <2>1, <2>5 DEF PostOf
  <2>6. attempt[m] < MaxAttempts \/ attempt[m] = MaxAttempts
    BY <2>1, LastAttempt
  <2>7. CASE Answered(m)
    BY <2>3, <2>4, <2>5, <2>7 DEF Answered, MoveTo
  <2>8. CASE Unanswered(m)
    <3>1. CASE attempt[m] < MaxAttempts
      BY <2>3, <2>8, <3>1 DEF Unanswered, MoveTo
    <3>2. CASE ~(attempt[m] < MaxAttempts)
      BY <2>4, <2>6, <2>8, <3>2 DEF Unanswered, MoveTo
    <3>3. QED
      BY <3>1, <3>2
  <2>9. QED
    BY <1>4, <2>7, <2>8
<1>5. ASSUME NEW m \in Messages, NEW a \in Attempts, Handle(m, a)
      PROVE  EndInv'
  <2>1. /\ UNCHANGED <<place, attempt, valid, stopping, exits>>
        /\ post[m][a] = "sent"
        /\ \E answer : post' = [post EXCEPT ![m][a] = answer]
    BY <1>5 DEF Handle
  <2>2. \A k \in Messages, b \in Attempts :
            post[k][b] = "rejected" => post'[k][b] = "rejected"
    BY <2>1
  <2>3. QED
    BY <2>1, <2>2
<1>6. CASE Session \/ Signal \/ VolumeLost \/ UNCHANGED vars
  BY <1>6 DEF Session, Connect, Subscribe, SubscribeFails, Disconnect, Ends,
              Signal, VolumeLost, vars
<1>7. CASE BridgeExits
  <2>1. exits' > 0 /\ UNCHANGED valid
    BY <1>7, DeliveryAssumption DEF BridgeExits, DeliveryAssumption
  <2>2. \A m \in Messages : place'[m] = "invalid" => place[m] = "invalid"
    BY <1>7 DEF BridgeExits
  <2>3. QED
    BY <2>1, <2>2
<1>8. QED
  BY <1>1, <1>2, <1>3, <1>4, <1>5, <1>6, <1>7 DEF Next, Step, Bridge

\* A message the bridge gives up is invalid, or has had all its attempts or a
\* 4xx, or met the end of the process.
THEOREM EndsHaveCauses == Spec => []EndInv
<1>1. Init => EndInv
  BY DEF Init, EndInv
<1>2. QED
  BY <1>1, EndStep, DeliveryTypeCorrect, PTL DEF Spec

-----------------------------------------------------------------------------
(* The messages the end of the bridge takes with it.                       *)

Held == QueueSize + WorkerCount + 1

\* The handler, the queue and the workers hold no more than their capacity.
HeldInv ==
  /\ Cardinality(At({"handler"})) <= 1
  /\ Cardinality(At({"queue"})) <= QueueSize
  /\ Cardinality(At({"ready", "exchange"})) <= WorkerCount

LostInv == Cardinality(At({"lost"})) <= exits * Held

LEMMA AtFinite ==
  ASSUME NEW S
  PROVE  /\ IsFiniteSet(At(S)) /\ Cardinality(At(S)) \in Nat
         /\ IsFiniteSet(At(S)') /\ Cardinality(At(S)') \in Nat
<1>1. IsFiniteSet(Messages)
  BY DeliveryAssumption DEF DeliveryAssumption
<1>2. At(S) \subseteq Messages /\ At(S)' \subseteq Messages
  BY DEF At
<1>3. IsFiniteSet(At(S)) /\ IsFiniteSet(At(S)')
  BY <1>1, <1>2, FS_Subset
<1>4. QED
  BY <1>3, FS_CardinalityType

(* A group of places that nothing new comes to.                            *)
LEMMA NoneJoins ==
  ASSUME NEW S, At(S)' \subseteq At(S)
  PROVE  Cardinality(At(S)') <= Cardinality(At(S))
BY AtFinite, FS_Subset

(* A group of places that one message comes to.                            *)
LEMMA OneJoins ==
  ASSUME NEW S, NEW m, At(S)' \subseteq At(S) \cup {m}
  PROVE  Cardinality(At(S)') <= Cardinality(At(S)) + 1
<1>1. IsFiniteSet(At(S)) /\ Cardinality(At(S)) \in Nat
  BY AtFinite
<1>2. /\ IsFiniteSet(At(S) \cup {m})
      /\ Cardinality(At(S) \cup {m}) = Cardinality(At(S)) + 1
            \/ Cardinality(At(S) \cup {m}) = Cardinality(At(S))
  BY <1>1, FS_AddElement
<1>3. Cardinality(At(S)') <= Cardinality(At(S) \cup {m})
  BY <1>2, FS_Subset
<1>4. QED
  BY <1>1, <1>2, <1>3, AtFinite

LEMMA NothingMoreIsLost ==
  ASSUME TypeOK, LostInv, At({"lost"})' \subseteq At({"lost"}), UNCHANGED exits
  PROVE  LostInv'
<1>1. Cardinality(At({"lost"})') <= Cardinality(At({"lost"}))
  BY NoneJoins
<1>2. DEFINE bound == exits * Held
<1>3. /\ Cardinality(At({"lost"})) \in Nat /\ Cardinality(At({"lost"})') \in Nat
      /\ bound \in Int /\ Cardinality(At({"lost"})) <= bound
  BY AtFinite, DeliveryAssumption DEF DeliveryAssumption, LostInv, Held, TypeOK
<1>4. bound' = bound
  BY DEF Held
<1> HIDE DEF bound
<1>5. Cardinality(At({"lost"})') <= bound'
  BY <1>1, <1>3, <1>4
<1>6. QED
  BY <1>5 DEF LostInv, bound

LEMMA StaysBounded ==
  ASSUME NEW S, NEW limit \in Nat, Cardinality(At(S)) <= limit,
         \/ At(S)' \subseteq At(S)
         \/ \E m : /\ At(S)' \subseteq At(S) \cup {m}
                  /\ Cardinality(At(S)) < limit
  PROVE  Cardinality(At(S)') <= limit
<1>1. Cardinality(At(S)) \in Nat /\ Cardinality(At(S)') \in Nat
  BY AtFinite
<1>2. CASE At(S)' \subseteq At(S)
  BY <1>1, <1>2, NoneJoins
<1>3. ASSUME NEW m, At(S)' \subseteq At(S) \cup {m}, Cardinality(At(S)) < limit
      PROVE  Cardinality(At(S)') <= limit
  <2>1. Cardinality(At(S)') <= Cardinality(At(S)) + 1
    BY <1>3, OneJoins
  <2>2. QED
    BY <1>1, <1>3, <2>1
<1>4. QED
  BY <1>2, <1>3

LEMMA HeldStep ==
  ASSUME TypeOK, HeldInv, [Next]_vars PROVE HeldInv'
<1> DEFINE H == {"handler"}
           Q == {"queue"}
           W == {"ready", "exchange"}
           Fits(S, limit) ==
             \/ At(S)' \subseteq At(S)
             \/ \E m : /\ At(S)' \subseteq At(S) \cup {m}
                      /\ Cardinality(At(S)) < limit
<1>1. /\ Cardinality(At(H)) <= 1 /\ Cardinality(At(Q)) <= QueueSize
      /\ Cardinality(At(W)) <= WorkerCount
      /\ QueueSize \in Nat /\ WorkerCount \in Nat
  BY DeliveryAssumption DEF DeliveryAssumption, HeldInv
<1>2. ASSUME NEW m \in Messages, Deliver(m)
      PROVE  Fits(H, 1) /\ Fits(Q, QueueSize) /\ Fits(W, WorkerCount)
  <2>1. At(H) = {} /\ Cardinality(At(H)) = 0
    BY <1>2, FS_EmptySet DEF Deliver
  <2>2. place' = [place EXCEPT ![m] = "handler"] /\ place[m] = "session"
    BY <1>2 DEF Deliver, MoveTo
  <2>3. At(H)' \subseteq At(H) \cup {m} /\ At(Q)' \subseteq At(Q) /\ At(W)' \subseteq At(W)
    BY <2>2 DEF At, TypeOK
  <2>4. QED
    BY <2>1, <2>3
<1>3. ASSUME NEW m \in Messages, Enqueue(m)
      PROVE  Fits(H, 1) /\ Fits(Q, QueueSize) /\ Fits(W, WorkerCount)
  <2>1. \/ /\ place' = [place EXCEPT ![m] = "queue"]
           /\ Cardinality(At(Q)) < QueueSize
        \/ place' = [place EXCEPT ![m] = "dropped"]
    BY <1>3 DEF Enqueue, MoveTo
  <2>2. At(H)' \subseteq At(H) /\ At(W)' \subseteq At(W)
    BY <2>1 DEF At, TypeOK
  <2>3. \/ /\ At(Q)' \subseteq At(Q) \cup {m}
           /\ Cardinality(At(Q)) < QueueSize
        \/ At(Q)' \subseteq At(Q)
    BY <2>1 DEF At, TypeOK
  <2>4. QED
    BY <2>2, <2>3
<1>4. ASSUME NEW m \in Messages, Take(m)
      PROVE  Fits(H, 1) /\ Fits(Q, QueueSize) /\ Fits(W, WorkerCount)
  <2>1. /\ place' = [place EXCEPT ![m] = "ready"]
        /\ Cardinality(At(W)) < WorkerCount
    BY <1>4 DEF Take, MoveTo
  <2>2. At(H)' \subseteq At(H) /\ At(Q)' \subseteq At(Q) /\ At(W)' \subseteq At(W) \cup {m}
    BY <2>1 DEF At, TypeOK
  <2>3. QED
    BY <2>1, <2>2
<1>5. ASSUME NEW m \in Messages,
             \/ Receive(m) \/ Invalid(m) \/ Cancelled(m) \/ Send(m)
             \/ Answered(m) \/ Unanswered(m)
      PROVE  At(H)' \subseteq At(H) /\ At(Q)' \subseteq At(Q) /\ At(W)' \subseteq At(W)
  BY <1>5 DEF Receive, Invalid, Cancelled, Send, Answered, Unanswered, MoveTo,
              At, TypeOK
<1>6. ASSUME \/ Session \/ Signal \/ BridgeExits \/ VolumeLost
           \/ UNCHANGED vars
           \/ \E m \in Messages, a \in Attempts : Handle(m, a)
      PROVE  At(H)' \subseteq At(H) /\ At(Q)' \subseteq At(Q) /\ At(W)' \subseteq At(W)
  BY <1>6 DEF Session, Connect, Subscribe, SubscribeFails, Disconnect, Ends,
              Signal, BridgeExits, VolumeLost, Handle, vars, At, TypeOK, InBridge
<1>7. Fits(H, 1) /\ Fits(Q, QueueSize) /\ Fits(W, WorkerCount)
  BY <1>2, <1>3, <1>4, <1>5, <1>6 DEF Next, Step, Bridge
<1>8. Cardinality(At(H)') <= 1
  BY <1>1, <1>7, StaysBounded
<1>9. Cardinality(At(Q)') <= QueueSize
  BY <1>1, <1>7, StaysBounded
<1>10. Cardinality(At(W)') <= WorkerCount
  BY <1>1, <1>7, StaysBounded
<1>11. QED
  BY <1>8, <1>9, <1>10 DEF HeldInv

LEMMA UnionBounded ==
  ASSUME NEW S, NEW T, IsFiniteSet(S), IsFiniteSet(T)
  PROVE  /\ IsFiniteSet(S \cup T)
         /\ Cardinality(S \cup T) <= Cardinality(S) + Cardinality(T)
<1>1. /\ IsFiniteSet(S \cup T)
      /\ Cardinality(S \cup T)
             = Cardinality(S) + Cardinality(T) - Cardinality(S \cap T)
  BY FS_Union
<1>2. IsFiniteSet(S \cap T)
  BY FS_Subset, S \cap T \in SUBSET S
<1>3. /\ Cardinality(S) \in Nat /\ Cardinality(T) \in Nat
      /\ Cardinality(S \cap T) \in Nat
  BY <1>2, FS_CardinalityType
<1>4. QED
  BY <1>1, <1>3

(* An end adds what the handler, the queue and the workers held.           *)
LEMMA ExitStep ==
  ASSUME TypeOK, HeldInv, LostInv, BridgeExits PROVE LostInv'
<1> DEFINE L == At({"lost"})
           H == At({"handler"})
           Q == At({"queue"})
           W == At({"ready", "exchange"})
<1>1. L' \subseteq (L \cup H) \cup (Q \cup W)
  BY DEF BridgeExits, InBridge, At, TypeOK
<1>2. /\ IsFiniteSet(L) /\ Cardinality(L) \in Nat
      /\ IsFiniteSet(H) /\ Cardinality(H) \in Nat
      /\ IsFiniteSet(Q) /\ Cardinality(Q) \in Nat
      /\ IsFiniteSet(W) /\ Cardinality(W) \in Nat
      /\ Cardinality(L') \in Nat
  BY AtFinite
<1>3. Cardinality(H) <= 1 /\ Cardinality(Q) <= QueueSize
      /\ Cardinality(W) <= WorkerCount
  BY DEF HeldInv
<1> HIDE DEF L, H, Q, W
<1>4. /\ IsFiniteSet(L \cup H) /\ IsFiniteSet(Q \cup W)
      /\ Cardinality(L \cup H) <= Cardinality(L) + Cardinality(H)
      /\ Cardinality(Q \cup W) <= Cardinality(Q) + Cardinality(W)
  BY <1>2, UnionBounded
<1>5. /\ IsFiniteSet((L \cup H) \cup (Q \cup W))
      /\ Cardinality((L \cup H) \cup (Q \cup W))
             <= Cardinality(L \cup H) + Cardinality(Q \cup W)
  BY <1>4, UnionBounded
<1>6. Cardinality(L') <= Cardinality((L \cup H) \cup (Q \cup W))
  BY <1>1, <1>5, FS_Subset
<1>7. /\ Cardinality(L \cup H) \in Nat /\ Cardinality(Q \cup W) \in Nat
      /\ Cardinality((L \cup H) \cup (Q \cup W)) \in Nat
  BY <1>4, <1>5, FS_CardinalityType
<1>8. Held \in Nat /\ QueueSize \in Nat /\ WorkerCount \in Nat
  BY DeliveryAssumption DEF DeliveryAssumption, Held
<1>9. Cardinality(L') <= Cardinality(L) + Held
  BY <1>2, <1>3, <1>4, <1>5, <1>6, <1>7, <1>8 DEF Held
<1>10. exits \in Nat /\ exits' = exits + 1
  BY DeliveryAssumption DEF DeliveryAssumption, TypeOK, BridgeExits
<1>11. Cardinality(L) <= exits * Held
  BY DEF LostInv, L
<1>12. exits' * Held = exits * Held + Held
  BY <1>8, <1>10
<1>13. exits * Held \in Nat
  BY <1>8, <1>10
<1>14. Cardinality(L') <= exits' * Held
  BY <1>2, <1>8, <1>9, <1>11, <1>12, <1>13
<1>15. QED
  BY <1>14 DEF LostInv, L

\* Of the messages the bridge has taken over, the end of its process loses no
\* more than its queue, its workers and its handler can hold, and nothing else
\* loses one of them silently.
THEOREM TakenLossIsBounded == Spec => []TakenLossBounded
<1>1. Init => HeldInv /\ LostInv
  <2> SUFFICES ASSUME Init PROVE HeldInv /\ LostInv
    OBVIOUS
  <2>1. /\ At({"handler"}) = {} /\ At({"queue"}) = {}
        /\ At({"ready", "exchange"}) = {} /\ At({"lost"}) = {}
    BY DEF Init, At
  <2>2. exits * Held = 0
    BY DeliveryAssumption DEF DeliveryAssumption, Init, Held
  <2>3. QED
    BY <2>1, <2>2, FS_EmptySet, DeliveryAssumption
       DEF HeldInv, LostInv, DeliveryAssumption
<1>2. TypeOK /\ HeldInv /\ LostInv /\ [Next]_vars => HeldInv' /\ LostInv'
  <2> SUFFICES ASSUME TypeOK, HeldInv, LostInv, [Next]_vars PROVE LostInv'
    BY HeldStep
  <2>1. CASE BridgeExits
    BY <2>1, ExitStep
  <2>2. ASSUME NEW m \in Messages,
               \/ Receive(m) \/ Bridge(m)
               \/ \E a \in Attempts : Handle(m, a)
        PROVE  At({"lost"})' \subseteq At({"lost"}) /\ UNCHANGED exits
    BY <2>2 DEF Receive, Bridge, Deliver, Enqueue, Take, Invalid, Cancelled,
                Send, Answered, Unanswered, Handle, MoveTo, At, TypeOK,
                processVars
  <2>3. ASSUME Session \/ Signal \/ VolumeLost \/ UNCHANGED vars
        PROVE  At({"lost"})' \subseteq At({"lost"}) /\ UNCHANGED exits
    BY <2>3 DEF Session, Connect, Subscribe, SubscribeFails, Disconnect, Ends,
                Signal, VolumeLost, vars, At, TypeOK, processVars
  <2>4. QED
    BY <2>1, <2>2, <2>3, NothingMoreIsLost DEF Next, Step
<1>3. LostInv => TakenLossBounded
  BY DEF LostInv, TakenLossBounded, Held
<1>4. QED
  BY <1>1, <1>2, <1>3, DeliveryTypeOK, PTL DEF Spec
=============================================================================

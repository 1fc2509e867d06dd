--------------------------- MODULE DropLogProofs ---------------------------
(***************************************************************************)
(* The rate limit holds for any number of callers and any clock.  A line   *)
(* is logged by a Swap that succeeds and by nothing else; the rest of the  *)
(* argument is about the sequence of lines it lengthens.                   *)
(***************************************************************************)
EXTENDS DropLog, TLAPS

USE DropLogAssumption DEF DropLogAssumption, Times

(* CompareAndSwap succeeds, and the caller logs.                           *)
Logs(c) ==
  /\ pc[c] = "swap"
  /\ last' = now[c] /\ logged' = Append(logged, now[c])

(* A step either is the line of one caller or leaves dropLogAt alone.      *)
LEMMA LogsOrNot ==
  ASSUME [Next]_vars
  PROVE  (\E c \in Callers : Logs(c) /\ Swap(c)) \/ UNCHANGED <<last, logged>>
BY DEF Next, ClockReads, Call, Load, Swap, Logs, vars

-----------------------------------------------------------------------------
(* Type correctness.                                                       *)

LEMMA CallerTyped ==
  ASSUME TypeOK, NEW c \in Callers, Call(c) \/ Load(c) \/ Swap(c)
  PROVE  /\ pc' \in [Callers -> {"idle", "load", "swap"}]
         /\ now' \in [Callers -> Times] /\ seen' \in [Callers -> Times]
         /\ clock' \in Times
BY DEF TypeOK, Call, Load, Swap

LEMMA LinesTyped ==
  ASSUME TypeOK, [Next]_vars PROVE last' \in Times /\ logged' \in Seq(Times)
<1>1. ASSUME NEW c \in Callers, Logs(c)
      PROVE  last' \in Times /\ logged' \in Seq(Times)
  <2>1. now[c] \in Times /\ logged \in Seq(Times)
    BY DEF TypeOK
  <2>2. QED
    BY <1>1, <2>1 DEF Logs
<1>2. QED
  BY <1>1, LogsOrNot DEF TypeOK

\* The callers, their readings and the lines logged keep their types.
THEOREM DropLogTypeCorrect == Spec => []TypeOK
<1>1. ASSUME Init PROVE TypeOK
  BY <1>1 DEF Init, TypeOK
<1>2. ASSUME TypeOK, [Next]_vars PROVE TypeOK'
  <2>1. last' \in Times /\ logged' \in Seq(Times)
    BY <1>2, LinesTyped
  <2>2. CASE \E c \in Callers : Call(c) \/ Load(c) \/ Swap(c)
    BY <2>1, <2>2, <1>2, CallerTyped DEF TypeOK
  <2>3. CASE UNCHANGED vars \/ \E t \in Times : ClockReads(t)
    BY <2>3, <1>2 DEF TypeOK, ClockReads, vars
  <2>4. QED
    BY <1>2, <2>2, <2>3 DEF Next
<1>3. QED
  BY <1>1, <1>2, PTL DEF Spec

-----------------------------------------------------------------------------
(* The rate limit.                                                         *)

(* The times of the lines are a second or more apart, and none is after t. *)
SpacedUpTo(lines, t) ==
  /\ \A i, j \in 1 .. Len(lines) : i < j => lines[j] - lines[i] >= Second
  /\ \A i \in 1 .. Len(lines) : lines[i] <= t

(* One more line, a second after a time that none is after, is apart too.  *)
LEMMA AppendSpaced ==
  ASSUME NEW lines \in Seq(Times), NEW old \in Times, NEW new \in Times,
         SpacedUpTo(lines, old), new - old >= Second
  PROVE  SpacedUpTo(Append(lines, new), new)
<1> DEFINE more == Append(lines, new)
<1>1. /\ Len(lines) \in Nat /\ Len(more) = Len(lines) + 1
      /\ more[Len(lines) + 1] = new
      /\ \A i \in 1 .. Len(lines) : more[i] = lines[i] /\ lines[i] \in Times
  OBVIOUS
<1>2. \A i \in 1 .. Len(more) : i \in 1 .. Len(lines) \/ i = Len(lines) + 1
  BY <1>1
<1>3. \A i \in 1 .. Len(lines) : new - lines[i] >= Second
  BY <1>1 DEF SpacedUpTo
<1> HIDE DEF more
<1>4. ASSUME NEW i \in 1 .. Len(more), NEW j \in 1 .. Len(more), i < j
      PROVE  more[j] - more[i] >= Second
  <2>1. i \in 1 .. Len(lines)
    BY <1>1, <1>4
  <2>2. CASE j \in 1 .. Len(lines)
    BY <1>1, <1>4, <2>1, <2>2 DEF SpacedUpTo
  <2>3. CASE j = Len(lines) + 1
    BY <1>1, <1>3, <2>1, <2>3
  <2>4. QED
    BY <1>2, <2>2, <2>3
<1>5. ASSUME NEW i \in 1 .. Len(more) PROVE more[i] <= new
  <2>1. CASE i \in 1 .. Len(lines)
    <3>1. more[i] \in Int /\ new - more[i] >= Second
      BY <1>1, <1>3, <2>1
    <3>2. QED
      BY <3>1
  <2>2. CASE i = Len(lines) + 1
    BY <1>1, <2>2
  <2>3. QED
    BY <1>2, <2>1, <2>2
<1>6. QED
  BY <1>4, <1>5 DEF SpacedUpTo, more

(* A caller about to swap has seen a time a second or more before its own, *)
(* and dropLogAt is the time of the last line.                             *)
SwapInv == \A c \in Callers : pc[c] = "swap" => now[c] - seen[c] >= Second
RateInv == SwapInv /\ SpacedUpTo(logged, last)

(* Only the caller itself changes what it has read and seen.               *)
LEMMA SwapInvKept ==
  ASSUME TypeOK, SwapInv, [Next]_vars PROVE SwapInv'
<1>1. CASE \E c \in Callers : Call(c) \/ Load(c) \/ Swap(c)
  BY <1>1 DEF TypeOK, SwapInv, Call, Load, Swap
<1>2. CASE UNCHANGED <<pc, now, seen>>
  BY <1>2 DEF SwapInv
<1>3. QED
  BY <1>1, <1>2 DEF Next, ClockReads, vars

(* A Swap that logs found the time it had seen still there.                *)
LEMMA LineKeepsSpaced ==
  ASSUME TypeOK, RateInv, NEW c \in Callers, Swap(c)
  PROVE  SpacedUpTo(logged', last')
<1>1. CASE last = seen[c]
  <2>1. /\ now[c] - last >= Second
        /\ last' = now[c] /\ logged' = Append(logged, now[c])
    BY <1>1 DEF Swap, RateInv, SwapInv
  <2>2. now[c] \in Times /\ last \in Times /\ logged \in Seq(Times)
    BY DEF TypeOK
  <2>3. QED
    BY <2>1, <2>2, AppendSpaced DEF RateInv
<1>2. CASE last # seen[c]
  BY <1>2 DEF Swap, RateInv
<1>3. QED
  BY <1>1, <1>2

\* Whatever the callers and the clock do, warning lines are stamped at least
\* a second apart.
THEOREM LinesAlwaysSpaced == Spec => []LinesSpaced
<1>1. ASSUME Init PROVE RateInv
  BY <1>1 DEF Init, RateInv, SwapInv, SpacedUpTo
<1>2. ASSUME TypeOK, RateInv, [Next]_vars PROVE RateInv'
  <2>1. SpacedUpTo(logged', last')
    BY <1>2, LogsOrNot, LineKeepsSpaced DEF RateInv
  <2>2. QED
    BY <1>2, <2>1, SwapInvKept DEF RateInv
<1>3. RateInv => LinesSpaced
  BY DEF RateInv, SpacedUpTo, LinesSpaced
<1>4. QED
  BY <1>1, <1>2, <1>3, DropLogTypeCorrect, PTL DEF Spec
=============================================================================

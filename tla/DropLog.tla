------------------------------ MODULE DropLog ------------------------------
(***************************************************************************)
(* The rate limit of the bridge's "queue full" warning                     *)
(* (logDropRateLimited): read the clock, load the time of the last line,   *)
(* and log only if a compare-and-swap of that time succeeds.  The clock is *)
(* UnixNano, a wall clock that may also be set back or forward.            *)
(*                                                                         *)
(* Today paho delivers on one goroutine; the code is written for any       *)
(* number of callers, and so is the model.                                 *)
(***************************************************************************)
EXTENDS Integers, Sequences

CONSTANTS
    Callers,  \* goroutines that drop messages
    Second,   \* the length of time.Second in units of the clock
    MaxTime   \* bound: the greatest reading of the clock

ASSUME DropLogAssumption == Second \in Nat \ {0} /\ MaxTime \in Nat

VARIABLES
    clock,   \* the wall clock
    last,    \* dropLogAt
    pc,      \* where each caller is
    now,     \* each caller's reading of the clock
    seen,    \* the value of dropLogAt each caller has loaded
    logged   \* auxiliary: the times of the lines logged

vars == <<clock, last, pc, now, seen, logged>>

Times == 0 .. MaxTime

Init ==
    /\ clock \in Times
    /\ last = 0
    /\ pc = [c \in Callers |-> "idle"]
    /\ now = [c \in Callers |-> 0]
    /\ seen = [c \in Callers |-> 0]
    /\ logged = <<>>

ClockReads(t) ==
    /\ clock' = t
    /\ UNCHANGED <<last, pc, now, seen, logged>>

Call(c) ==
    /\ pc[c] = "idle"
    /\ now' = [now EXCEPT ![c] = clock]
    /\ pc' = [pc EXCEPT ![c] = "load"]
    /\ UNCHANGED <<clock, last, seen, logged>>

Load(c) ==
    /\ pc[c] = "load"
    /\ seen' = [seen EXCEPT ![c] = last]
    /\ pc' = [pc EXCEPT ![c] =
                  IF now[c] - last >= Second THEN "swap" ELSE "idle"]
    /\ UNCHANGED <<clock, last, now, logged>>

\* Mutant: the new time is stored without comparing the old one.
StoreUnconditionally(c) ==
    /\ pc[c] = "swap"
    /\ last' = now[c]
    /\ logged' = Append(logged, now[c])
    /\ pc' = [pc EXCEPT ![c] = "idle"]
    /\ UNCHANGED <<clock, now, seen>>

\* CompareAndSwap: of the callers that saw the same time one logs.
Swap(c) ==
    /\ pc[c] = "swap"
    /\ \/ /\ last = seen[c]
          /\ last' = now[c]
          /\ logged' = Append(logged, now[c])
       \/ /\ last # seen[c]
          /\ UNCHANGED <<last, logged>>
    /\ pc' = [pc EXCEPT ![c] = "idle"]
    /\ UNCHANGED <<clock, now, seen>>

Next ==
    \/ \E t \in Times : ClockReads(t)
    \/ \E c \in Callers : Call(c) \/ Load(c) \/ Swap(c)

Spec == Init /\ [][Next]_vars

-----------------------------------------------------------------------------

TypeOK ==
    /\ clock \in Times /\ last \in Times
    /\ pc \in [Callers -> {"idle", "load", "swap"}]
    /\ now \in [Callers -> Times] /\ seen \in [Callers -> Times]
    /\ logged \in Seq(Times)

\* No two warning lines carry times less than a second apart, however many
\* callers race for the line and wherever the clock is set in between: also
\* a clock set back never yields a second line for the same second.
LinesSpaced ==
    \A i, j \in 1 .. Len(logged) : i < j => logged[j] - logged[i] >= Second
=============================================================================

---------------------------- MODULE BridgeLedger ----------------------------
(***************************************************************************)
(* What the MQTT bridge promises about the messages it takes from the      *)
(* broker, with its queue, workers and retries left out: a message taken   *)
(* stays pending until it is settled, once, as dropped, invalid, forwarded *)
(* or failed; at most Capacity messages are pending; and once the process  *)
(* has stopped the account no longer moves.                                *)
(***************************************************************************)
EXTENDS Naturals

CONSTANT Capacity   \* the most messages that may be pending at one time

VARIABLES
    running,  \* the process has neither exited nor died
    taken,    \* messages taken from the broker so far
    pending,  \* messages taken and not settled
    settled   \* how many messages had each outcome

ledgerVars == <<running, taken, pending, settled>>

Outcomes == {"dropped", "invalid", "success", "failure"}

Init ==
    /\ running = TRUE
    /\ taken = 0
    /\ pending = 0
    /\ settled = [o \in Outcomes |-> 0]

Take ==
    /\ running
    /\ pending < Capacity
    /\ taken' = taken + 1
    /\ pending' = pending + 1
    /\ UNCHANGED <<running, settled>>

Settle(o) ==
    /\ running
    /\ pending > 0
    /\ pending' = pending - 1
    /\ settled' = [settled EXCEPT ![o] = @ + 1]
    /\ UNCHANGED <<running, taken>>

Stop ==
    /\ running
    /\ running' = FALSE
    /\ UNCHANGED <<taken, pending, settled>>

Next == Take \/ (\E o \in Outcomes : Settle(o)) \/ Stop

Spec == Init /\ [][Next]_ledgerVars
=============================================================================

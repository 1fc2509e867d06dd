---------------------------- MODULE StoreLedger -----------------------------
(***************************************************************************)
(* What the ingestor promises about the readings it accepts while it has   *)
(* a store, with its handlers, counters and restarts left out: a reading   *)
(* is either a new row at the end of the table or a counted failure, and   *)
(* is accepted only after that, once; a row stays as it is and where it    *)
(* is, and goes only with the volume, when no process has the store.       *)
(***************************************************************************)
EXTENDS Naturals, Sequences

CONSTANT Rows   \* the rows a reading may become

VARIABLES
    attached,  \* a process has the store
    table,     \* the rows, oldest first
    failed,    \* inserts that failed in this process
    pending,   \* readings inserted or failed, and not accepted yet
    accepted   \* readings accepted by this process

ledgerVars == <<attached, table, failed, pending, accepted>>

Init ==
    /\ attached = FALSE
    /\ table = <<>>
    /\ failed = 0 /\ pending = 0 /\ accepted = 0

Attach ==
    /\ ~attached
    /\ attached' = TRUE
    /\ UNCHANGED <<table, failed, pending, accepted>>

Store(row) ==
    /\ attached
    /\ table' = Append(table, row)
    /\ pending' = pending + 1
    /\ UNCHANGED <<attached, failed, accepted>>

Fail ==
    /\ attached
    /\ failed' = failed + 1
    /\ pending' = pending + 1
    /\ UNCHANGED <<attached, table, accepted>>

Accept ==
    /\ attached
    /\ pending > 0
    /\ pending' = pending - 1
    /\ accepted' = accepted + 1
    /\ UNCHANGED <<attached, table, failed>>

\* The counts are the process's, the table is not.
Detach ==
    /\ attached
    /\ attached' = FALSE
    /\ failed' = 0 /\ pending' = 0 /\ accepted' = 0
    /\ UNCHANGED table

LoseVolume ==
    /\ ~attached
    /\ table' = <<>>
    /\ UNCHANGED <<attached, failed, pending, accepted>>

Next ==
    \/ Attach \/ Detach \/ LoseVolume \/ Fail \/ Accept
    \/ \E row \in Rows : Store(row)

Spec == Init /\ [][Next]_ledgerVars
=============================================================================

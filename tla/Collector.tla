------------------------------ MODULE Collector ------------------------------
(***************************************************************************)
(* The edge collector (edge/collector/main.go): a ticker loop samples a    *)
(* reading, publishes it at QoS 1 and waits at most 3 s for the broker's   *)
(* acknowledgement before it counts the outcome.                           *)
(*                                                                         *)
(* The paho client is environment, modelled from how the loop uses it: a   *)
(* PUBLISH it has accepted stays in its outbox until it is acknowledged    *)
(* and is sent again on every new connection.  Readings are numbered in    *)
(* the order they are sampled; timers fire at any moment.                  *)
(***************************************************************************)
EXTENDS Integers, FiniteSets

CONSTANTS
    MaxReadings,  \* bound: readings sampled in one run
    MaxLosses     \* bound: connections lost in one run

ASSUME CollectorAssumption == MaxReadings \in Nat /\ MaxLosses \in Nat

VARIABLES
    main,       \* where main() is
    cancelled,  \* ctx has been cancelled by SIGINT or SIGTERM
    tick,       \* the ticker's channel holds a tick
    taken,      \* readings sampled so far; the last one is being published
    token,      \* the token of the last Publish
    link,       \* the paho client's connection
    losses,     \* connections lost so far
    outbox,     \* readings the client has accepted, not acknowledged
    sent,       \* those of them sent on the present connection
    copies,     \* how often the broker has received each reading
    metric      \* iiot_publish_success_total, _failure_total, _timeout_total

loopVars   == <<main, taken, token, metric>>
signalVars == <<cancelled, tick>>
linkVars   == <<link, losses>>
clientVars == <<outbox, sent, copies>>
vars == <<loopVars, signalVars, linkVars, clientVars>>

Readings == 1 .. MaxReadings
Outcomes == {"success", "failure", "timeout"}

Running == main # "exited"

Init ==
    /\ main = "connecting" /\ cancelled = FALSE /\ tick = FALSE
    /\ taken = 0 /\ token = "none"
    /\ link = "dialing" /\ losses = 0
    /\ outbox = {} /\ sent = {} /\ copies = [n \in Readings |-> 0]
    /\ metric = [o \in Outcomes |-> 0]

-----------------------------------------------------------------------------
(* The paho client and the broker.                                         *)

ConnectUp ==
    /\ Running /\ link \in {"dialing", "reconnecting"}
    /\ link' = "up"
    /\ UNCHANGED <<loopVars, signalVars, losses, clientVars>>

ConnectionLost ==
    /\ Running /\ link = "up" /\ losses < MaxLosses
    /\ link' = "reconnecting" /\ losses' = losses + 1
    /\ sent' = {}
    /\ UNCHANGED <<loopVars, signalVars, outbox, copies>>

Transmit(n) ==
    /\ Running /\ link = "up" /\ n \in outbox \ sent
    /\ sent' = sent \cup {n}
    /\ copies' = [copies EXCEPT ![n] = @ + 1]
    /\ UNCHANGED <<loopVars, signalVars, linkVars, outbox>>

\* Mutant: an acknowledged reading stays marked as sent.
PubAckKeepsSent(n) ==
    /\ Running /\ link = "up" /\ n \in sent
    /\ outbox' = outbox \ {n}
    /\ token' = IF n = taken /\ token = "pending" THEN "acked" ELSE token
    /\ UNCHANGED <<main, taken, metric, signalVars, linkVars, sent, copies>>

\* The acknowledgement completes the token if the loop still waits for it.
PubAck(n) ==
    /\ Running /\ link = "up" /\ n \in sent
    /\ outbox' = outbox \ {n}
    /\ sent' = sent \ {n}
    /\ token' = IF n = taken /\ token = "pending" THEN "acked" ELSE token
    /\ UNCHANGED <<main, taken, metric, signalVars, linkVars, copies>>

-----------------------------------------------------------------------------
(* Signals and the ticker, whose channel holds one tick.                   *)

Signal ==
    /\ Running /\ ~cancelled
    /\ cancelled' = TRUE
    /\ UNCHANGED <<loopVars, tick, linkVars, clientVars>>

Tick ==
    /\ main \in {"select", "waiting"} /\ ~tick /\ taken < MaxReadings
    /\ tick' = TRUE
    /\ UNCHANGED <<loopVars, cancelled, linkVars, clientVars>>

-----------------------------------------------------------------------------
(* main and its loop.                                                      *)

MainGoto(from, to) == main = from /\ main' = to

Connected ==
    /\ MainGoto("connecting", "select")
    /\ link # "dialing"
    /\ UNCHANGED <<taken, token, metric, signalVars, linkVars, clientVars>>

\* Connect failed or was not up after 10 s; the client keeps dialing.
ConnectFails ==
    /\ MainGoto("connecting", "stopping")
    /\ UNCHANGED <<taken, token, metric, signalVars, linkVars, clientVars>>

\* sampleReading and Publish: the client accepts the PUBLISH, or fails it with
\* or without having stored it.
Publish ==
    /\ MainGoto("select", "waiting")
    /\ tick /\ taken < MaxReadings
    /\ tick' = FALSE
    /\ taken' = taken + 1
    /\ \/ token' = "pending" /\ outbox' = outbox \cup {taken + 1}
       \/ token' = "failed" /\ outbox' \in {outbox, outbox \cup {taken + 1}}
    /\ UNCHANGED <<metric, cancelled, linkVars, sent, copies>>

Count(outcome) ==
    /\ MainGoto("waiting", "select")
    /\ token' = "none"
    /\ metric' = [metric EXCEPT ![outcome] = @ + 1]
    /\ UNCHANGED <<taken, signalVars, linkVars, clientVars>>

\* Mutant: the outcome of a wait that ended in time is not looked at.
SettleUnchecked == token \in {"acked", "failed"} /\ Count("success")

Settle ==
    \/ token = "acked" /\ Count("success")
    \/ token = "failed" /\ Count("failure")

\* Mutant: token.Wait() instead of token.WaitTimeout(3 * time.Second).
WaitForever == token = "acked" /\ Count("success")

\* Mutant: a reading that timed out is published again.
WaitExpiresRepublishes ==
    /\ token \in {"pending", "acked"}
    /\ MainGoto("waiting", "select")
    /\ token' = "none"
    /\ metric' = [metric EXCEPT !["timeout"] = @ + 1]
    /\ outbox' = outbox \cup {taken} /\ sent' = sent \ {taken}
    /\ UNCHANGED <<taken, signalVars, linkVars, copies>>

\* Mutant: the loop goes on after a timeout without counting it.
WaitExpiresUncounted ==
    /\ token \in {"pending", "acked"}
    /\ MainGoto("waiting", "select")
    /\ token' = "none"
    /\ UNCHANGED <<taken, metric, signalVars, linkVars, clientVars>>

\* WaitTimeout gives up, or its timer wins against a simultaneous answer.
WaitExpires == token \in {"pending", "acked"} /\ Count("timeout")

\* ctx.Done is looked at between two readings only.
Stop ==
    /\ MainGoto("select", "disconnecting")
    /\ cancelled
    /\ UNCHANGED <<taken, token, metric, signalVars, linkVars, clientVars>>

\* Disconnect(500): until it returns the client goes on with its outbox.
DisconnectReturns ==
    /\ MainGoto("disconnecting", "stopping")
    /\ link' = "closed" /\ sent' = {}
    /\ UNCHANGED <<taken, token, metric, signalVars, losses, outbox, copies>>

\* The metrics server shuts down within 5 s; the outbox dies with the process.
Exit ==
    /\ MainGoto("stopping", "exited")
    /\ link' = "closed" /\ sent' = {} /\ outbox' = {}
    /\ UNCHANGED <<taken, token, metric, signalVars, losses, copies>>

Main ==
    \/ Connected \/ ConnectFails \/ Publish \/ Settle \/ WaitExpires
    \/ DisconnectReturns \/ Exit

Client ==
    \/ ConnectUp \/ ConnectionLost
    \/ \E n \in Readings : Transmit(n) \/ PubAck(n)

Stopped == ~Running /\ UNCHANGED vars

Next == Main \/ Stop \/ Client \/ Signal \/ Tick \/ Stopped

Spec == Init /\ [][Next]_vars

\* Timers fire and main is scheduled.  A select with both cases ready takes
\* either at random, so ctx.Done is not passed over for ever.
FairSpec == Spec /\ WF_vars(Main) /\ SF_vars(Stop)

-----------------------------------------------------------------------------
(* Correctness.                                                            *)

One(condition) == IF condition THEN 1 ELSE 0

\* Every variable keeps its type; only sampled readings are in the outbox.
TypeOK ==
    /\ main \in {"connecting", "select", "waiting", "disconnecting",
                 "stopping", "exited"}
    /\ cancelled \in BOOLEAN /\ tick \in BOOLEAN
    /\ taken \in 0 .. MaxReadings
    /\ token \in {"none", "pending", "acked", "failed"}
    /\ link \in {"dialing", "up", "reconnecting", "closed"}
    /\ losses \in 0 .. MaxLosses
    /\ outbox \subseteq 1 .. taken /\ sent \subseteq outbox
    /\ copies \in [Readings -> Nat]
    /\ metric \in [Outcomes -> Nat]

Delivered == {n \in Readings : copies[n] > 0}

Counted == metric["success"] + metric["failure"] + metric["timeout"]

\* The counters bracket what the broker holds: at least the successes, and at
\* most the outcomes of all kinds and the reading being published.  A timeout
\* or a failure says nothing of its reading.
CountersBracketDeliveries ==
    /\ metric["success"] <= Cardinality(Delivered)
    /\ Cardinality(Delivered) <= Counted + One(main = "waiting")

\* The client holds no more readings than were counted as timeouts and
\* failures, but for the one being published: after an outage as many readings
\* arrive late, at most, as the two counters say.
BacklogCounted ==
    Cardinality(outbox) <=
        metric["failure"] + metric["timeout"] + One(main = "waiting")

\* The broker gets a reading again only after a lost connection, once for each.
CopiesNeedLosses == \A n \in Readings : copies[n] <= 1 + losses

\* A signal, or a connect that failed, ends the process: no outage of the
\* broker and no client that is still dialing keeps it.
SignalEnds == cancelled \/ main = "stopping" ~> ~Running

\* Each reading taken is counted under exactly one outcome before the next is
\* taken: with the n-th as the last, the counters come to make n together,
\* whatever the broker, the client and a signal do during the wait.
EveryReadingCounted ==
    \A n \in Readings : taken = n ~> taken = n /\ Counted = n
=============================================================================

------------------------------ MODULE Delivery -------------------------------
(***************************************************************************)
(* What becomes of a reading between the broker and the telemetry table:   *)
(* the bridge's MQTT session, its handler, queue and workers, the POSTs    *)
(* they send and the ingestor that stores them, with the faults between    *)
(* the processes: lost connections and subscriptions, POSTs and answers    *)
(* that are lost or late, inserts that fail, an ingestor without a store   *)
(* or with a lost volume, and the end of the bridge, by crash or signal.   *)
(*                                                                         *)
(* A PUBLISH the broker has received is a message, at one place at a time; *)
(* a POST is a message and the attempt it belongs to.  What makes a        *)
(* payload valid, an INGESTOR_URL that does not parse, the metrics and the *)
(* steps of the shutdowns are in the modules Contract, Bridge and          *)
(* Ingestor.  The order of messages is left out.                           *)
(***************************************************************************)
EXTENDS Integers, FiniteSets

CONSTANTS
    Messages,     \* PUBLISHes the broker may receive
    WorkerCount,  \* BRIDGE_WORKERS
    QueueSize,    \* BRIDGE_QUEUE_SIZE
    MaxAttempts,  \* maxAttempts
    MaxExits      \* bound: how often the bridge's process ends

ASSUME DeliveryAssumption ==
    /\ IsFiniteSet(Messages)
    /\ WorkerCount \in Nat \ {0} /\ QueueSize \in Nat \ {0}
    /\ MaxAttempts \in Nat \ {0} /\ MaxExits \in Nat

VARIABLES
    valid,    \* messages whose payload decodes and validates
    link,     \* the bridge's connection, and its subscription
    place,    \* where each message is
    attempt,  \* the attempts forward has made for it
    post,     \* what has become of each attempt's POST at the ingestor
    rows,     \* rows it has in the telemetry table
    wiped,    \* messages whose rows were lost with the ingestor's volume
    stopping, \* SIGTERM has cancelled the bridge's context
    exits     \* how often the bridge's process has ended

processVars  == <<valid, stopping, exits>>
ingestorVars == <<post, rows, wiped>>
vars == <<link, place, attempt, processVars, ingestorVars>>

Attempts == 1 .. MaxAttempts

\* "missed" by the broker for want of a subscription or a session, "dropped"
\* at the full queue, "lost" with the bridge, or settled by process.
Settled == {"missed", "dropped", "lost", "invalid", "success", "failure"}
InBridge == {"handler", "queue", "ready", "exchange"}
Places  == {"new", "session"} \cup InBridge \cup Settled

\* 202 for a row, for an insert that failed, or for the memory of an ingestor
\* without a store; or a 4xx.
Accepted   == {"stored", "unstored", "memory"}
Answers    == Accepted \cup {"rejected"}
PostStates == {"none", "sent"} \cup Answers

At(where) == {m \in Messages : place[m] \in where}

\* The POST a worker waits for.
PostOf(m) == post[m][attempt[m]]

MoveTo(m, where) == place' = [place EXCEPT ![m] = where]

Init ==
    /\ valid \in SUBSET Messages
    /\ link = "down"
    /\ place = [m \in Messages |-> "new"]
    /\ attempt = [m \in Messages |-> 0]
    /\ post = [m \in Messages |-> [a \in Attempts |-> "none"]]
    /\ rows = [m \in Messages |-> 0]
    /\ wiped = {}
    /\ stopping = FALSE
    /\ exits = 0

-----------------------------------------------------------------------------
(* The broker and the bridge's session, which is clean: the broker forgets *)
(* it, and the messages waiting in it, with the connection.                *)

Connect ==
    /\ link = "down"
    /\ link' = "connected"
    /\ UNCHANGED <<place, attempt, processVars, ingestorVars>>

\* The broker takes the SUBSCRIBE, maybe after the handler's wait for it.
Subscribe ==
    /\ link \in {"connected", "unsubscribed"}
    /\ link' = "subscribed"
    /\ UNCHANGED <<place, attempt, processVars, ingestorVars>>

\* It is refused, or not answered in 10 s: OnConnectHandler only logs.
SubscribeFails ==
    /\ link = "connected"
    /\ link' = "unsubscribed"
    /\ UNCHANGED <<place, attempt, processVars, ingestorVars>>

\* The messages that wait in one of these places come to a common end.
Ends(where, end) ==
    place' = [m \in Messages |-> IF place[m] \in where THEN end ELSE place[m]]

Disconnect ==
    /\ link # "down"
    /\ link' = "down"
    /\ Ends({"session"}, "missed")
    /\ UNCHANGED <<attempt, processVars, ingestorVars>>

Receive(m) ==
    /\ place[m] = "new"
    /\ MoveTo(m, IF link = "subscribed" THEN "session" ELSE "missed")
    /\ UNCHANGED <<link, attempt, processVars, ingestorVars>>

-----------------------------------------------------------------------------
(* The bridge.                                                             *)

\* paho calls the handler for one message at a time.
Deliver(m) ==
    /\ link = "subscribed" /\ place[m] = "session"
    /\ At({"handler"}) = {}
    /\ MoveTo(m, "handler")
    /\ UNCHANGED <<link, attempt, processVars, ingestorVars>>

\* Mutant: an unbounded queue instead of the buffered channel.
EnqueueAlways(m) ==
    /\ place[m] = "handler"
    /\ MoveTo(m, "queue")
    /\ UNCHANGED <<link, attempt, processVars, ingestorVars>>

Enqueue(m) ==
    /\ place[m] = "handler"
    /\ \/ Cardinality(At({"queue"})) < QueueSize /\ MoveTo(m, "queue")
       \/ Cardinality(At({"queue"})) >= QueueSize /\ MoveTo(m, "dropped")
    /\ UNCHANGED <<link, attempt, processVars, ingestorVars>>

Take(m) ==
    /\ place[m] = "queue"
    /\ Cardinality(At({"ready", "exchange"})) < WorkerCount
    /\ MoveTo(m, "ready")
    /\ UNCHANGED <<link, attempt, processVars, ingestorVars>>

\* process: the payload does not decode, or does not validate.
Invalid(m) ==
    /\ place[m] = "ready" /\ m \notin valid
    /\ MoveTo(m, "invalid")
    /\ UNCHANGED <<link, attempt, processVars, ingestorVars>>

\* The context is cancelled before an attempt, or during the backoff.
Cancelled(m) ==
    /\ place[m] = "ready" /\ m \in valid /\ stopping
    /\ MoveTo(m, "failure")
    /\ UNCHANGED <<link, attempt, processVars, ingestorVars>>

\* Mutant: the retry is the same request sent once more.
SendAgain(m) ==
    /\ place[m] = "ready" /\ m \in valid /\ ~stopping
    /\ attempt' = [attempt EXCEPT ![m] = IF @ = 0 THEN 1 ELSE @]
    /\ post' = [post EXCEPT ![m][attempt'[m]] = "sent"]
    /\ MoveTo(m, "exchange")
    /\ UNCHANGED <<link, rows, wiped, processVars>>

\* One iteration of forward's loop up to client.Do.
Send(m) ==
    /\ place[m] = "ready" /\ m \in valid /\ ~stopping
    /\ attempt' = [attempt EXCEPT ![m] = @ + 1]
    /\ post' = [post EXCEPT ![m][attempt[m] + 1] = "sent"]
    /\ MoveTo(m, "exchange")
    /\ UNCHANGED <<link, rows, wiped, processVars>>

\* Mutant: every answer below 500 settles the message as forwarded.
AnsweredBelow500(m) ==
    /\ place[m] = "exchange"
    /\ PostOf(m) \in Answers
    /\ MoveTo(m, "success")
    /\ UNCHANGED <<link, attempt, processVars, ingestorVars>>

\* The ingestor's answer to this attempt arrives: 202, or a 4xx.
Answered(m) ==
    /\ place[m] = "exchange"
    /\ \/ PostOf(m) \in Accepted /\ MoveTo(m, "success")
       \/ PostOf(m) = "rejected" /\ MoveTo(m, "failure")
    /\ UNCHANGED <<link, attempt, processVars, ingestorVars>>

\* Mutant: there is no last attempt.
UnansweredForever(m) ==
    /\ place[m] = "exchange"
    /\ MoveTo(m, IF attempt[m] < MaxAttempts THEN "ready" ELSE "exchange")
    /\ UNCHANGED <<link, attempt, processVars, ingestorVars>>

\* Mutant: one attempt too many.
UnansweredOnceMore(m) ==
    /\ place[m] = "exchange"
    /\ MoveTo(m, IF attempt[m] <= MaxAttempts THEN "ready" ELSE "failure")
    /\ UNCHANGED <<link, attempt, processVars, ingestorVars>>

\* No answer: a network error, the client's 5 s timeout, or a 5xx of the
\* ingress.  The POST may have arrived all the same, and be handled later.
Unanswered(m) ==
    /\ place[m] = "exchange"
    /\ MoveTo(m, IF attempt[m] < MaxAttempts THEN "ready" ELSE "failure")
    /\ UNCHANGED <<link, attempt, processVars, ingestorVars>>

Signal ==
    /\ ~stopping /\ exits < MaxExits
    /\ stopping' = TRUE
    /\ UNCHANGED <<valid, link, place, attempt, exits, ingestorVars>>

\* A crash, or main returns; the container is started again.
BridgeExits ==
    /\ exits < MaxExits
    /\ exits' = exits + 1 /\ stopping' = FALSE
    /\ link' = "down"
    /\ place' = [m \in Messages |-> CASE place[m] \in InBridge -> "lost"
                                      [] place[m] = "session" -> "missed"
                                      [] OTHER -> place[m]]
    /\ UNCHANGED <<valid, attempt, ingestorVars>>

-----------------------------------------------------------------------------
(* The ingestor.                                                           *)

\* Mutant: an insert that failed is tried again, though it may have worked.
HandleInsertsAgain(m, a) ==
    /\ post[m][a] = "sent"
    /\ \E answer \in Answers, more \in 1 .. 2 :
           /\ post' = [post EXCEPT ![m][a] = answer]
           /\ rows' = IF answer = "stored" THEN [rows EXCEPT ![m] = @ + more]
                                          ELSE rows
    /\ UNCHANGED <<link, place, attempt, wiped, processVars>>

\* The POST handler: the reading is stored; its insert fails and is counted in
\* iiot_db_write_fail_total, or there is no store, and it is accepted all the
\* same; or its timestamp is outside MAX_TS_SKEW.  The handler runs to its end
\* also when the bridge no longer waits; a process that dies leaves the POST
\* unhandled or its answer unsent.
Handle(m, a) ==
    /\ post[m][a] = "sent"
    /\ \E answer \in Answers :
           /\ post' = [post EXCEPT ![m][a] = answer]
           /\ rows' = IF answer = "stored" THEN [rows EXCEPT ![m] = @ + 1]
                                          ELSE rows
    /\ UNCHANGED <<link, place, attempt, wiped, processVars>>

\* The ingestor starts anew with an empty volume.
VolumeLost ==
    /\ rows' = [m \in Messages |-> 0]
    /\ wiped' = wiped \cup {m \in Messages : rows[m] > 0}
    /\ UNCHANGED <<link, place, attempt, post, processVars>>

-----------------------------------------------------------------------------

Bridge(m) ==
    \/ Deliver(m) \/ Enqueue(m) \/ Take(m)
    \/ Invalid(m) \/ Cancelled(m) \/ Send(m)
    \/ Answered(m) \/ Unanswered(m)

Session == Connect \/ Subscribe \/ SubscribeFails \/ Disconnect

Step ==
    \/ Session \/ Signal \/ BridgeExits \/ VolumeLost
    \/ \E m \in Messages : Bridge(m) \/ \E a \in Attempts : Handle(m, a)

Next == Step \/ \E m \in Messages : Receive(m)

Spec == Init /\ [][Next]_vars

\* OnConnectHandler waits 10 s for the broker's answer, no longer.
SubscribeEnds == link = "connected" /\ (Subscribe \/ SubscribeFails)

\* The bridge's goroutines are scheduled and its timers end every exchange.
\* Nothing is assumed of the network, the broker or the ingestor.
Fairness == WF_vars(SubscribeEnds) /\ \A m \in Messages : WF_vars(Bridge(m))

FairSpec == Spec /\ Fairness

-----------------------------------------------------------------------------
(* Correctness.                                                            *)

TypeOK ==
    /\ valid \subseteq Messages
    /\ link \in {"down", "connected", "unsubscribed", "subscribed"}
    /\ place \in [Messages -> Places]
    /\ attempt \in [Messages -> 0 .. MaxAttempts]
    /\ post \in [Messages -> [Attempts -> PostStates]]
    /\ rows \in [Messages -> Nat]
    /\ wiped \subseteq Messages
    /\ stopping \in BOOLEAN
    /\ exits \in 0 .. MaxExits

\* A reading is stored at most once for each attempt at it: without an
\* idempotency key the duplicates of a message never exceed its retries, which
\* bridge_forward_retry_total counts, whatever answers were lost or late.
DuplicatesWithinRetries == \A m \in Messages : rows[m] <= attempt[m]

\* Some POST of the message got this answer.
Got(m, answers) == \E a \in Attempts : post[m][a] \in answers

\* A message counted as forwarded is in the table, or was until its volume was
\* lost, or was accepted without a row: the insert of one of its POSTs failed
\* and iiot_db_write_fail_total has counted it, or there was no store.  That a
\* POST was answered late, or for an earlier attempt, makes no other case.
SuccessAccounted ==
    \A m \in At({"success"}) :
        rows[m] > 0 \/ m \in wiped \/ Got(m, {"unstored", "memory"})

\* paho acknowledges a message when the handler returns.  Of the messages the
\* bridge has taken over, the end of its process takes at most the queue, the
\* workers' messages and the one in the handler; those that wait in its session
\* are "missed" by then, as in any lost connection, and are as many as they are.
TakenLossBounded ==
    Cardinality(At({"lost"})) <= exits * (QueueSize + WorkerCount + 1)

\* Every message the broker has received is stored, missed, or counted under
\* one of the bridge's outcomes, or lost with it: no one waits for ever.
EveryMessageEnds ==
    \A m \in Messages : place[m] # "new" ~> place[m] \in Settled

\* "re-subscribed inside OnConnectHandler so it survives reconnects": a client
\* that is connected comes to be subscribed, or loses the connection again.
HandlerSurvivesReconnect == link = "connected" ~> link \in {"subscribed", "down"}
=============================================================================

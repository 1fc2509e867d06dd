------------------------------ MODULE Contract -------------------------------
(***************************************************************************)
(* What the three programs must agree on about a reading: the collector's  *)
(* samples, Validate, the checks of the bridge and of the ingestor with    *)
(* its MAX_TS_SKEW; and the limit of /recent.  These are functions of      *)
(* their inputs; the one behaviour is to choose the inputs.                *)
(*                                                                         *)
(* A text is whether it is blank and its length in bytes (Go's len);       *)
(* measured values are integers, durations and clock offsets are seconds.  *)
(***************************************************************************)
EXTENDS Integers

CONSTANTS
    Lengths,     \* lengths of the texts tried
    Measures,    \* temperatures, pressures and humidities tried
    Offsets,     \* a reading's timestamp minus the ingestor's clock
    Numbers      \* numbers in MAX_TS_SKEW and in queries

ASSUME ContractAssumption ==
    /\ Lengths \subseteq Nat
    /\ Measures \subseteq
           [temperature : Int, pressure : Int, humidity : Int]
    /\ Offsets \subseteq Int /\ Numbers \subseteq Int

VARIABLES
    payload,  \* the body of a POST, or an MQTT message
    offset,   \* how far its timestamp is from the ingestor's clock
    raw       \* MAX_TS_SKEW, or the limit of /recent, as it is written

vars == <<payload, offset, raw>>

-----------------------------------------------------------------------------
(* Readings and payloads.                                                  *)

Text == {t \in [blank : BOOLEAN, bytes : Lengths] : t.bytes = 0 => t.blank}

\* "dated" is a timestamp other than Go's zero time.
Reading == [device : Text, dated : BOOLEAN, measured : Measures,
            status : Text]

\* One JSON value, one with something behind it, or none; the value is large
\* when it does not fit into 1 MiB.
Payload == [json : {"one", "trailing", "broken"}, large : BOOLEAN,
            reading : Reading]

InRange(measured) ==
    /\ -50 <= measured.temperature /\ measured.temperature <= 150
    /\ 800 <= measured.pressure /\ measured.pressure <= 1200
    /\ 0 <= measured.humidity /\ measured.humidity <= 100

\* Mutant: the two limits on lengths are swapped.
ValidateSwapped(r) ==
    /\ ~r.device.blank /\ r.device.bytes <= 32
    /\ r.dated /\ InRange(r.measured)
    /\ ~r.status.blank /\ r.status.bytes <= 128

\* TelemetryReading.Validate finds no error.
Validate(r) ==
    /\ ~r.device.blank /\ r.device.bytes <= 128
    /\ r.dated /\ InRange(r.measured)
    /\ ~r.status.blank /\ r.status.bytes <= 32

\* sampleReading may return r for a device; its status is "ok".
Sampled(r) ==
    /\ r.dated /\ r.status = [blank |-> FALSE, bytes |-> 2]
    /\ r.measured.temperature \in 20 .. 35
    /\ r.measured.pressure \in 1000 .. 1030
    /\ r.measured.humidity \in 40 .. 80

\* process: json.Unmarshal takes one value and nothing behind it.
Forwarded(p) == p.json = "one" /\ Validate(p.reading)

\* Mutant: a body that cannot be read to its end is the server's error.
PostStatusUnread(p, delta, maxSkew) ==
    IF p.json = "broken" THEN 400
    ELSE IF p.large THEN 500
    ELSE IF /\ Validate(p.reading)
            /\ maxSkew <= 0 \/ delta \in -maxSkew .. maxSkew
         THEN 202
    ELSE 422

\* The POST handler's answer.  Its decoder stops behind the first value.
PostStatus(p, delta, maxSkew) ==
    IF p.json = "broken" \/ p.large THEN 400
    ELSE IF /\ Validate(p.reading)
            /\ maxSkew <= 0 \/ delta \in -maxSkew .. maxSkew
         THEN 202
    ELSE 422

\* forward: any answer but 202 and the 4xx leads to the next attempt.
Retried(status) == status # 202 /\ ~(400 <= status /\ status < 500)

-----------------------------------------------------------------------------
(* MAX_TS_SKEW and the limit of /recent: unset, refused by ParseDuration   *)
(* or Atoi (as is a number beyond 64 bits), or a number of either sign.    *)

Raw == [kind : {"unset", "junk", "number"}, number : Numbers]

Day == 86400

\* Mutant: a duration that does not parse leaves Go's zero value.
parseMaxSkewZero(value) ==
    CASE value.kind = "number" -> value.number
      [] value.kind = "unset"  -> Day
      [] value.kind = "junk"   -> 0

\* MAX_TS_SKEW keeps its sign: zero or less turns the check off.
parseMaxSkew(value) == IF value.kind = "number" THEN value.number ELSE Day

\* Mutant: the lower bound is forgotten.
RecentLimitUpper(value) ==
    CASE value.kind = "unset" -> 100
      [] value.kind = "junk"  -> 1
      [] value.kind = "number" ->
             IF value.number > 500 THEN 500 ELSE value.number

\* The limit makeRecentHandler hands to queryRecent.
RecentLimit(value) ==
    CASE value.kind = "unset"  -> 100
      [] value.kind = "junk"   -> 1
      [] value.kind = "number" ->
             IF value.number < 1 THEN 1
             ELSE IF value.number > 500 THEN 500 ELSE value.number

-----------------------------------------------------------------------------

Init == payload \in Payload /\ offset \in Offsets /\ raw \in Raw

Next == UNCHANGED vars

Spec == Init /\ [][Next]_vars

-----------------------------------------------------------------------------
(* Correctness.                                                            *)

\* Whatever the collector samples for a DEVICE_ID that is not blank and has at
\* most 128 bytes is forwarded by the bridge and, within the default skew,
\* accepted by the ingestor: three programs keep one contract.
SamplesAccepted ==
    (/\ Sampled(payload.reading) /\ payload.json = "one" /\ ~payload.large
     /\ ~payload.reading.device.blank /\ payload.reading.device.bytes <= 128
     /\ offset \in -Day .. Day)
    => Forwarded(payload) /\ PostStatus(payload, offset, Day) = 202

\* The bridge checks what the ingestor checks: a message it forwards is
\* refused only for its size or its age, and the ingestor's own answers never
\* make the bridge retry; its retries are for the network and the ingress.
ForwardedRefusedForCause ==
    Forwarded(payload) =>
        LET skew   == parseMaxSkew(raw)
            status == PostStatus(payload, offset, skew)
        IN  /\ ~Retried(status)
            /\ \/ status = 202 \/ payload.large
               \/ skew > 0 /\ offset \notin -skew .. skew

\* A reading more than a day off is accepted only on request: MAX_TS_SKEW is a
\* duration above a day, or not positive; one that does not parse is neither.
OldReadingsOnRequest ==
    (/\ PostStatus(payload, offset, parseMaxSkew(raw)) = 202
     /\ offset \notin -Day .. Day)
    => raw.kind = "number" /\ (raw.number <= 0 \/ raw.number > Day)

\* /recent never asks SQLite for a LIMIT below 1, and a negative one means no
\* limit there.
LimitBounded == RecentLimit(raw) \in 1 .. 500
==============================================================================

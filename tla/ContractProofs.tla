--------------------------- MODULE ContractProofs ---------------------------
(***************************************************************************)
(* The contract for readings, offsets and parameters of every size.        *)
(***************************************************************************)
EXTENDS Contract, TLAPS

\* The inputs are of their types.
InputOK == payload \in Payload /\ offset \in Offsets /\ raw \in Raw

LEMMA InputAlwaysOK == Spec => []InputOK
<1>1. Init => InputOK
  BY DEF Init, InputOK
<1>2. InputOK /\ [Next]_vars => InputOK'
  BY DEF InputOK, Next, vars
<1>3. QED
  BY <1>1, <1>2, PTL DEF Spec

LEMMA InputIntegers ==
  ASSUME InputOK
  PROVE  /\ payload.reading.measured.temperature \in Int
         /\ payload.reading.measured.pressure \in Int
         /\ payload.reading.measured.humidity \in Int
         /\ payload.reading.device.bytes \in Nat
         /\ payload.reading.status.bytes \in Nat
         /\ offset \in Int /\ raw.number \in Int
         /\ raw.kind \in {"unset", "junk", "number"}
         /\ parseMaxSkew(raw) \in Int
<1>1. payload.reading \in Reading
  BY DEF InputOK, Payload
<1>2. /\ payload.reading.measured \in Measures
      /\ payload.reading.device \in Text /\ payload.reading.status \in Text
  BY <1>1 DEF Reading
<1>3. /\ payload.reading.measured.temperature \in Int
      /\ payload.reading.measured.pressure \in Int
      /\ payload.reading.measured.humidity \in Int
  BY <1>2, ContractAssumption DEF ContractAssumption
<1>4. /\ payload.reading.device.bytes \in Nat
      /\ payload.reading.status.bytes \in Nat
  BY <1>2, ContractAssumption DEF ContractAssumption, Text
<1>5. /\ offset \in Int /\ raw.number \in Int
      /\ raw.kind \in {"unset", "junk", "number"}
  BY ContractAssumption DEF ContractAssumption, InputOK, Raw
<1>6. parseMaxSkew(raw) \in Int
  BY <1>5 DEF parseMaxSkew, Day
<1>7. QED
  BY <1>3, <1>4, <1>5, <1>6

\* A reading the collector takes for a device that fits is forwarded by the
\* bridge and accepted by the ingestor.
THEOREM SamplesAreAccepted == Spec => []SamplesAccepted
<1>1. InputOK => SamplesAccepted
  <2> SUFFICES ASSUME InputOK, Sampled(payload.reading),
                      payload.json = "one", ~payload.large,
                      ~payload.reading.device.blank,
                      payload.reading.device.bytes <= 128, offset \in -Day .. Day
               PROVE  Forwarded(payload) /\ PostStatus(payload, offset, Day) = 202
    BY DEF SamplesAccepted
  <2>1. InRange(payload.reading.measured)
    BY InputIntegers DEF Sampled, InRange
  <2>2. Validate(payload.reading)
    BY <2>1 DEF Sampled, Validate
  <2>3. QED
    BY <2>2 DEF Forwarded, PostStatus
<1>2. QED
  BY <1>1, InputAlwaysOK, PTL

\* Whatever the measured values and whatever MAX_TS_SKEW, a message the bridge
\* forwards is refused for its size or its age only, and never retried.
THEOREM RefusedForCause == Spec => []ForwardedRefusedForCause
<1>1. InputOK => ForwardedRefusedForCause
  BY InputIntegers
     DEF ForwardedRefusedForCause, Forwarded, PostStatus, Retried
<1>2. QED
  BY <1>1, InputAlwaysOK, PTL

LEMMA DayPositive == Day \in Int /\ Day > 0
BY DEF Day

LEMMA WiderWindow ==
  ASSUME NEW delta \in Int, NEW skew \in Int, NEW limit \in Int, skew > 0,
         delta \in -skew .. skew, delta \notin -limit .. limit
  PROVE  skew > limit
OBVIOUS

\* The ingestor takes a reading more than a day off only when MAX_TS_SKEW says
\* so, and a MAX_TS_SKEW that does not parse never does.
THEOREM OldReadingsAreAskedFor == Spec => []OldReadingsOnRequest
<1>1. InputOK => OldReadingsOnRequest
  <2> SUFFICES ASSUME InputOK, offset \notin -Day .. Day,
                      PostStatus(payload, offset, parseMaxSkew(raw)) = 202
               PROVE  raw.kind = "number" /\ (raw.number <= 0 \/ raw.number > Day)
    BY DEF OldReadingsOnRequest
  <2> DEFINE skew == parseMaxSkew(raw)
  <2>1. offset \in Int
    BY InputIntegers
  <2>2. skew \in Int
    BY InputIntegers
  <2>3. skew <= 0 \/ offset \in -skew .. skew
    BY DEF PostStatus
  <2>4. skew # Day => raw.kind = "number" /\ raw.number = skew
    BY DEF parseMaxSkew
  <2> HIDE DEF skew
  <2>5. Day \in Int /\ Day > 0
    BY DayPositive
  <2>6. skew <= 0 \/ skew > Day
    BY <2>1, <2>2, <2>3, <2>5, WiderWindow
  <2>7. skew # Day
    BY <2>2, <2>5, <2>6
  <2>8. QED
    BY <2>4, <2>6, <2>7
<1>2. QED
  BY <1>1, InputAlwaysOK, PTL

\* Every text in the query gives a limit from 1 to 500.
THEOREM LimitIsBounded == Spec => []LimitBounded
<1>1. InputOK => LimitBounded
  BY InputIntegers DEF LimitBounded, RecentLimit
<1>2. QED
  BY <1>1, InputAlwaysOK, PTL
=============================================================================

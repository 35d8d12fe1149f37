--------------------------- MODULE ThrottleMetrics --------------------------
(***************************************************************************)
(* The gauges of a throttle:                                               *)
(*   pkg/controllers/metrics_recorder.go, throttle_metrics.go,             *)
(*   clusterthrottle_metrics.go                                            *)
(*                                                                         *)
(* A gauge has a series per resource: a function from resources to values. *)
(* The gauges of counts have the one series "pod" and are two with those of*)
(* requests in the code; they are one here, as the amounts are.            *)
(***************************************************************************)
EXTENDS ResourceAmount

CONSTANTS
    Milli,    \* how many of the smallest quantities a thousandth holds: 10^6 in the code
    Unit      \* ... and a whole one: 10^9

ASSUME ScalesAssumption == {Milli, Unit} \subseteq Nat \ {0}

Gauges == {"specThreshold", "throttled", "used", "calculatedThreshold"}

\* No series was set yet.
NoSeries == [g \in Gauges |-> NoAmount]

RoundedUp(q, scale) == (q + scale - 1) \div scale

(* Quantity.MilliValue of cpu, Quantity.Value of any other resource: both  *)
(* round up.  The count of pods is a whole number.                         *)
Scale(r) == CASE r = "pod" -> 1 [] r = "cpu" -> Milli [] OTHER -> Unit
ShownValue(r, q) == RoundedUp(q, Scale(r))

(* recordResourceCounts and recordResourceRequests: without a count its    *)
(* series is zero; a resource that is not mentioned is not touched.        *)
RecordAmount(old, amount) ==
    [r \in DOMAIN old \cup DOMAIN amount \cup {"pod"} |->
        IF r \in DOMAIN amount THEN ShownValue(r, amount[r])
        ELSE IF r = "pod" THEN 0 ELSE old[r]]

\* A mutant: what is not throttled is not set.
RecordFlags_OnlyThrottled(old, flags) ==
    [r \in DOMAIN old \cup {s \in DOMAIN flags : flags[s]} |->
        IF r \in DOMAIN flags /\ flags[r] THEN 1 ELSE old[r]]

\* recordIsResourceCountThrottled and recordIsResourceRequestsThrottled
RecordFlags(old, flags) ==
    [r \in DOMAIN old \cup DOMAIN flags \cup {"pod"} |->
        IF r \in DOMAIN flags THEN (IF flags[r] THEN 1 ELSE 0)
        ELSE IF r = "pod" THEN 0 ELSE old[r]]

\* recordThrottleMetrics and recordClusterThrottleMetrics
RecordThrottle(series, thr) ==
    [specThreshold       |-> RecordAmount(series.specThreshold, thr.spec),
     throttled           |-> RecordFlags(series.throttled, thr.throttled),
     used                |-> RecordAmount(series.used, thr.used),
     calculatedThreshold |-> RecordAmount(series.calculatedThreshold, thr.calculated)]
=============================================================================

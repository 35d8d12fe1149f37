--------------------------- MODULE ResourceAmount ---------------------------
(***************************************************************************)
(* Resource amounts and the throttle decision taken from them:             *)
(*   pkg/apis/schedule/v1alpha1/resource_amount.go                         *)
(*   pkg/apis/schedule/v1alpha1/throttle_types.go, clusterthrottle_types.go*)
(*                                                                         *)
(* An amount is a function from the resources it mentions to Nat: a key    *)
(* that is absent from a Go map is absent from the domain.  The count of   *)
(* pods, a nullable struct beside the map in Go, obeys the same rules as a *)
(* key that every pod requests once (nil is absence), so it is one more    *)
(* resource here.                                                          *)
(***************************************************************************)
EXTENDS Naturals, FiniteSetsExt

\* ResourceAmount{}: no count, no request.
NoAmount == [r \in {} |-> 0]

Quantity(a, r) == IF r \in DOMAIN a THEN a[r] ELSE 0

\* An amount, whatever it mentions.
Amount(a) == a \in [DOMAIN a -> Nat]

Amounts(Resources) == UNION {[R -> Nat] : R \in SUBSET Resources}

Add(a, b) ==
    [r \in DOMAIN a \cup DOMAIN b |-> Quantity(a, r) + Quantity(b, r)]

\* used.Add(...) over a list of pods, and totalResoruceAmount over the cache.
TotalAmount(request, pods) ==
    MapThenFoldSet(Add, NoAmount, LAMBDA p : request[p],
                   LAMBDA S : CHOOSE p \in S : TRUE, pods)

-----------------------------------------------------------------------------
\* A mutant: at the threshold is over it, whatever the caller asked for.
IsThrottled_OnEqual(threshold, used, onEqual) ==
    [r \in DOMAIN threshold |-> r \in DOMAIN used /\ used[r] >= threshold[r]]

(* ResourceAmount.IsThrottled: a flag per resource of the threshold.       *)
IsThrottled(threshold, used, onEqual) ==
    [r \in DOMAIN threshold |->
        /\ r \in DOMAIN used
        /\ \/ used[r] > threshold[r]
           \/ onEqual /\ used[r] = threshold[r]]

(* IsResourceAmountThrottled.IsThrottledFor: only what the pod requests    *)
(* counts; a request of zero does not.                                     *)
IsThrottledFor(throttled, pod) ==
    \E r \in DOMAIN pod \cap DOMAIN throttled : pod[r] # 0 /\ throttled[r]

CheckThrottleStatus ==
    {"not-throttled", "active", "insufficient", "pod-requests-exceeds-threshold"}

(* The threshold in effect: spec.threshold until a reconcile has stored a  *)
(* calculated one.                                                         *)
EffectiveThreshold(thr) == IF thr.calculatedAt THEN thr.calculated ELSE thr.spec

(* The body the two CheckThrottledFor methods share; alreadyOnEqual is the *)
(* flag of the check of what is used already, their only difference.       *)
CheckWith(thr, pod, reserved, onEqual, alreadyOnEqual) ==
    LET threshold == EffectiveThreshold(thr)
        already   == Add(thr.used, reserved)
        used      == Add(Add(thr.used, pod), reserved)
    IN IF IsThrottledFor(IsThrottled(threshold, pod, FALSE), pod)
       THEN "pod-requests-exceeds-threshold"
       ELSE IF \/ IsThrottledFor(thr.throttled, pod)
               \/ IsThrottledFor(IsThrottled(threshold, already, alreadyOnEqual), pod)
       THEN "active"
       ELSE IF IsThrottledFor(IsThrottled(threshold, used, onEqual), pod)
       THEN "insufficient"
       ELSE "not-throttled"

\* A mutant: the reservations are forgotten.
ThrottleCheck_NoReserved(thr, pod, reserved, onEqual) ==
    CheckWith(thr, pod, NoAmount, onEqual, TRUE)

\* Throttle.CheckThrottledFor
ThrottleCheck(thr, pod, reserved, onEqual) ==
    CheckWith(thr, pod, reserved, onEqual, TRUE)

\* A mutant: the reservations are forgotten.
ClusterThrottleCheck_NoReserved(thr, pod, reserved, onEqual) ==
    CheckWith(thr, pod, NoAmount, onEqual, onEqual)

\* ClusterThrottle.CheckThrottledFor
ClusterThrottleCheck(thr, pod, reserved, onEqual) ==
    CheckWith(thr, pod, reserved, onEqual, onEqual)

-----------------------------------------------------------------------------
(* What the decision is for.                                               *)

(* The pod fits: each resource it requests stays within the threshold when *)
(* the pod is added to what is used and reserved.                          *)
Fits(threshold, used, reserved, pod) ==
    \A r \in DOMAIN pod \cap DOMAIN threshold :
        pod[r] # 0 => Quantity(used, r) + Quantity(reserved, r) + pod[r] <= threshold[r]

(* The status as reconcile writes it: the flags computed from the amount   *)
(* used and the threshold in effect.  Before the first reconcile there is  *)
(* the zero status.                                                        *)
StatusConsistent(thr) ==
    \/ thr.throttled = IsThrottled(EffectiveThreshold(thr), thr.used, TRUE)
    \/ ~thr.calculatedAt /\ thr.used = NoAmount /\ thr.throttled = NoAmount
=============================================================================

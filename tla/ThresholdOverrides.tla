------------------------- MODULE ThresholdOverrides -------------------------
(***************************************************************************)
(* Temporary threshold overrides:                                          *)
(*   pkg/apis/schedule/v1alpha1/temporary_threshold_override.go            *)
(*   pkg/apis/schedule/v1alpha1/throttle_types.go: CalculateThreshold,     *)
(*   NextOverrideHappensIn                                                 *)
(*                                                                         *)
(* An instant is a positive number.  The begin and the end of an override  *)
(* are strings in the code; what matters is whether they are empty, parse, *)
(* and to which instant.                                                   *)
(***************************************************************************)
EXTENDS ResourceAmount, Integers, Sequences

Unset     == 0     \* the empty string, and the zero time
Malformed == -1    \* BeginTime or EndTime returns an error

Parses(o) == o.begin # Malformed /\ o.end # Malformed

\* Inclusive on both ends.
IsActive(o, now) ==
    Parses(o) /\ o.begin <= now /\ (o.end = Unset \/ now <= o.end)

Active(overrides, now) == {i \in DOMAIN overrides : IsActive(overrides[i], now)}

\* A mutant: the last override lives for each resource.
Merged_LastLives(overrides, active) ==
    [r \in UNION {DOMAIN overrides[i].threshold : i \in active} |->
        overrides[Max({i \in active : r \in DOMAIN overrides[i].threshold})].threshold[r]]

\* The first active override lives for each resource; the count is one of them.
Merged(overrides, active) ==
    [r \in UNION {DOMAIN overrides[i].threshold : i \in active} |->
        overrides[Min({i \in active : r \in DOMAIN overrides[i].threshold})].threshold[r]]

(* The threshold, and the overrides an error message is kept for.  Active  *)
(* overrides replace the whole threshold of the spec.                      *)
CalculateThreshold(spec, overrides, now) ==
    LET active == Active(overrides, now) IN
    [threshold |-> IF active = {} THEN spec ELSE Merged(overrides, active),
     messages  |-> {i \in DOMAIN overrides : ~Parses(overrides[i])}]

\* A mutant: the ends are forgotten.
Instants_BeginsOnly(overrides) ==
    {overrides[i].begin : i \in {j \in DOMAIN overrides : overrides[j].begin # Malformed}}

\* A malformed begin hides the end.
Instants(overrides) ==
    UNION {LET o == overrides[i] IN
           ({o.begin} \cup (IF o.begin = Malformed THEN {} ELSE {o.end})) \ {Malformed} :
           i \in DOMAIN overrides}

\* At most one duration: nil is the empty set.
NextOverrideHappensIn(overrides, now) ==
    LET later == {e \in Instants(overrides) : e > now}
    IN {Min(later) - now : dummy \in {e \in later : e = Min(later)}}

-----------------------------------------------------------------------------
Ends(overrides) == {overrides[i].end : i \in DOMAIN overrides}

(* Until the next instant NextOverrideHappensIn announces, or for ever when*)
(* it announces none, the threshold calculated now is the right one.  An   *)
(* override is still active at its end, so a calculation made exactly then *)
(* is the exception: nothing announces that the override expires.          *)
HoldsUntilNext(spec, overrides, now, later) ==
    /\ now <= later
    /\ \A d \in NextOverrideHappensIn(overrides, now) : later < now + d
    /\ now \notin Ends(overrides)
    => CalculateThreshold(spec, overrides, later) = CalculateThreshold(spec, overrides, now)

(* "First override lives": an active override keeps what it says of a      *)
(* resource, unless an earlier one that is active says something else.     *)
FirstLives(spec, overrides, now) ==
    \A i \in Active(overrides, now) : \A r \in DOMAIN overrides[i].threshold :
        LET calculated == CalculateThreshold(spec, overrides, now).threshold[r]
        IN \/ calculated = overrides[i].threshold[r]
           \/ \E j \in Active(overrides, now) :
                j < i /\ r \in DOMAIN overrides[j].threshold
                      /\ overrides[j].threshold[r] = calculated
=============================================================================

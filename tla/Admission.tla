------------------------------ MODULE Admission -----------------------------
(***************************************************************************)
(* What a throttle promises: pods are admitted while they fit.  An admitted*)
(* pod holds what it requests until it is given up, or until it has run    *)
(* and ended.  Once something has failed that the promise does not cover,  *)
(* pods may be admitted without it (waived).                               *)
(***************************************************************************)
EXTENDS ResourceAmount

CONSTANTS Pods, Request, Threshold

VARIABLES
    pod,      \* where each pod is in its life
    waived    \* whether the promise has been given up

vars == <<pod, waived>>

Init ==
    /\ pod = [p \in Pods |-> "waiting"]
    /\ waived = FALSE

Holding == {p \in Pods : pod[p] \in {"admitted", "running"}}

WithinThreshold(pods) ==
    \A r \in DOMAIN Threshold : Quantity(TotalAmount(Request, pods), r) <= Threshold[r]

Admit(p) ==
    /\ pod[p] = "waiting"
    /\ waived \/ WithinThreshold(Holding \cup {p})
    /\ pod' = [pod EXCEPT ![p] = "admitted"]
    /\ UNCHANGED waived

\* The pod's node has it; with its answer lost, the promise goes too.
Run(p) ==
    /\ pod[p] = "admitted"
    /\ pod' = [pod EXCEPT ![p] = "running"]
    /\ waived' \in {waived, TRUE}

End(p) ==
    /\ pod[p] # "gone"
    /\ pod' = [pod EXCEPT ![p] = "gone"]
    /\ UNCHANGED waived

\* One binding fails, or all of them with the process.
GiveUp(P) ==
    /\ \A p \in P : pod[p] = "admitted"
    /\ pod' = [p \in Pods |-> IF p \in P THEN "waiting" ELSE pod[p]]
    /\ waived' \in {waived, TRUE}

Next ==
    \/ \E p \in Pods : Admit(p) \/ Run(p) \/ End(p)
    \/ \E P \in SUBSET Pods : GiveUp(P)

Spec == Init /\ [][Next]_vars
=============================================================================

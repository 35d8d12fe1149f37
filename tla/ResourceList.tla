---------------------------- MODULE ResourceList ----------------------------
(***************************************************************************)
(* Lists of resources and what a pod requests:                             *)
(*   pkg/resourcelist/resourcelist.go                                      *)
(*   pkg/apis/schedule/v1alpha1/resource_amount.go: ResourceAmountOfPod    *)
(*                                                                         *)
(* A list is a function from the resources it mentions to their quantities;*)
(* a method that changes its receiver returns the changed one here.        *)
(***************************************************************************)
EXTENDS Integers, SequencesExt

Nothing == [r \in {} |-> 0]

\* lhs[name] of a name that is not in the map
At(l, r) == IF r \in DOMAIN l THEN l[r] ELSE 0

ListAdd(lhs, rhs) ==
    [r \in DOMAIN lhs \cup DOMAIN rhs |-> At(lhs, r) + At(rhs, r)]

Sub(lhs, rhs) ==
    [r \in DOMAIN lhs \cup DOMAIN rhs |-> At(lhs, r) - At(rhs, r)]

GreaterOrEqual(lhs, rhs) ==
    \A r \in DOMAIN rhs : r \in DOMAIN lhs /\ lhs[r] >= rhs[r]

QuantityMax(x, y) == IF y > x THEN y ELSE x
QuantityMin(x, y) == IF y < x THEN y ELSE x

\* A mutant: a resource the receiver does not mention is left out.
SetMax_KnownOnly(lhs, rhs) ==
    [r \in DOMAIN lhs |-> IF r \in DOMAIN rhs THEN QuantityMax(lhs[r], rhs[r]) ELSE lhs[r]]

SetMax(lhs, rhs) ==
    [r \in DOMAIN lhs \cup DOMAIN rhs |->
        IF r \notin DOMAIN lhs THEN rhs[r]
        ELSE IF r \notin DOMAIN rhs THEN lhs[r]
        ELSE QuantityMax(lhs[r], rhs[r])]

\* A mutant: the other's resources are kept.
SetMin_KeepsAll(lhs, rhs) ==
    [r \in DOMAIN lhs |-> IF r \in DOMAIN rhs THEN QuantityMin(lhs[r], rhs[r]) ELSE lhs[r]]

SetMin(lhs, rhs) ==
    [r \in DOMAIN lhs \cap DOMAIN rhs |-> QuantityMin(lhs[r], rhs[r])]

\* What one of them does not mention is zero.
EqualTo(lhs, rhs) == \A r \in DOMAIN lhs \cup DOMAIN rhs : At(lhs, r) = At(rhs, r)

(* Init containers run one after the other, the containers together.  A pod*)
(* is [init, containers : sequences of lists, overhead : a list].          *)
PodRequestResourceList(pod) ==
    LET icRes == FoldLeft(SetMax, Nothing, pod.init)
        cRes  == FoldLeft(ListAdd, Nothing, pod.containers)
    IN ListAdd(SetMax(cRes, icRes), pod.overhead)

\* The count is one more resource, see ResourceAmount.
ResourceAmountOfPod(pod) ==
    LET requests == PodRequestResourceList(pod) IN
    [r \in DOMAIN requests \cup {"pod"} |-> IF r = "pod" THEN 1 ELSE requests[r]]
=============================================================================

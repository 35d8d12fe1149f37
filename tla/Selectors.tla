------------------------------ MODULE Selectors -----------------------------
(***************************************************************************)
(* Which pods and namespaces a throttle selects:                           *)
(*   pkg/apis/schedule/v1alpha1/throttle_selector.go,                      *)
(*   clusterthrottle_selector.go                                           *)
(*                                                                         *)
(* A label selector is the set of labels it matches, unless it is invalid  *)
(* (an unknown operator, an In without values).  A term has one for pods   *)
(* and, in a ClusterThrottle, one for namespaces; a selector is a sequence *)
(* of terms.  A pair (bool, error) of the code is one of three answers.    *)
(***************************************************************************)
EXTENDS Naturals, Sequences

Answers == {"yes", "no", "error"}

LabelSelectors(Labels) == [valid : BOOLEAN, labels : SUBSET Labels]

\* metav1.LabelSelectorAsSelector, and Matches of what it returns
Matches(selector, labels) ==
    IF ~selector.valid THEN "error"
    ELSE IF labels \in selector.labels THEN "yes" ELSE "no"

(* OR-ed: the first term that does not answer no decides, so an invalid    *)
(* term behind a matching one is not noticed.                              *)
Ored(answers) ==
    IF \A i \in DOMAIN answers : answers[i] = "no" THEN "no"
    ELSE answers[CHOOSE i \in DOMAIN answers :
                    answers[i] # "no" /\ \A j \in 1..(i - 1) : answers[j] = "no"]

-----------------------------------------------------------------------------
(* ThrottleSelector.                                                       *)

TermMatchesToPod(term, labels) == Matches(term.pods, labels)

MatchesToPod(selector, labels) ==
    Ored([i \in DOMAIN selector |-> TermMatchesToPod(selector[i], labels)])

-----------------------------------------------------------------------------
(* ClusterThrottleSelector.                                                *)

\* The error of an invalid namespace selector is dropped: (false, nil).
ClusterTermMatchesToNamespace(term, ns) ==
    IF Matches(term.namespaces, ns) = "yes" THEN "yes" ELSE "no"

\* A mutant: the first term speaks for all of them.
ClusterMatchesToNamespace_FirstTerm(selector, ns) ==
    IF selector = <<>> THEN "no" ELSE ClusterTermMatchesToNamespace(selector[1], ns)

ClusterMatchesToNamespace(selector, ns) ==
    Ored([i \in DOMAIN selector |-> ClusterTermMatchesToNamespace(selector[i], ns)])

\* A mutant: the namespace is not asked.
ClusterTermMatchesToPod_AnyNamespace(term, labels, ns) == TermMatchesToPod(term, labels)

ClusterTermMatchesToPod(term, labels, ns) ==
    IF ClusterTermMatchesToNamespace(term, ns) = "no" THEN "no"
    ELSE TermMatchesToPod(term, labels)

ClusterMatchesToPod(selector, labels, ns) ==
    Ored([i \in DOMAIN selector |-> ClusterTermMatchesToPod(selector[i], labels, ns)])
=============================================================================

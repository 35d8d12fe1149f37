------------------------ MODULE MCThrottleAssignment ------------------------
(* Small instances of ThrottleAssignment.                                  *)
EXTENDS AssignmentInvariants

\* A selector of one term.
Selecting(labels, namespaces) ==
    <<[pods |-> [valid |-> TRUE, labels |-> labels],
       namespaces |-> [valid |-> TRUE, labels |-> namespaces]]>>

InvalidSelector ==
    <<[pods |-> [valid |-> FALSE, labels |-> {}],
       namespaces |-> [valid |-> TRUE, labels |-> NamespaceLabels]]>>

MCLabelA == [p \in Pods |-> "a"]

\* One selects label a, the other b, in any namespace.
MCByLabel == [t \in Throttles |->
    Selecting(IF t = "t1" THEN {"a"} ELSE {"b"}, NamespaceLabels)]

\* Both select label a, in a namespace with the labels it has at first.
MCOneNamespace == [t \in Throttles |-> Selecting({"a"}, {InitialNamespace})]

MCClusterThrottles == [t \in Throttles |-> "ClusterThrottle"]
MCBothKinds == [t \in Throttles |-> IF t = "t1" THEN "Throttle" ELSE "ClusterThrottle"]

\* The first may be made to select everything ...
MCWiden == [t \in Throttles |->
    IF t = "t1" THEN {MCByLabel[t], Selecting(PodLabels, NamespaceLabels)} ELSE {}]

\* ... the second to select nothing valid.
MCBreak == [t \in Throttles |-> IF t = "t2" THEN {InvalidSelector, MCOneNamespace[t]} ELSE {}]
=============================================================================

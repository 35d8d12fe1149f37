------------------------ MODULE MCThrottleController ------------------------
(***************************************************************************)
(* Instances of ThrottleController for TLC: pods that count for one each   *)
(* and request cpu, under a threshold that admits some of them.            *)
(***************************************************************************)
EXTENDS LedgerInvariants, ThrottleAdmission, TLC

CONSTANTS p1, p2, w1, w2

\* Either pod fits alone, the two of them do not.
MCRequest == [p \in {p1, p2} |-> [pod |-> 1, cpu |-> IF p = p1 THEN 1 ELSE 2]]
MCTwins == [p \in {p1, p2} |-> [pod |-> 1, cpu |-> 1]]
MCOne == [pod |-> 1, cpu |-> 2]
MCSymmetry == Permutations({p1, p2})
MCThreshold == [pod |-> 2, cpu |-> 2]
=============================================================================

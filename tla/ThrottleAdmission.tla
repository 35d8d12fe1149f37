------------------------- MODULE ThrottleAdmission --------------------------
(***************************************************************************)
(* ThrottleController keeps the promise of Admission: the goroutines, the  *)
(* caches behind the API server and the two ledgers come to one decision   *)
(* on the pods that hold resources, taken when a pod is reserved.          *)
(***************************************************************************)
EXTENDS ThrottleController

\* Where a pod is, as the API server and the binding cycles have it.
Life(p) ==
    IF IsLive(apiPod[p]) THEN "running"
    ELSE IF apiPod[p] # {} THEN "gone"
    ELSE IF bind[p] = "binding" THEN "admitted" ELSE "waiting"

Promise ==
    INSTANCE Admission WITH
        pod    <- [p \in Pods |-> Life(p)],
        waived <- faults # {}

(* Each Reserve is an admission that fits at that very moment, and nothing *)
(* but a failed binding, the end of the pod or a restart takes it back.    *)
ImplementsAdmission == Promise!Spec
=============================================================================

-------------------------- MODULE LedgerInvariants --------------------------
(***************************************************************************)
(* Why the two ledgers of ThrottleController, the status and the           *)
(* reservations, account for every pod: inductive invariants of every step.*)
(***************************************************************************)
EXTENDS ThrottleController

(* The handlers are behind the lister, and the lister is behind the API.   *)
CachesLag ==
    \A p \in Pods : podHandled[p] \subseteq podLister[p] /\ podLister[p] \subseteq apiPod[p]

(* A pod in its scheduling or its binding cycle is not bound.              *)
BoundLast ==
    /\ \A p \in InFlight : p \in reserved /\ ~IsScheduled(apiPod[p])
    /\ \A p \in sched.pod : p \notin InFlight /\ ~IsScheduled(apiPod[p])

(* reconcile un-reserves pods which the lister had bound.                  *)
RemovesScheduled ==
    \A w \in Workers : \A p \in worker[w].todo : IsScheduled(podLister[p])

ReservationInv == TypeOK /\ CachesLag /\ BoundLast /\ RemovesScheduled

-----------------------------------------------------------------------------
(* The work queue gives a key to one worker at a time.                     *)
OneWorkerPerKey ==
    /\ \A w \in Workers : ~At(w, "idle") => worker[w].key \in queue.processing
    /\ \A v, w \in Workers :
        ~At(v, "idle") /\ ~At(w, "idle") /\ worker[v].key = worker[w].key => v = w

(* So one throttle has one worker at a time, unless it is a ClusterThrottle*)
(* and there are several.                                                  *)
SingleReconciler == ~Clustered \/ \A v, w \in Workers : v = w

LostIsNoted == \A p \in Pods : bind[p] = "lost" => "answerLost" \in faults

\* A bound pod is reserved at least until the lister has it.
NewlyBoundReserved ==
    \A p \in Pods : IsLive(apiPod[p]) /\ podLister[p] = {} => p \in reserved

\* The reservations a worker is about to remove; the others are kept.
Removing == UNION {worker[w].todo : w \in {v \in Workers : At(v, "unreserve")}}

(* The stored status and the reservations that are kept account for every  *)
(* pod that holds resources ...                                            *)
ApiAccounts ==
    \E C \in SUBSET Pods :
        /\ apiUsed = Used(C)
        /\ \A p \in Pods : Holds(p) => p \in C \cup (reserved \ Removing)

\* ... and so do the pods a reconcile counts and those it will not un-reserve.
ReconcileAccounts ==
    \A w \in Workers : worker[w].pc \in {"compare", "update"} =>
        \A p \in Pods : Holds(p) => p \in worker[w].live \cup (reserved \ worker[w].todo)

(* The lister's object and its successors hold the stored status, but for  *)
(* one that a reconcile has assigned to.                                   *)
ObjectsFollow ==
    \A v \in listerRv..Len(object) :
        object[v] = apiUsed \/ \E w \in Workers : At(w, "update") /\ worker[w].rv = v

\* A reconcile compares with the stored status, and sends what it counted.
PointersFollow ==
    \A w \in Workers :
        /\ worker[w].pc \in {"list", "compare"} => object[worker[w].rv] = apiUsed
        /\ At(w, "update") => object[worker[w].rv] = NewUsed(w)

Ledgers ==
    NewlyBoundReserved /\ ApiAccounts /\ ReconcileAccounts /\ ObjectsFollow /\ PointersFollow

(* Accounted, with what keeps it: at every step of a reconcile and of a    *)
(* binding every pod that holds resources is counted or reserved, and no   *)
(* reservation goes before the status that counts its pod is stored.       *)
LedgerInv ==
    /\ OneWorkerPerKey
    /\ LostIsNoted
    /\ Healthy => Ledgers

-----------------------------------------------------------------------------
(* While a scheduling cycle holds the reservations it has read, pods leave *)
(* the cache, but none enters it.                                          *)
ReadsEnough == sched.pc = "read" => reserved \subseteq sched.reserved

Holders == {p \in Pods : Holds(p)}

\* One pod more stays within the threshold, in the resources it requests.
HasRoom(p) ==
    \A r \in DOMAIN Threshold :
        Quantity(Request[p], r) # 0 => Quantity(Used(Holders \cup {p}), r) <= Threshold[r]

(* A pod that has passed PreFilter still has its room when it is reserved: *)
(* one scheduling cycle at a time, and the others only give room up.       *)
PassedHasRoom ==
    faults = {} => (sched.pc = "passed" => \A p \in sched.pod : HasRoom(p))

(* NoOverAdmission, with what keeps it from PreFilter to Reserve.          *)
AdmissionInv == ReadsEnough /\ PassedHasRoom /\ NoOverAdmission
=============================================================================

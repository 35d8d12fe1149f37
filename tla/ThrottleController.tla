------------------------- MODULE ThrottleController -------------------------
(***************************************************************************)
(* One Throttle (or ClusterThrottle), the pods it selects, the controller  *)
(* that reconciles its status, the reservations, and the scheduler that    *)
(* reads both to admit pods:                                               *)
(*   pkg/controllers/throttle_controller.go, clusterthrottle_controller.go,*)
(*   controller.go, reserved_resource_amounts.go                           *)
(*   pkg/scheduler_plugin/plugin.go                                        *)
(*                                                                         *)
(* Goroutines: the workers of the controller, the handlers of the two      *)
(* informers, the scheduling cycle (one pod at a time) and one binding     *)
(* cycle per pod.  The API server keeps the pods and the throttle; the     *)
(* listers follow it with any delay, and the handlers follow the listers.  *)
(*                                                                         *)
(* reconcile writes its new status into the object the lister owns before  *)
(* it calls UpdateStatus, so the informer's copy of every version of the   *)
(* throttle is a piece of state of its own here (object), apart from what  *)
(* the API server stores (apiUsed).                                        *)
(***************************************************************************)
EXTENDS ResourceAmount, WorkQueue, Sequences

CONSTANTS
    Pods,            \* the pods the throttle selects
    Workers,         \* threads of the controller
    Request,         \* what each pod requests
    Threshold,       \* spec.threshold; no override, never edited
    Clustered,       \* TRUE: a ClusterThrottle, FALSE: a Throttle
    Endings,         \* how pods end: "finished", "deleted" or both
    Disturbances,    \* what may go wrong outside the program
    MaxDisturbances  \* bound: how often it does in a behaviour

AllDisturbances == {"edit", "updateError", "answerLost", "restart"}

ASSUME PodsAssumption == IsFiniteSet(Pods)
ASSUME RequestAssumption == \A p \in Pods : Amount(Request[p])
ASSUME ThresholdAssumption == Amount(Threshold)
ASSUME ClusteredAssumption == Clustered \in BOOLEAN
ASSUME EndingsAssumption == Endings \subseteq {"finished", "deleted"}
ASSUME DisturbancesAssumption ==
    Disturbances \subseteq AllDisturbances /\ MaxDisturbances \in Nat

VARIABLES
    apiPod,       \* what happened to each pod, a set of PodEvents
    podLister,    \* ... as far as the pod lister knows
    podHandled,   \* ... as far as the handlers were told
    apiUsed,      \* status.used of the throttle in the API server
    object,       \* the informer's copy of each resource version: status.used
    listerRv,     \* the version the throttle lister holds
    handledRv,    \* the last version the handlers were told of
    queue,        \* the work queue
    worker,       \* the local state of reconcile, per worker
    reserved,     \* the pods in the reservation cache
    sched,        \* the scheduling cycle
    bind,         \* the binding cycle of each pod
    disturbances, \* how many disturbances there were
    faults        \* history: the kinds of trouble met so far

pods == <<apiPod, podLister, podHandled>>
throttle == <<apiUsed, object, listerRv, handledRv>>
scheduler == <<sched, bind>>
history == <<disturbances, faults>>
vars == <<pods, throttle, queue, worker, reserved, scheduler, history>>

-----------------------------------------------------------------------------
(* Pods.  A pod is what has happened to it: {} is pending.                 *)

PodEvents == {"bound", "finished", "deleted"}

\* isScheduled
IsScheduled(pod) == "bound" \in pod

\* counted by reconcile: isScheduled, isNotFinished, and still listed
IsLive(pod) == pod = {"bound"}

\* listed, but terminated
IsFinished(pod) == pod = {"bound", "finished"}

\* The events a watch that has seen `seen' of a pod `pod' may see next.
NextEvents(seen, pod) ==
    {e \in pod \ seen :
        \/ e = "bound"
        \/ e = "finished" /\ "bound" \in seen
        \/ e = "deleted" /\ pod \ {"deleted"} \subseteq seen}

\* A mutant: shouldCountIn without isScheduled.
Live_Unscheduled == {p \in Pods : IsLive(podLister[p]) \/ podLister[p] = {}}

\* affectedNonTerminatedPods and all the terminated ones, in the lister
Live == {p \in Pods : IsLive(podLister[p])}
Finished == {p \in Pods : IsFinished(podLister[p])}

(* The keys of the two enqueue forms: enqueue(thr) and                     *)
(* enqueue(ExplicitKey(nn.String())).  They are the same "namespace/name"  *)
(* for a Throttle; a ClusterThrottle has no namespace and gets "name" and  *)
(* "/name", and reconcile resolves both to the same object.                *)
ObjectKey == "object"
NameKey == IF Clustered THEN "name" ELSE ObjectKey
Keys == {ObjectKey, NameKey}

\* status.used when these pods are counted; the reserved amount, too
Used(counted) == TotalAmount(Request, counted)

-----------------------------------------------------------------------------
Idle == [pc |-> "idle", key |-> ObjectKey, rv |-> 0, live |-> {}, todo |-> {}]
NoCycle == [pc |-> "idle", pod |-> {}, rv |-> 0, reserved |-> {}]

(* The caches are synced; no pod is bound yet, and the status was          *)
(* calculated once, before there was any pod.  The initial Add of the      *)
(* throttle is still to be handled.                                        *)
Init ==
    /\ apiPod = [p \in Pods |-> {}]
    /\ podLister = apiPod
    /\ podHandled = apiPod
    /\ apiUsed = Used({})
    /\ object = <<apiUsed>>
    /\ listerRv = 1
    /\ handledRv = 0
    /\ queue = EmptyQueue
    /\ worker = [w \in Workers |-> Idle]
    /\ reserved = {}
    /\ sched = NoCycle
    /\ bind = [p \in Pods |-> "none"]
    /\ disturbances = 0
    /\ faults = {}

Disturb(kind) ==
    /\ kind \in Disturbances
    /\ disturbances < MaxDisturbances
    /\ disturbances' = disturbances + 1

Note(kind) == faults' = faults \cup {kind}

-----------------------------------------------------------------------------
(* The workers: processNextWorkItem and reconcile.                         *)

At(w, pc) == worker[w].pc = pc
Become(w, state) == worker' = [worker EXCEPT ![w] = state]

\* workqueue.Get, then the lister's object: a pointer to its current version.
StartReconcile(w) ==
    /\ At(w, "idle")
    /\ \E k \in Ready(queue) :
        /\ queue' = Take(queue, k)
        /\ Become(w, [Idle EXCEPT !.pc = "list", !.key = k, !.rv = listerRv])
    /\ UNCHANGED <<pods, throttle, reserved, scheduler, history>>

\* A mutant: the Throttle's slip in the ClusterThrottle, too.
TerminatedPods_LastOnly(live, finished) ==
    {S \in SUBSET finished : finished = {} \/ \E p \in finished : S = {p}}

(* The terminated pods affectedPods returns.  The Throttle's assigns       *)
(* append(nonterminatedPods, pod) to its list, so only the last one found  *)
(* is left; with four live pods even that one may be overwritten, when the *)
(* two slices share an array.  The lister lists in any order.              *)
TerminatedPods(live, finished) ==
    IF Clustered THEN {finished}
    ELSE {S \in SUBSET finished :
            \/ \E p \in finished : S = {p}
            \/ S = {} /\ (finished = {} \/ Cardinality(live) >= 4)}

\* affectedPods: one snapshot of the pod lister.
ListAffectedPods(w) ==
    /\ At(w, "list")
    /\ \E terminated \in TerminatedPods(Live, Finished) :
        Become(w, [worker[w] EXCEPT !.pc = "compare", !.live = Live,
                                    !.todo = Live \cup terminated])
    /\ UNCHANGED <<pods, throttle, queue, reserved, scheduler, history>>

\* A mutant: the sum starts from the old status.
NewUsed_FromStatus(w) == Add(object[worker[w].rv], Used(worker[w].live))

NewUsed(w) == Used(worker[w].live)

\* No need to update status: straight on to unreserveAffectedPods.
StatusUnchanged(w) ==
    /\ At(w, "compare")
    /\ NewUsed(w) = object[worker[w].rv]
    /\ Become(w, [worker[w] EXCEPT !.pc = "unreserve", !.live = {}])
    /\ UNCHANGED <<pods, throttle, queue, reserved, scheduler, history>>

\* A mutant: un-reserve first, update the status never.
StatusChanged_NoUpdate(w) ==
    /\ At(w, "compare")
    /\ NewUsed(w) # object[worker[w].rv]
    /\ object' = [object EXCEPT ![worker[w].rv] = NewUsed(w)]
    /\ Become(w, [worker[w] EXCEPT !.pc = "unreserve", !.live = {}])
    /\ UNCHANGED <<pods, apiUsed, listerRv, handledRv, queue, reserved, scheduler, history>>

\* thr.Status = *newStatus: in place, thr is the object in the lister.
StatusChanged(w) ==
    /\ At(w, "compare")
    /\ NewUsed(w) # object[worker[w].rv]
    /\ object' = [object EXCEPT ![worker[w].rv] = NewUsed(w)]
    /\ Become(w, [worker[w] EXCEPT !.pc = "update"])
    /\ UNCHANGED <<pods, apiUsed, listerRv, handledRv, queue, reserved, scheduler, history>>

(* The API server stores the status sent, which is what the shared object  *)
(* holds at that moment.  A status equal to the stored one makes no version*)
StoreStatus(used) ==
    IF used = apiUsed
    THEN UNCHANGED <<apiUsed, object>>
    ELSE apiUsed' = used /\ object' = Append(object, used)

UpdateSucceeds(w) ==
    /\ At(w, "update")
    /\ worker[w].rv = Len(object)
    /\ StoreStatus(object[worker[w].rv])
    /\ Become(w, [worker[w] EXCEPT !.pc = "unreserve", !.live = {}])
    /\ UNCHANGED <<pods, listerRv, handledRv, queue, reserved, scheduler, history>>

\* reconcile returns an error: AddRateLimited, then the deferred Done.
RetryLater(w) ==
    /\ queue' = Done(AddRateLimited(queue, worker[w].key), worker[w].key)
    /\ Become(w, Idle)

\* Optimistic concurrency: the object is not the stored version.
UpdateConflicts(w) ==
    /\ At(w, "update")
    /\ worker[w].rv # Len(object)
    /\ RetryLater(w)
    /\ Note("conflict")
    /\ UNCHANGED <<pods, throttle, reserved, scheduler, disturbances>>

\* Any other error; the API server may have stored the status all the same.
UpdateFails(w) ==
    /\ At(w, "update")
    /\ Disturb("updateError")
    /\ \/ UNCHANGED <<apiUsed, object>>
       \/ worker[w].rv = Len(object) /\ StoreStatus(object[worker[w].rv])
    /\ RetryLater(w)
    /\ Note("updateError")
    /\ UNCHANGED <<pods, listerRv, handledRv, reserved, scheduler>>

\* The next pod of the loop in unreserveAffectedPods.
UnreserveAffectedPod(w) ==
    /\ At(w, "unreserve")
    /\ \E p \in worker[w].todo :
        /\ reserved' = reserved \ {p}
        /\ Become(w, [worker[w] EXCEPT !.todo = @ \ {p}])
    /\ UNCHANGED <<pods, throttle, queue, scheduler, history>>

\* Forget and Done.
FinishReconcile(w) ==
    /\ At(w, "unreserve")
    /\ worker[w].todo = {}
    /\ queue' = Done(queue, worker[w].key)
    /\ Become(w, Idle)
    /\ UNCHANGED <<pods, throttle, reserved, scheduler, history>>

Reconcile(w) ==
    \/ StartReconcile(w) \/ ListAffectedPods(w)
    \/ StatusUnchanged(w) \/ StatusChanged(w)
    \/ UpdateSucceeds(w) \/ UpdateConflicts(w)
    \/ UnreserveAffectedPod(w) \/ FinishReconcile(w)

\* A rate limited key is due.
RetryExpires ==
    /\ \E k \in queue.waiting : queue' = Expire(queue, k)
    /\ UNCHANGED <<pods, throttle, worker, reserved, scheduler, history>>

-----------------------------------------------------------------------------
(* The informers and their handlers.  Pods reach the lister and the        *)
(* handlers one event at a time, each pod at its own pace.                 *)

DeliverPod(p) ==
    /\ \E e \in NextEvents(podLister[p], apiPod[p]) :
        podLister' = [podLister EXCEPT ![p] = @ \cup {e}]
    /\ UNCHANGED <<apiPod, podHandled, throttle, queue, worker, reserved, scheduler, history>>

\* A mutant: UpdateFunc returns unless both the old and the new pod count.
HandlePod_BothScheduled(p) ==
    /\ \E e \in NextEvents(podHandled[p], podLister[p]) :
        /\ podHandled' = [podHandled EXCEPT ![p] = @ \cup {e}]
        /\ IF IsScheduled(podHandled[p])
           THEN /\ queue' = Enqueue(queue, NameKey)
                /\ reserved' = IF e = "deleted" THEN reserved \ {p} ELSE reserved
           ELSE UNCHANGED <<queue, reserved>>
    /\ UNCHANGED <<apiPod, podLister, throttle, worker, scheduler, history>>

\* A mutant: UpdateFunc un-reserves the pod it is told of.
HandlePod_UnreserveOnUpdate(p) ==
    /\ \E e \in NextEvents(podHandled[p], podLister[p]) :
        /\ podHandled' = [podHandled EXCEPT ![p] = @ \cup {e}]
        /\ reserved' = reserved \ {p}
    /\ queue' = Enqueue(queue, NameKey)
    /\ UNCHANGED <<apiPod, podLister, throttle, worker, scheduler, history>>

(* UpdateFunc for a pod that was bound or finished, DeleteFunc for one that*)
(* is gone.  A pod deleted before it was bound concerns nobody.            *)
HandlePod(p) ==
    /\ \E e \in NextEvents(podHandled[p], podLister[p]) :
        /\ podHandled' = [podHandled EXCEPT ![p] = @ \cup {e}]
        /\ IF e # "deleted"
           THEN queue' = Enqueue(queue, NameKey) /\ UNCHANGED reserved
           ELSE IF IsScheduled(podHandled[p])
           THEN queue' = Enqueue(queue, ObjectKey) /\ reserved' = reserved \ {p}
           ELSE UNCHANGED <<queue, reserved>>
    /\ UNCHANGED <<apiPod, podLister, throttle, worker, scheduler, history>>

\* The watch replaces the object in the throttle lister by the next version.
DeliverThrottle ==
    /\ listerRv < Len(object)
    /\ listerRv' = listerRv + 1
    /\ UNCHANGED <<pods, apiUsed, object, handledRv, queue, worker, reserved, scheduler, history>>

\* AddFunc and UpdateFunc of the throttle informer.
HandleThrottle ==
    /\ handledRv < listerRv
    /\ handledRv' = handledRv + 1
    /\ queue' = Enqueue(queue, ObjectKey)
    /\ UNCHANGED <<pods, apiUsed, object, listerRv, worker, reserved, scheduler, history>>

(* Every five minutes the informers replay what they hold to UpdateFunc:   *)
(* the throttle, and the pods that are scheduled.                          *)
Resync ==
    /\ \/ queue' = Enqueue(queue, ObjectKey)
       \/ Live \cup Finished # {} /\ queue' = Enqueue(queue, NameKey)
    /\ UNCHANGED <<pods, throttle, worker, reserved, scheduler, history>>

Inform ==
    \/ \E p \in Pods : DeliverPod(p) \/ HandlePod(p)
    \/ DeliverThrottle
    \/ HandleThrottle

-----------------------------------------------------------------------------
(* The scheduler.  A scheduling cycle handles one pod: PreFilter, whose    *)
(* CheckThrottled takes the pointer of the lister's object, then the       *)
(* reservations, then the status behind the pointer; and Reserve.          *)

(* Two words of a struct that is being overwritten: the count comes from   *)
(* one value and the requests from the other.                              *)
Torn(count, requests) ==
    [r \in (DOMAIN count \cap {"pod"}) \cup (DOMAIN requests \ {"pod"}) |->
        IF r = "pod" THEN count[r] ELSE requests[r]]

Status(used, throttled) ==
    [spec |-> Threshold, calculatedAt |-> TRUE, calculated |-> Threshold,
     used |-> used, throttled |-> throttled]

(* What a read of the status of version v may return: nothing locks the    *)
(* object, so a read beside a worker's assignment sees any mixture of the  *)
(* words before and after.                                                 *)
ReadableStatuses(v) ==
    LET values == {object[v]}
                  \cup {NewUsed(w) : w \in {x \in Workers : At(x, "compare") /\ worker[x].rv = v}}
        flags  == {IsThrottled(Threshold, u, TRUE) : u \in values}
    IN {Status(Torn(u1, u2), Torn(f1, f2)) : u1, u2 \in values, f1, f2 \in flags}

CheckThrottled(pod, status, amount) ==
    IF Clustered THEN ClusterThrottleCheck(status, pod, amount, FALSE)
                 ELSE ThrottleCheck(status, pod, amount, FALSE)

\* affectedThrottles: a pointer to the lister's object.
PreFilter(p) ==
    /\ sched.pc = "idle"
    /\ bind[p] = "none"
    /\ apiPod[p] = {}
    /\ sched' = [NoCycle EXCEPT !.pc = "listed", !.pod = {p}, !.rv = listerRv]
    /\ UNCHANGED <<pods, throttle, queue, worker, reserved, bind, history>>

\* cache.reservedResourceAmount
ReadReserved ==
    /\ sched.pc = "listed"
    /\ sched' = [sched EXCEPT !.pc = "read", !.reserved = reserved]
    /\ UNCHANGED <<pods, throttle, queue, worker, reserved, bind, history>>

(* CheckThrottledFor.  The pointer may be to a version that the lister has *)
(* dropped since.                                                          *)
CheckThrottledFor ==
    /\ sched.pc = "read"
    /\ \E p \in sched.pod, status \in ReadableStatuses(sched.rv) :
        IF CheckThrottled(Request[p], status, Used(sched.reserved))
             = "not-throttled"
        THEN sched' = [NoCycle EXCEPT !.pc = "passed", !.pod = {p}]
        ELSE sched' = NoCycle
    /\ IF sched.rv = listerRv THEN UNCHANGED faults ELSE Note("staleRead")
    /\ UNCHANGED <<pods, throttle, queue, worker, reserved, bind, disturbances>>

Reserve ==
    /\ sched.pc = "passed"
    /\ \E p \in sched.pod :
        /\ reserved' = reserved \cup {p}
        /\ bind' = [bind EXCEPT ![p] = "binding"]
    /\ sched' = NoCycle
    /\ UNCHANGED <<pods, throttle, queue, worker, history>>

\* No node fits.
Abandon ==
    /\ sched.pc = "passed"
    /\ sched' = NoCycle
    /\ UNCHANGED <<pods, throttle, queue, worker, reserved, bind, history>>

Schedule ==
    \/ \E p \in Pods : PreFilter(p)
    \/ ReadReserved \/ CheckThrottledFor \/ Reserve \/ Abandon

(* The binding cycle: the API server binds the pod, or the binding fails   *)
(* and so does the cycle: Unreserve.                                       *)
BindSucceeds(p) ==
    /\ bind[p] = "binding"
    /\ apiPod[p] = {}
    /\ apiPod' = [apiPod EXCEPT ![p] = {"bound"}]
    /\ bind' = [bind EXCEPT ![p] = "none"]
    /\ UNCHANGED <<podLister, podHandled, throttle, queue, worker, reserved, sched, history>>

\* The pod is bound, but the scheduler will be told that the request failed.
BindAnswerLost(p) ==
    /\ Disturb("answerLost")
    /\ bind[p] = "binding"
    /\ apiPod[p] = {}
    /\ apiPod' = [apiPod EXCEPT ![p] = {"bound"}]
    /\ bind' = [bind EXCEPT ![p] = "lost"]
    /\ Note("answerLost")
    /\ UNCHANGED <<podLister, podHandled, throttle, queue, worker, reserved, sched>>

Unreserve(p) ==
    /\ bind[p] # "none"
    /\ bind' = [bind EXCEPT ![p] = "none"]
    /\ reserved' = reserved \ {p}
    /\ UNCHANGED <<pods, throttle, queue, worker, sched, history>>

Bind(p) == BindSucceeds(p) \/ Unreserve(p)

-----------------------------------------------------------------------------
(* The surroundings.                                                       *)

PodFinishes(p) ==
    /\ "finished" \in Endings
    /\ IsLive(apiPod[p])
    /\ apiPod' = [apiPod EXCEPT ![p] = @ \cup {"finished"}]
    /\ UNCHANGED <<podLister, podHandled, throttle, queue, worker, reserved, scheduler, history>>

PodDeleted(p) ==
    /\ "deleted" \in Endings \ apiPod[p]
    /\ apiPod' = [apiPod EXCEPT ![p] = @ \cup {"deleted"}]
    /\ UNCHANGED <<podLister, podHandled, throttle, queue, worker, reserved, scheduler, history>>

\* A user edits the throttle, but not its selector or threshold.
EditThrottle ==
    /\ Disturb("edit")
    /\ object' = Append(object, apiUsed)
    /\ UNCHANGED <<pods, apiUsed, listerRv, handledRv, queue, worker, reserved, scheduler, faults>>

(* The scheduler process dies and starts again: NewPlugin syncs the        *)
(* caches, the controller starts with no reservation, and the handlers are *)
(* told of the throttle.  (That they are told of the pods too adds nothing *)
(* to the resyncs.)                                                        *)
Restart ==
    /\ Disturb("restart")
    /\ podLister' = apiPod
    /\ podHandled' = apiPod
    /\ listerRv' = Len(object)
    /\ handledRv' = Len(object) - 1
    /\ object' = [object EXCEPT ![Len(object)] = apiUsed]
    /\ queue' = EmptyQueue
    /\ worker' = [w \in Workers |-> Idle]
    /\ reserved' = {}
    /\ sched' = NoCycle
    /\ bind' = [p \in Pods |-> "none"]
    /\ Note("restart")
    /\ UNCHANGED <<apiPod, apiUsed>>

Environment ==
    \/ \E p \in Pods : PodFinishes(p) \/ PodDeleted(p) \/ BindAnswerLost(p)
    \/ \E w \in Workers : UpdateFails(w)
    \/ EditThrottle
    \/ Restart

-----------------------------------------------------------------------------
Next ==
    \/ \E w \in Workers : Reconcile(w)
    \/ RetryExpires
    \/ Inform
    \/ Resync
    \/ Schedule
    \/ \E p \in Pods : Bind(p)
    \/ Environment

Spec == Init /\ [][Next]_vars

(* Goroutines that can run do: the workers, the timer of the work queue,   *)
(* the informers and their handlers.  Nothing is assumed of the scheduler, *)
(* the pods, the users or the resyncs.                                     *)
Fairness ==
    /\ \A w \in Workers : WF_vars(Reconcile(w))
    /\ WF_vars(RetryExpires)
    /\ \A p \in Pods : WF_vars(DeliverPod(p)) /\ WF_vars(HandlePod(p))
    /\ WF_vars(DeliverThrottle)
    /\ WF_vars(HandleThrottle)

FairSpec == Spec /\ Fairness

-----------------------------------------------------------------------------
(* Properties.                                                             *)

Reconciles == [pc   : {"idle", "list", "compare", "update", "unreserve"},
               key  : Keys,
               rv   : Nat,
               live : SUBSET Pods,
               todo : SUBSET Pods]

Cycles == [pc       : {"idle", "listed", "read", "passed"},
           pod      : SUBSET Pods,
           rv       : Nat,
           reserved : SUBSET Pods]

Totals == {Used(C) : C \in SUBSET Pods}

TypeOK ==
    /\ apiPod \in [Pods -> SUBSET PodEvents]
    /\ podLister \in [Pods -> SUBSET PodEvents]
    /\ podHandled \in [Pods -> SUBSET PodEvents]
    /\ apiUsed \in Totals
    /\ object \in Seq(Totals)
    /\ listerRv \in 1..Len(object)
    /\ handledRv \in 0..Len(object)
    /\ queue \in Queues(Keys)
    /\ worker \in [Workers -> Reconciles]
    /\ \A w \in Workers : At(w, "idle") \/ worker[w].rv \in 1..listerRv
    /\ reserved \subseteq Pods
    /\ sched \in Cycles
    /\ bind \in [Pods -> {"none", "binding", "lost"}]
    /\ disturbances \in 0..MaxDisturbances
    /\ faults \subseteq AllDisturbances \cup {"conflict", "staleRead"}

\* What a pod holds of the threshold: it is bound and live, or being bound.
Holds(p) == IsLive(apiPod[p]) \/ (bind[p] = "binding" /\ apiPod[p] = {})

InFlight == {p \in Pods : bind[p] = "binding"}

(* A pod stays reserved until the API server has bound it or the binding   *)
(* has failed: no reconcile and no handler takes a reservation away before *)
(* the pod can be counted (unreserveAffectedPods, DeleteFunc).             *)
InFlightIsReserved == InFlight \subseteq reserved

\* No UpdateStatus has failed, no answer was lost, there was no restart.
Healthy == faults \subseteq {"staleRead"}

(* Every pod that holds resources is in one of the two ledgers the         *)
(* scheduler adds up, the status of the lister's object or the             *)
(* reservations, however late the watch events are.                        *)
Accounted ==
    Healthy =>
        \E C \in SUBSET Pods :
            /\ object[listerRv] = Used(C)
            /\ \A p \in Pods : Holds(p) => p \in C \cup reserved

(* What throttles are for: the pods that hold resources never exceed the   *)
(* threshold, in any resource, whatever the watch delays and torn reads.   *)
NoOverAdmission ==
    faults = {} =>
        \A r \in DOMAIN Threshold :
            Quantity(Used({p \in Pods : Holds(p)}), r) <= Threshold[r]

\* Something will make a worker reconcile from the state the listers have now.
ReconcilePending ==
    \/ queue.dirty \cup queue.waiting # {}
    \/ handledRv < listerRv
    \/ podHandled # podLister
    \/ \E w \in Workers : At(w, "list")

(* No update is lost: while the status in the lister is not the sum of the *)
(* pods in the lister, a reconcile is under way or still to come, after    *)
(* every failure and restart too (enqueue, AddRateLimited, the handlers).  *)
StatusRepairPending ==
    \/ object[listerRv] = Used(Live)
    \/ ReconcilePending
    \/ \E w \in Workers : At(w, "compare") /\ worker[w].rv = listerRv

(* No reservation is leaked: one that is still there when the lister has   *)
(* the pod bound will be removed by a reconcile that is under way or still *)
(* to come; terminated pods too, as the comment in unreserveAffectedPods   *)
(* promises.                                                               *)
ReservationsDrain ==
    \A p \in reserved : IsScheduled(podLister[p]) =>
        ReconcilePending \/ \E w \in Workers : p \in worker[w].todo

\* Worker w goes on to unreserveAffectedPods, and its status is not stored.
UnreservesTooEarly(w) ==
    /\ worker[w].pc \in {"compare", "update"}
    /\ worker'[w].pc = "unreserve"
    /\ apiUsed' # NewUsed(w)

(* "Once status is updated, affected pods is safe to un-reserve": a worker *)
(* that goes on to remove reservations finds the API server holding the    *)
(* status that counts them.                                                *)
UnreserveAfterStatusUpdate == [][\A w \in Workers : ~UnreservesTooEarly(w)]_vars

(* The same, as long as no UpdateStatus has failed, no answer was lost and *)
(* the process has not been restarted.                                     *)
UnreserveAfterStatusUpdateUnlessFailed ==
    [][Healthy => \A w \in Workers : ~UnreservesTooEarly(w)]_vars

(* The status the scheduler reads ends up as the sum of the live pods, and *)
(* stays so.                                                               *)
StatusConverges == <>[](object[listerRv] = Used({p \in Pods : IsLive(apiPod[p])}))

\* So does the status users see.
ApiStatusConverges == <>[](apiUsed = Used({p \in Pods : IsLive(apiPod[p])}))
=============================================================================

--------------------------- MODULE SchedulingQueue --------------------------
(***************************************************************************)
(* Which events make the scheduler try again a pod that PreFilter refused: *)
(*   pkg/scheduler_plugin/plugin.go: EventsToRegister, PreFilter           *)
(*   pkg/controllers/throttle_controller.go: reconcile, the update of the  *)
(*   status and then unreserveAffectedPods; the handlers of pods           *)
(*                                                                         *)
(* One throttle that counts pods, its updates without conflicts, its       *)
(* reconcile in two steps, and the queues of kube-scheduler as far as the  *)
(* plugin depends on them: a refused pod is parked until an event of a     *)
(* registered kind, or until it has been parked for five minutes.  Two     *)
(* informers watch the pods, the scheduler's and the plugin's, and either  *)
(* may be ahead of the other.  The room is what a binding cycle, a running *)
(* pod or a late reconcile takes of it.                                    *)
(***************************************************************************)
EXTENDS Naturals, FiniteSets

CONSTANTS
    Pods,
    Limits    \* what users set spec.threshold.resourceCounts.pod to

ASSUME PodsAssumption == IsFiniteSet(Pods)
ASSUME LimitsAssumption == Limits \subseteq Nat /\ Limits # {}

VARIABLES
    phase,      \* where each pod is, in the scheduler's queues and in the API server
    unheard,    \* pods whose deletion the scheduler's informer has still to hear of
    lister,     \* each pod as the plugin's informer has it
    told,       \* ... and as its handlers were told last
    limit,      \* of the spec
    calculated, \* ... as status.calculatedThreshold has it
    used,       \* the pods status.used counts
    reserved,   \* the reservation cache
    dirty,      \* the throttle is in the work queue
    worker,     \* the pods a reconcile has counted and is about to un-reserve
    announced,  \* an update of the throttle is on its way to the scheduler
    missed      \* history: parked pods that an un-reserve made room for

podVars == <<unheard, lister, told>>
vars == <<phase, podVars, limit, calculated, used, reserved, dirty, worker, announced, missed>>

In(s) == {p \in Pods : phase[p] = s}

Init ==
    /\ phase = [p \in Pods |-> "queued"]
    /\ unheard = {}
    /\ lister = [p \in Pods |-> "pending"] /\ told = lister
    /\ limit \in Limits /\ calculated = limit
    /\ used = {} /\ reserved = {} /\ dirty = FALSE
    /\ worker = [busy |-> FALSE, todo |-> {}]
    /\ announced = FALSE
    /\ missed = {}

\* A mutant: the kinds of a plugin that knows no throttles.
EventsToRegister_NoThrottles == {"node", "pod"}

EventsToRegister == {"node", "pod", "throttle", "clusterthrottle"}

\* An event of this kind moves the parked pods to the active queue.
Woken(kind) ==
    IF kind \in EventsToRegister
    THEN [p \in Pods |-> IF phase[p] = "parked" THEN "queued" ELSE phase[p]]
    ELSE phase

PassesWith(held) == Cardinality(used) + Cardinality(held) + 1 <= calculated
Passes == PassesWith(reserved)

\* UnReserve and UnReserveOnThrottle: no event of any kind.
Drop(pods) ==
    /\ reserved' = reserved \ pods
    /\ missed' = IF ~Passes /\ PassesWith(reserved \ pods) THEN missed \cup In("parked") ELSE missed

-----------------------------------------------------------------------------
(* PreFilter, and Reserve when it lets the pod pass.  An event that comes  *)
(* while a pod is tried sends it back to the queue: no event is lost.      *)
Schedule(p) ==
    /\ phase[p] = "queued"
    /\ IF Passes
       THEN reserved' = reserved \cup {p} /\ phase' = [phase EXCEPT ![p] = "binding"]
       ELSE phase' = [phase EXCEPT ![p] = "parked"] /\ UNCHANGED reserved
    /\ missed' = missed \ {p}
    /\ UNCHANGED <<podVars, limit, calculated, used, dirty, worker, announced>>

BindSucceeds(p) ==
    /\ phase[p] = "binding"
    /\ phase' = [phase EXCEPT ![p] = "running"]
    /\ UNCHANGED <<podVars, limit, calculated, used, reserved, dirty, worker, announced, missed>>

(* Unreserve; then the scheduler forgets the pod, which counts as the      *)
(* deletion of a pod, and tries it again.                                  *)
BindFails(p) ==
    /\ phase[p] = "binding"
    /\ reserved' = reserved \ {p}
    /\ phase' = [Woken("pod") EXCEPT ![p] = "queued"]
    /\ UNCHANGED <<podVars, limit, calculated, used, dirty, worker, announced, missed>>

\* A running pod is deleted.
PodEnds(p) ==
    /\ phase[p] = "running"
    /\ phase' = [phase EXCEPT ![p] = "gone"]
    /\ unheard' = unheard \cup {p}
    /\ UNCHANGED <<lister, told, limit, calculated, used, reserved, dirty, worker, announced, missed>>

\* The scheduler's own pod informer.
DeletionSeen(p) ==
    /\ p \in unheard
    /\ unheard' = unheard \ {p}
    /\ phase' = Woken("pod")
    /\ UNCHANGED <<lister, told, limit, calculated, used, reserved, dirty, worker, announced, missed>>

\* A pod as the API server has it, and what an informer hears next of it.
State(p) == IF phase[p] = "running" THEN "bound"
            ELSE IF phase[p] = "gone" THEN "deleted" ELSE "pending"
Following(state) == IF state = "pending" THEN "bound" ELSE "deleted"

\* The plugin's pod informer: first its store ...
ListerSees(p) ==
    /\ lister[p] # State(p)
    /\ lister' = [lister EXCEPT ![p] = Following(@)]
    /\ UNCHANGED <<phase, unheard, told, limit, calculated, used, reserved, dirty, worker,
                   announced, missed>>

(* ... then the handlers: UpdateFunc of a bound pod enqueues the throttle, *)
(* DeleteFunc un-reserves the pod first.                                   *)
HandlePod(p) ==
    /\ told[p] # lister[p]
    /\ told' = [told EXCEPT ![p] = Following(@)]
    /\ dirty' = TRUE
    /\ IF told'[p] = "deleted" THEN Drop({p}) ELSE UNCHANGED <<reserved, missed>>
    /\ UNCHANGED <<phase, unheard, lister, limit, calculated, used, worker, announced>>

\* The pods a reconcile lists.
Listed == {p \in Pods : lister[p] = "bound"}

(* A user edits the threshold: an update of the throttle, too.  The lister *)
(* has it at once, as a reconcile of the object before meets a conflict.   *)
EditThreshold ==
    /\ limit' \in Limits \ {limit}
    /\ dirty' = TRUE
    /\ announced' = TRUE
    /\ UNCHANGED <<phase, podVars, calculated, used, reserved, worker, missed>>

\* A mutant: the status is not updated when it counts less.
UpdateStatus_OnlyMore ==
    /\ dirty /\ ~worker.busy
    /\ dirty' = FALSE
    /\ worker' = [busy |-> TRUE, todo |-> Listed]
    /\ used' = used \cup Listed
    /\ calculated' = limit
    /\ announced' = (announced \/ <<used, calculated>>' # <<used, calculated>>)
    /\ UNCHANGED <<phase, podVars, limit, reserved, missed>>

\* The first half of reconcile.
UpdateStatus ==
    /\ dirty /\ ~worker.busy
    /\ dirty' = FALSE
    /\ worker' = [busy |-> TRUE, todo |-> Listed]
    /\ used' = Listed
    /\ calculated' = limit
    /\ announced' = (announced \/ <<used, calculated>>' # <<used, calculated>>)
    /\ UNCHANGED <<phase, podVars, limit, reserved, missed>>

\* The second half.
UnreserveAffectedPods ==
    /\ worker.busy
    /\ worker' = [busy |-> FALSE, todo |-> {}]
    /\ Drop(worker.todo)
    /\ UNCHANGED <<phase, podVars, limit, calculated, used, dirty, announced>>

\* The scheduler's own informer sees the update of the throttle.
StatusSeen ==
    /\ announced
    /\ announced' = FALSE
    /\ phase' = Woken("throttle")
    /\ UNCHANGED <<podVars, limit, calculated, used, reserved, dirty, worker, missed>>

\* A pod has been parked for five minutes.
Flush(p) ==
    /\ phase[p] = "parked"
    /\ phase' = [phase EXCEPT ![p] = "queued"]
    /\ UNCHANGED <<podVars, limit, calculated, used, reserved, dirty, worker, announced, missed>>

Next ==
    \/ \E p \in Pods :
        \/ Schedule(p) \/ BindSucceeds(p) \/ BindFails(p) \/ PodEnds(p) \/ Flush(p)
        \/ DeletionSeen(p) \/ ListerSees(p) \/ HandlePod(p)
    \/ EditThreshold \/ UpdateStatus \/ UnreserveAffectedPods \/ StatusSeen

Spec == Init /\ [][Next]_vars

(* The scheduler takes every pod of its queue in turn, and its flush is a  *)
(* timer; goroutines run, informers too.  Nothing is assumed of bindings   *)
(* and pods.                                                               *)
FairSpec ==
    /\ Spec
    /\ \A p \in Pods : WF_vars(Schedule(p)) /\ WF_vars(Flush(p))
                      /\ WF_vars(DeletionSeen(p)) /\ WF_vars(ListerSees(p)) /\ WF_vars(HandlePod(p))
    /\ WF_vars(UpdateStatus) /\ WF_vars(UnreserveAffectedPods) /\ WF_vars(StatusSeen)

-----------------------------------------------------------------------------
\* There is room for one more pod.
Room == Cardinality(In("binding") \cup In("running")) < limit

(* A parked pod that PreFilter would let pass now is about to be woken,    *)
(* whatever made room for it: a status that counts less, a threshold, a    *)
(* binding that failed.  The exception is an un-reserve without the        *)
(* scheduler's knowledge: by a reconcile, after the status update that     *)
(* woke the pod, so that in between the same pods were counted twice; and  *)
(* by DeleteFunc, when the scheduler heard of the deletion before.         *)
WokenWhenItPasses ==
    \A p \in In("parked") : Passes => announced \/ p \in missed

(* "Throttle will open": no pod stays pending for ever while there is room *)
(* for it under a threshold that has stopped changing, with the five       *)
(* minutes of the scheduler behind the events.                             *)
ThrottleOpens ==
    \A p \in Pods, l \in Limits :
        ~<>[](phase[p] \in {"queued", "parked"} /\ limit = l /\ Room)
=============================================================================

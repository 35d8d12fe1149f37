------------------------- MODULE ThrottleAssignment -------------------------
(***************************************************************************)
(* Which throttles a pod is reserved on and counted by while labels,       *)
(* selectors and throttles change:                                         *)
(*   pkg/scheduler_plugin/plugin.go: PreFilter, Reserve, Unreserve         *)
(*   pkg/controllers/throttle_controller.go, clusterthrottle_controller.go:*)
(*     affectedThrottles, affectedPods, Reserve, UnReserve, the handlers   *)
(*   pkg/controllers/reserved_resource_amounts.go:                         *)
(*     moveThrottleAssignmentForPods                                       *)
(*                                                                         *)
(* Several throttles of both kinds, pods of one namespace.  Amounts are    *)
(* left out: a status is the set of pods it counts, and whether PreFilter  *)
(* finds room is left open.  ThrottleController has the amounts and, for   *)
(* one throttle, the steps of a reconcile, its failed updates and the two  *)
(* keys of a ClusterThrottle; here a reconcile has two steps, the listing  *)
(* of the pods and the rest, and a throttle has one key.                   *)
(***************************************************************************)
EXTENDS Selectors, WorkQueue, FiniteSets, Functions

CONSTANTS
    Pods,             \* names of pods
    Incarnations,     \* 1..n: the pods that may bear one name, in turn
    Throttles,        \* names of throttles
    Kind,             \* the kind of each throttle: the controller it belongs to
    PodLabels,        \* the labels a pod may have
    NamespaceLabels,  \* the labels the namespace may have
    InitialLabels,    \* of each pod
    InitialNamespace, \* labels of the namespace
    InitialSelector,  \* of each throttle
    EditedSelectors,  \* what a user may replace it by
    Changes,          \* what users do, beside creating and deleting pods
    MaxChanges        \* bound: how often they do in a behaviour

Controllers == {Kind[t] : t \in Throttles}
Of(c) == {t \in Throttles : Kind[t] = c}

AllChanges == {"relabelPending", "relabelBound", "recreatePod", "relabelNamespace",
               "editSelector", "breakSelector", "editThrottlerName", "deleteThrottle"}

ASSUME KindAssumption == Kind \in [Throttles -> {"Throttle", "ClusterThrottle"}]
ASSUME ChangesAssumption == Changes \subseteq AllChanges /\ MaxChanges \in Nat
ASSUME IncarnationsAssumption == 1 \in Incarnations
ASSUME LabelsAssumption ==
    InitialLabels \in [Pods -> PodLabels] /\ InitialNamespace \in NamespaceLabels

TermSequences == Seq([pods : LabelSelectors(PodLabels), namespaces : LabelSelectors(NamespaceLabels)])
IsValid(selector) ==
    \A i \in DOMAIN selector : selector[i].pods.valid /\ selector[i].namespaces.valid

\* Breaking a selector is one of the changes.
ASSUME SelectorsAssumption ==
    \A t \in Throttles :
        /\ InitialSelector[t] \in TermSequences /\ IsValid(InitialSelector[t])
        /\ EditedSelectors[t] \subseteq TermSequences

VARIABLES
    apiPod,      \* the last pod of each name in the API server
    podLister,   \* ... as the pod lister has it
    told,        \* ... as the handlers of each controller were told last
    notices,     \* what they are still to be told, in order
    namespace,   \* the labels of the namespace
    thr,         \* the throttle object of each name, in the API server and lister
    thrNotices,  \* throttles whose handler has still to be called
    counted,     \* the pods in status.used of each throttle
    queue,       \* the work queues of both controllers
    worker,      \* the reconcile at work on each throttle
    reserved,    \* the reservation caches: pods, by throttle
    cycle,       \* scheduling and binding cycle of each pod
    changes,     \* how many changes there were
    disturbed    \* history: the controllers a change concerned, and its kind

podVars == <<apiPod, podLister, told, notices>>
thrVars == <<namespace, thr, thrNotices>>
vars == <<podVars, thrVars, counted, queue, worker, reserved, cycle, changes, disturbed>>

-----------------------------------------------------------------------------
\* isScheduled; with the scheduler's name, which never changes: shouldCountIn
ShouldCountIn(pod) == pod.stage \in {"bound", "finished"}

IsLive(pod) == pod.stage = "bound" /\ ~pod.deleted

\* What the throttle's selector says of a pod with these labels.
Answer(t, labels) ==
    IF Kind[t] = "ClusterThrottle"
    THEN ClusterMatchesToPod(thr[t].selector, labels, namespace)
    ELSE MatchesToPod(thr[t].selector, labels)

\* The throttles in the lister that isResponsibleFor accepts.
Responsible(c) == {t \in Of(c) : thr[t].exists /\ thr[t].responsible}

(* affectedThrottles: one invalid selector, of whatever throttle, is an    *)
(* error for every pod.                                                    *)
AffectedFails(c, labels) == \E t \in Responsible(c) : Answer(t, labels) = "error"
AffectedThrottles(c, labels) == {t \in Responsible(c) : Answer(t, labels) = "yes"}

\* A mutant: what others have reserved is forgotten.
AddPod_OnlyAffected(p, throttles) ==
    [t \in throttles |-> reserved[t] \cup {p}]

\* ReserveOnThrottle and UnReserveOnThrottle for each of these throttles.
AddPod(p, throttles) ==
    [t \in Throttles |-> IF t \in throttles THEN reserved[t] \cup {p} ELSE reserved[t]]

RemovePod(p, throttles) ==
    [t \in Throttles |-> IF t \in throttles THEN reserved[t] \ {p} ELSE reserved[t]]

EnqueueAll(throttles) == [queue EXCEPT !.dirty = @ \cup throttles]

-----------------------------------------------------------------------------
NoCycle == [pc |-> "idle", labels |-> "none"]
NoReconcile == [busy |-> FALSE, rv |-> 0, live |-> {}, terminated |-> {}]

Init ==
    /\ apiPod = [p \in Pods |-> [stage |-> "pending", labels |-> InitialLabels[p],
                                 deleted |-> FALSE, uid |-> 1]]
    /\ podLister = apiPod
    /\ told = [c \in Controllers |-> apiPod]
    /\ notices = [c \in Controllers |-> [p \in Pods |-> <<>>]]
    /\ namespace = InitialNamespace
    /\ thr = [t \in Throttles |-> [exists |-> TRUE, responsible |-> TRUE, rv |-> 0,
                                   selector |-> InitialSelector[t]]]
    /\ thrNotices = {}
    /\ counted = [t \in Throttles |-> {}]
    /\ queue = EmptyQueue
    /\ worker = [t \in Throttles |-> NoReconcile]
    /\ reserved = [t \in Throttles |-> {}]
    /\ cycle = [p \in Pods |-> [i \in Incarnations |-> NoCycle]]
    /\ changes = 0
    /\ disturbed = {}

-----------------------------------------------------------------------------
(* The plugin.  It is handed the scheduler's own copy of the pod, the same *)
(* in all the calls of one cycle.                                          *)

Cycle(p, i, state) == cycle' = [cycle EXCEPT ![p][i] = state]

(* CheckThrottled of both controllers: an error keeps the pod out, and so  *)
(* may a throttle.  One pod at a time is between PreFilter and Reserve.    *)
PreFilter(p) ==
    LET pod == apiPod[p] IN
    /\ pod.stage = "pending" /\ ~pod.deleted
    /\ cycle[p][pod.uid].pc = "idle"
    /\ \A q \in Pods, i \in Incarnations : cycle[q][i].pc # "checked"
    /\ \A c \in Controllers : ~AffectedFails(c, pod.labels)
    /\ Cycle(p, pod.uid, [pc |-> "checked", labels |-> pod.labels])
    /\ UNCHANGED <<podVars, thrVars, counted, queue, worker, reserved, changes, disturbed>>

\* No node fits.
Abandon(p, i) ==
    /\ cycle[p][i].pc = "checked"
    /\ Cycle(p, i, NoCycle)
    /\ UNCHANGED <<podVars, thrVars, counted, queue, worker, reserved, changes, disturbed>>

(* Both controllers are asked, whatever the first one answers; with an     *)
(* error of either the framework goes on to Unreserve.                     *)
Reserve(p, i) ==
    LET labels == cycle[p][i].labels
        failing == {c \in Controllers : AffectedFails(c, labels)}
    IN /\ cycle[p][i].pc = "checked"
       /\ reserved' = AddPod(p, UNION {AffectedThrottles(c, labels)
                                        : c \in Controllers \ failing})
       /\ Cycle(p, i, [cycle[p][i] EXCEPT !.pc = IF failing = {} THEN "reserved" ELSE "failed"])
       /\ UNCHANGED <<podVars, thrVars, counted, queue, worker, changes, disturbed>>

\* A mutant: the second controller is not asked when the first one fails.
Unreserve_ReturnOnError(p, i) ==
    LET labels == cycle[p][i].labels
        failing == {c \in Controllers : AffectedFails(c, labels)}
    IN /\ cycle[p][i].pc \in {"reserved", "failed"}
       /\ reserved' = IF failing # {} THEN reserved
                      ELSE RemovePod(p, UNION {AffectedThrottles(c, labels) : c \in Controllers})
       /\ Cycle(p, i, NoCycle)
       /\ UNCHANGED <<podVars, thrVars, counted, queue, worker, changes, disturbed>>

(* Unreserve after a failed Reserve or a failed binding.  An error is      *)
(* logged, and the pod stays reserved.                                     *)
Unreserve(p, i) ==
    LET labels == cycle[p][i].labels
        failing == {c \in Controllers : AffectedFails(c, labels)}
    IN /\ cycle[p][i].pc \in {"reserved", "failed"}
       /\ reserved' = RemovePod(p, UNION {AffectedThrottles(c, labels)
                                           : c \in Controllers \ failing})
       /\ Cycle(p, i, NoCycle)
       /\ UNCHANGED <<podVars, thrVars, counted, queue, worker, changes, disturbed>>

\* The binding names the uid: it cannot hit a later pod of that name.
BindSucceeds(p, i) ==
    /\ cycle[p][i].pc = "reserved"
    /\ apiPod[p].uid = i /\ apiPod[p].stage = "pending" /\ ~apiPod[p].deleted
    /\ apiPod' = [apiPod EXCEPT ![p].stage = "bound"]
    /\ Cycle(p, i, NoCycle)
    /\ UNCHANGED <<podLister, told, notices, thrVars, counted, queue, worker, reserved,
                   changes, disturbed>>

Schedule ==
    \E p \in Pods :
        \/ PreFilter(p)
        \/ \E i \in Incarnations :
            Abandon(p, i) \/ Reserve(p, i) \/ Unreserve(p, i) \/ BindSucceeds(p, i)

-----------------------------------------------------------------------------
(* The informers and their handlers.                                       *)

(* The lister takes the pod as the API server has it, and every handler    *)
(* will be told.  When the watch was interrupted the changes in between    *)
(* are merged into one update; a deletion is an event of its own, and      *)
(* lost only to a new pod of that name.                                    *)
DeliverPod(p) ==
    LET next == IF apiPod[p].deleted /\ podLister[p] # [apiPod[p] EXCEPT !.deleted = FALSE]
                THEN [apiPod[p] EXCEPT !.deleted = FALSE]
                ELSE apiPod[p]
    IN /\ podLister[p] # apiPod[p]
       /\ podLister' = [podLister EXCEPT ![p] = next]
       /\ notices' = [c \in Controllers |-> [notices[c] EXCEPT ![p] = Append(@, next)]]
       /\ UNCHANGED <<apiPod, told, thrVars, counted, queue, worker, reserved, cycle,
                      changes, disturbed>>

Told(c, p) ==
    /\ notices[c][p] # <<>>
    /\ told' = [told EXCEPT ![c][p] = Head(notices[c][p])]
    /\ notices' = [notices EXCEPT ![c][p] = Tail(@)]
    /\ UNCHANGED <<apiPod, podLister, thrVars, counted, worker, cycle, changes, disturbed>>

\* AddFunc: a name that was free before.
HandlePodAdded(c, p) ==
    LET pod == Head(notices[c][p]) IN
    /\ Told(c, p)
    /\ told[c][p].deleted
    /\ ~pod.deleted
    /\ queue' = IF ShouldCountIn(pod) /\ ~AffectedFails(c, pod.labels)
                THEN EnqueueAll(AffectedThrottles(c, pod.labels)) ELSE queue
    /\ UNCHANGED reserved

\* A mutant: a pod that does not count now is passed over.
HandlePodUpdated_NewCounts(c, p) ==
    LET old == told[c][p]
        new == Head(notices[c][p])
    IN /\ Told(c, p)
       /\ ~old.deleted /\ ~new.deleted
       /\ queue' = IF ShouldCountIn(new)
                   THEN EnqueueAll(AffectedThrottles(c, old.labels) \cup AffectedThrottles(c, new.labels))
                   ELSE queue
       /\ UNCHANGED reserved

\* A mutant: the throttles of the new labels alone are reconciled, and nothing is moved.
HandlePodUpdated_NoMove(c, p) ==
    LET old == told[c][p]
        new == Head(notices[c][p])
    IN /\ Told(c, p)
       /\ ~old.deleted /\ ~new.deleted
       /\ queue' = IF ShouldCountIn(new) THEN EnqueueAll(AffectedThrottles(c, new.labels))
                   ELSE queue
       /\ UNCHANGED reserved

(* UpdateFunc: the throttles that only the old or only the new labels      *)
(* select have the reservation moved, and all of them are reconciled.      *)
HandlePodUpdated(c, p) ==
    LET old     == told[c][p]
        new     == Head(notices[c][p])
        ignored == \/ ~ShouldCountIn(old) /\ ~ShouldCountIn(new)
                   \/ AffectedFails(c, old.labels)
                   \/ AffectedFails(c, new.labels)
        forOld  == AffectedThrottles(c, old.labels)
        forNew  == AffectedThrottles(c, new.labels)
    IN /\ Told(c, p)
       /\ ~old.deleted /\ ~new.deleted
       /\ IF ignored THEN UNCHANGED <<queue, reserved>>
          ELSE /\ queue' = EnqueueAll(forOld \cup forNew)
               /\ reserved' = [t \in Throttles |->
                                 IF t \in forOld \ forNew THEN reserved[t] \ {p}
                                 ELSE IF t \in forNew \ forOld THEN reserved[t] \cup {p}
                                 ELSE reserved[t]]

\* A mutant: the throttles are reconciled, the reservation stays.
HandlePodDeleted_NoUnreserve(c, p) ==
    LET pod == Head(notices[c][p]) IN
    /\ Told(c, p)
    /\ pod.deleted
    /\ queue' = IF ShouldCountIn(pod) /\ ~AffectedFails(c, pod.labels)
                THEN EnqueueAll(AffectedThrottles(c, pod.labels)) ELSE queue
    /\ UNCHANGED reserved

\* DeleteFunc: UnReserve, and a reconcile of the throttles.
HandlePodDeleted(c, p) ==
    LET pod == Head(notices[c][p]) IN
    /\ Told(c, p)
    /\ pod.deleted
    /\ IF ShouldCountIn(pod) /\ ~AffectedFails(c, pod.labels)
       THEN /\ queue' = EnqueueAll(AffectedThrottles(c, pod.labels))
            /\ reserved' = RemovePod(p, AffectedThrottles(c, pod.labels))
       ELSE UNCHANGED <<queue, reserved>>

HandlePod(c, p) == HandlePodAdded(c, p) \/ HandlePodUpdated(c, p) \/ HandlePodDeleted(c, p)

\* AddFunc, UpdateFunc and DeleteFunc of the throttle informers.
HandleThrottle(t) ==
    /\ t \in thrNotices
    /\ thrNotices' = thrNotices \ {t}
    /\ queue' = Enqueue(queue, t)
    /\ UNCHANGED <<podVars, namespace, thr, counted, worker, reserved, cycle, changes, disturbed>>

\* A mutant: an update that changes nothing is passed over.
Resync_SkipsUnchanged(t) ==
    /\ t \in Responsible(Kind[t])
    /\ UNCHANGED vars

\* The resync of the throttle informers: an update of what they hold.
Resync(t) ==
    /\ t \in Responsible(Kind[t])
    /\ queue' = Enqueue(queue, t)
    /\ UNCHANGED <<podVars, thrVars, counted, worker, reserved, cycle, changes, disturbed>>

-----------------------------------------------------------------------------
(* reconcile.                                                              *)

(* affectedPods: the pods that count.  The ClusterThrottle asks the pods   *)
(* of matching namespaces only.                                            *)
Countable(t) ==
    {p \in Pods :
        /\ ShouldCountIn(podLister[p]) /\ ~podLister[p].deleted
        /\ Kind[t] = "ClusterThrottle"
             => ClusterMatchesToNamespace(thr[t].selector, namespace) = "yes"}

Counts(t, stage) ==
    {p \in Countable(t) :
        podLister[p].stage = stage /\ Answer(t, podLister[p].labels) = "yes"}

\* The Throttle's affectedPods keeps one terminated pod, see ThrottleController.
Terminated(t) ==
    LET finished == Counts(t, "finished") IN
    IF Kind[t] = "ClusterThrottle" \/ finished = {} THEN {finished}
    ELSE {{p} : p \in finished}

Retry(t) == queue' = Done(AddRateLimited(queue, t), t)

(* From the queue to the list of pods.  A throttle that is gone needs      *)
(* nothing; an invalid selector is an error when there is a pod to ask.    *)
StartReconcile(t) ==
    /\ t \in Ready(queue)
    /\ IF ~thr[t].exists
       THEN queue' = Done(Take(queue, t), t) /\ UNCHANGED worker
       ELSE IF \E p \in Countable(t) : Answer(t, podLister[p].labels) = "error"
       THEN queue' = AddRateLimited(Done(Take(queue, t), t), t) /\ UNCHANGED worker
       ELSE /\ queue' = Take(queue, t)
            /\ \E terminated \in Terminated(t) :
                worker' = [worker EXCEPT ![t] =
                    [busy |-> TRUE, rv |-> thr[t].rv, live |-> Counts(t, "bound"),
                     terminated |-> terminated]]
    /\ UNCHANGED <<podVars, thrVars, counted, reserved, cycle, changes, disturbed>>

(* The status is updated, unless it is up to date or the update conflicts  *)
(* with an edit; then the pods are un-reserved.                            *)
FinishReconcile(t) ==
    LET w == worker[t]
        current == thr[t].exists /\ thr[t].rv = w.rv
    IN /\ w.busy
       /\ worker' = [worker EXCEPT ![t] = NoReconcile]
       /\ IF w.live # counted[t] /\ ~current
          THEN Retry(t) /\ UNCHANGED <<counted, reserved>>
          ELSE /\ queue' = Done(queue, t)
               /\ counted' = [counted EXCEPT ![t] = IF current THEN w.live ELSE @]
               /\ reserved' = [reserved EXCEPT ![t] = @ \ (w.live \cup w.terminated)]
       /\ UNCHANGED <<podVars, thrVars, cycle, changes, disturbed>>

RetryExpires(t) ==
    /\ t \in queue.waiting
    /\ queue' = Expire(queue, t)
    /\ UNCHANGED <<podVars, thrVars, counted, worker, reserved, cycle, changes, disturbed>>

Reconcile(t) == StartReconcile(t) \/ FinishReconcile(t)

-----------------------------------------------------------------------------
(* Users and the cluster.                                                  *)

PodFinishes(p) ==
    /\ IsLive(apiPod[p])
    /\ apiPod' = [apiPod EXCEPT ![p].stage = "finished"]
    /\ UNCHANGED <<podLister, told, notices, thrVars, counted, queue, worker, reserved, cycle,
                   changes, disturbed>>

PodDeleted(p) ==
    /\ ~apiPod[p].deleted
    /\ apiPod' = [apiPod EXCEPT ![p].deleted = TRUE]
    /\ UNCHANGED <<podLister, told, notices, thrVars, counted, queue, worker, reserved, cycle,
                   changes, disturbed>>

Change(kind, controllers) ==
    /\ kind \in Changes
    /\ changes < MaxChanges
    /\ changes' = changes + 1
    /\ disturbed' = disturbed \cup (controllers \X {kind})

Relabel(p) ==
    /\ ~apiPod[p].deleted
    /\ IF apiPod[p].stage = "pending" THEN Change("relabelPending", Controllers)
                                      ELSE Change("relabelBound", {})
    /\ \E l \in PodLabels \ {apiPod[p].labels} : apiPod' = [apiPod EXCEPT ![p].labels = l]
    /\ UNCHANGED <<podLister, told, notices, thrVars, counted, queue, worker, reserved, cycle>>

(* A StatefulSet creates a pod of that name again.  To bound the model     *)
(* nothing else is changed in such a behaviour.                            *)
RecreatePod(p) ==
    /\ "recreatePod" \in Changes
    /\ changes = 0
    /\ changes' = MaxChanges
    /\ disturbed' = Controllers \X {"recreatePod"}
    /\ apiPod[p].deleted
    /\ apiPod[p].uid + 1 \in Incarnations
    /\ apiPod' = [apiPod EXCEPT ![p].stage = "pending", ![p].deleted = FALSE, ![p].uid = @ + 1]
    /\ UNCHANGED <<podLister, told, notices, thrVars, counted, queue, worker, reserved, cycle>>

\* The namespace informer has no handlers.
RelabelNamespace ==
    /\ Change("relabelNamespace", {"ClusterThrottle"} \cap Controllers)
    /\ namespace' \in NamespaceLabels \ {namespace}
    /\ UNCHANGED <<podVars, thr, thrNotices, counted, queue, worker, reserved, cycle>>

(* The lister has the new object at once (ThrottleController has the       *)
(* delay); the handlers pass over an object that is not theirs.            *)
PutThrottle(t, object) ==
    /\ thr' = [thr EXCEPT ![t] = [object EXCEPT !.rv = @ + 1]]
    /\ thrNotices' = IF object.responsible THEN thrNotices \cup {t} ELSE thrNotices
    /\ UNCHANGED <<podVars, namespace, queue, worker, reserved, cycle>>

\* What a user changes and changes back is counted once.
ChangeBack == UNCHANGED <<changes, disturbed>>

EditSelector(t) ==
    /\ thr[t].exists
    /\ \E s \in EditedSelectors[t] \ {thr[t].selector} :
        /\ IF ~IsValid(s) THEN Change("breakSelector", {Kind[t]})
           ELSE IF ~IsValid(thr[t].selector) THEN ChangeBack
           ELSE Change("editSelector", {Kind[t]})
        /\ PutThrottle(t, [thr[t] EXCEPT !.selector = s])
    /\ UNCHANGED counted

\* The throttle is given to another throttler, or back.
EditThrottlerName(t) ==
    /\ thr[t].exists
    /\ IF thr[t].responsible THEN Change("editThrottlerName", {Kind[t]}) ELSE ChangeBack
    /\ PutThrottle(t, [thr[t] EXCEPT !.responsible = ~@])
    /\ UNCHANGED counted

DeleteThrottle(t) ==
    /\ thr[t].exists
    /\ Change("deleteThrottle", {Kind[t]})
    /\ PutThrottle(t, [thr[t] EXCEPT !.exists = FALSE])
    /\ UNCHANGED counted

\* Without a status.
CreateThrottle(t) ==
    /\ ~thr[t].exists
    /\ ChangeBack
    /\ PutThrottle(t, [thr[t] EXCEPT !.exists = TRUE])
    /\ counted' = [counted EXCEPT ![t] = {}]

Environment ==
    \/ \E p \in Pods : PodFinishes(p) \/ PodDeleted(p) \/ Relabel(p) \/ RecreatePod(p)
    \/ RelabelNamespace
    \/ \E t \in Throttles : \/ EditSelector(t) \/ EditThrottlerName(t)
                            \/ DeleteThrottle(t) \/ CreateThrottle(t)

-----------------------------------------------------------------------------
Next ==
    \/ Schedule
    \/ \E p \in Pods : DeliverPod(p) \/ \E c \in Controllers : HandlePod(c, p)
    \/ \E t \in Throttles :
        HandleThrottle(t) \/ Resync(t) \/ Reconcile(t) \/ RetryExpires(t)
    \/ Environment

Spec == Init /\ [][Next]_vars

(* Goroutines run, the resync timer too.  Nothing is assumed of the        *)
(* scheduler and the users.                                                *)
Fairness ==
    /\ \A p \in Pods : WF_vars(DeliverPod(p)) /\ \A c \in Controllers : WF_vars(HandlePod(c, p))
    /\ \A t \in Throttles :
        /\ WF_vars(HandleThrottle(t)) /\ WF_vars(Resync(t))
        /\ WF_vars(Reconcile(t)) /\ WF_vars(RetryExpires(t))

FairSpec == Spec /\ Fairness

-----------------------------------------------------------------------------
PodStates == [stage : {"pending", "bound", "finished"}, labels : PodLabels,
              deleted : BOOLEAN, uid : Incarnations]

TypeOK ==
    /\ apiPod \in [Pods -> PodStates]
    /\ podLister \in [Pods -> PodStates]
    /\ told \in [Controllers -> [Pods -> PodStates]]
    /\ \A c \in Controllers, p \in Pods : Range(notices[c][p]) \subseteq PodStates
    /\ namespace \in NamespaceLabels
    /\ \A t \in Throttles :
        /\ thr[t].exists \in BOOLEAN /\ thr[t].responsible \in BOOLEAN
        /\ thr[t].rv \in 0..(2 * MaxChanges)
        /\ thr[t].selector \in {InitialSelector[t]} \cup EditedSelectors[t]
        /\ worker[t] \in [busy : BOOLEAN, rv : 0..(2 * MaxChanges),
                          live : SUBSET Pods, terminated : SUBSET Pods]
    /\ thrNotices \subseteq Throttles
    /\ counted \in [Throttles -> SUBSET Pods]
    /\ queue \in Queues(Throttles)
    /\ reserved \in [Throttles -> SUBSET Pods]
    /\ cycle \in [Pods -> [Incarnations -> [pc     : {"idle", "checked", "reserved", "failed"},
                                            labels : PodLabels \cup {"none"}]]]
    /\ changes \in 0..MaxChanges
    /\ disturbed \subseteq Controllers \X AllChanges

-----------------------------------------------------------------------------
(* What is on its way is handled, for the throttles of one kind: handlers, *)
(* reconciles and scheduling cycles are through.                           *)
Quiet(c) ==
    /\ podLister = apiPod
    /\ \A p \in Pods : notices[c][p] = <<>> /\ \A i \in Incarnations : cycle[p][i] = NoCycle
    /\ Of(c) \cap (thrNotices \cup queue.dirty \cup queue.processing \cup queue.waiting) = {}

Live(t) == {p \in Pods : IsLive(apiPod[p]) /\ Answer(t, apiPod[p].labels) = "yes"}

\* Neither its throttles nor a pod in a cycle was changed, and no name was reused.
Undisturbed(c) == \A d \in disturbed : d[1] # c

(* Its handlers were told of every change, and could tell whom it concerns:*)
(* nobody tells them of the namespace, and they drop the events of pods    *)
(* while one of its throttles has an invalid selector.                     *)
Heard(c) == disturbed \cap {<<c, "relabelNamespace">>, <<c, "breakSelector">>} = {}

(* A pod that holds its place, in the scheduler or in the cluster, is in   *)
(* the status or in the reservation cache of every throttle that selects   *)
(* it, whatever label changes of bound pods, reconciles and updates of     *)
(* them are on their way; only between the lister's update and the handler *)
(* that moves the reservation it may be in neither.                        *)
Holds(p) ==
    \/ IsLive(apiPod[p])
    \/ ~apiPod[p].deleted /\ cycle[p][apiPod[p].uid].pc = "reserved"

Accounted ==
    \A c \in Controllers, p \in Pods :
        Undisturbed(c) /\ Holds(p) /\ notices[c][p] = <<>> =>
            \A t \in AffectedThrottles(c, podLister[p].labels) : p \in counted[t] \cup reserved[t]

(* Once a controller has caught up it holds no reservation: every failed   *)
(* binding, deletion, end and label change of a bound pod has released its *)
(* own, in every throttle, also while throttles of the other kind are      *)
(* edited and have invalid selectors.  The terminated pods the Throttle's  *)
(* affectedPods loses (run terminated_pods) are left out.                  *)
Lost(c) == IF c = "ClusterThrottle" THEN {}
           ELSE {p \in Pods : apiPod[p].stage = "finished" /\ ~apiPod[p].deleted}

DrainedWhenQuiet ==
    \A c \in Controllers :
        Undisturbed(c) /\ Quiet(c) => \A t \in Of(c) : reserved[t] \subseteq Lost(c)

(* Once a controller has caught up, the status of each of its throttles    *)
(* counts the live pods it selects and no others: a change of a pod's      *)
(* labels reaches the throttles that lose it and those that gain it, and a *)
(* change of a selector, of the throttler or of the throttle reaches the   *)
(* status although it may meet a reconcile half way.                       *)
CountedWhenQuiet ==
    \A c \in Controllers :
        Heard(c) /\ Quiet(c) => \A t \in Responsible(c) : counted[t] = Live(t)

(* With the informers' resync a status ends up right even after changes no *)
(* handler hears of (the labels of the namespace) and after events that    *)
(* were dropped because some selector was invalid.                         *)
CountsConverge ==
    \A t \in Throttles :
        <>[](\/ t \notin Responsible(Kind[t])
             \/ \E p \in Pods : Answer(t, podLister[p].labels) = "error"
             \/ counted[t] = Live(t))

=============================================================================

# kube-throttler in TLA+

kube-throttler is a kube-scheduler plugin that keeps the pods selected by a `Throttle`
(one namespace) or a `ClusterThrottle` (many) within a threshold. This directory holds a
specification of it: modules translated from the Go source, TLC configurations that check
them on small instances, and proofs TLAPS checks.

Paths below are relative to the repository; `tc` is `pkg/controllers/throttle_controller.go`,
`cc` is `pkg/controllers/clusterthrottle_controller.go`, `rra` is
`pkg/controllers/reserved_resource_amounts.go`.

## Inventory

| part | state | operations | talks to |
|---|---|---|---|
| scheduler plugin, `pkg/scheduler_plugin/plugin.go` | none of its own | `NewPlugin`, `PreFilter`, `Reserve`, `Unreserve`, `EventsToRegister` | called by kube-scheduler: one scheduling cycle at a time, one binding cycle per pod beside it; calls both controllers |
| Throttle controller, `tc`, `controller.go`, `pod_util.go` | work queue; the objects in the informers' stores | `reconcile`, `Reserve`, `UnReserve`, `CheckThrottled`, handlers of the throttle and pod informers | lists pods and throttles, writes status through the API server, un-reserves |
| ClusterThrottle controller, `cc` | the same | the same, with namespaces and their selectors | the same |
| reservation cache, `rra` | map throttle → pod → amount, an RWMutex and hashed key mutexes | `addPod`, `removePod`, `moveThrottleAssignmentForPods`, `reservedResourceAmount` | called by plugin, workers and handlers at the same time |
| throttle decision, `pkg/apis/schedule/v1alpha1/*_types.go`, `resource_amount.go` | none | `CheckThrottledFor`, `IsThrottled`, `IsThrottledFor`, `Add` | called by `PreFilter` and `reconcile` |
| threshold overrides, `throttle_types.go`, `temporary_threshold_override.go` | none; time | `CalculateThreshold`, `NextOverrideHappensIn`, `IsActive` | called by `reconcile`, which re-enqueues the key at the next boundary |
| selectors, `*_selector.go` | none | `MatchesToPod`, `MatchesToNamespace` | called by everything that maps pods to throttles |
| resource lists, `pkg/resourcelist` | none | `PodRequestResourceList`, `Add`, `Sub`, `SetMax`, `SetMin`, comparisons | what a pod requests |
| metrics, `metrics_recorder.go`, `*_metrics.go` | gauges | `recordThrottleMetrics` | called by `reconcile` |
| plugin arguments, commands, generated clients | | | |

What is hard about it:

* **Two ledgers.** A pod that holds resources is either in the reservations (from `Reserve`
  until a reconcile has counted it) or in `status.used`. It moves from one to the other in
  several steps: bind, watch event, handler, work queue, reconcile, `UpdateStatus`,
  un-reserve. The scheduler adds both up at any moment in between. At no moment may a pod be
  in neither.
* **No lock around them.** Workers, handlers, the scheduling cycle and the binding cycles
  interleave freely; the listers are behind the API server, the handlers behind the listers.
  `PreFilter` holds a pointer to an object the lister may replace and a worker may be writing.
* **Shared objects.** `reconcile` writes its status into the lister's own object (`tc:158`)
  and only then sends it.
* **Failures.** Conflicts and errors of `UpdateStatus`, bindings that fail or whose answer is
  lost, invalid selectors that make `Reserve` and `Unreserve` fail half way, a restart of the
  process that loses the reservations.
* **Changing assignment.** Labels, selectors, throttlers, namespaces and throttles change
  while all this is under way.
* **Locks.** The cache gives up its lock between looking up an entry and using it.
* **Time.** An override takes effect without any event but the wake-up the reconcile before
  it has ordered.
* **Waking.** A refused pod is tried again only when some event of a registered kind comes.
* **Boundaries.** `>` and `>=` in four comparisons of four different amounts, absent
  resources, requests of zero; instants at which overrides begin and end.

`PROJECT.json` lists the hazards, each at its line, with the properties about it.

## Modules

Ten modules are translated from the code, `Admission` and `Reservations` are abstract
specifications of it, the `MC...` modules are instances for TLC, and the `..._proofs` modules
hold the proofs.

```
ResourceAmount ──┬── ThrottleController ──┬── LedgerInvariants
   WorkQueue ────┤      │                 └── ThrottleAdmission ──▷ Admission
                 │      (one throttle, amounts, every step of a reconcile)
ResourceAmount ──── ThresholdOverrides ── OverrideSchedule    (time)
Selectors ──┬── ThrottleAssignment ── AssignmentInvariants    (several throttles, changes)
WorkQueue ──┘
ReservedResourceAmounts ──▷ Reservations                      (locks)
SchedulingQueue                                               (who is tried again)
ResourceAmount, ResourceList, Selectors, ThrottleMetrics ── MCCalculations
```
(▷: implements.)

### Calculations

**`ResourceAmount`**: the throttle decision. An amount is a function from resource names to
`Nat`; an absent map key is absent from the domain. The nullable count of pods is one more
resource, `"pod"`, which every pod requests once. `CheckWith` is the body the two
`CheckThrottledFor` methods share; `ThrottleCheck` and `ClusterThrottleCheck` are the methods,
which differ in one flag.

**`ResourceList`**: `PodRequestResourceList` (containers are added, init containers maximised,
the overhead added) and the operations on lists, with quantities as numbers.

**`Selectors`**: terms of either kind of selector. A term answers `yes`, `no` or `error`; what
matters of a label selector is whether it is valid and which labels it selects. The namespace
part of a ClusterThrottle's term answers `no` where the code drops the error.

**`ThrottleMetrics`**: the series a recorder leaves in each gauge; a gauge keeps what is not
set anew. `MilliValue` (cpu) and `Value` (other resources) round up, so amounts are numbers of the
smallest quantity there is, `Milli` and `Unit` of which make the units shown; a count of pods is
shown as it is.

**`MCCalculations`** applies all of these to every small argument. A behaviour is one call.

### The core: `ThrottleController`

One throttle of either kind (`Clustered`), the pods it selects, workers, informers, scheduler
and API server.

| code | here |
|---|---|
| pod in the API server / in the lister / as told to the handlers | `apiPod`, `podLister`, `podHandled`: the set of what happened to it |
| `status.used` in the API server | `apiUsed` |
| the informer's object of each resource version | `object[v]`: its `status.used`, which a reconcile may change; `listerRv` is the version in the lister |
| throttle events not handled yet | versions `handledRv+1..listerRv` |
| `reconcile` at work | `worker[w]`: `list`, `compare`, `update`, `unreserve`; `rv` is the object it points to, `live` the pods it counts, `todo` those to un-reserve |
| reservation cache | `reserved` |
| scheduling cycle | `sched`: the pod, the pointer `PreFilter` got, the reservations it read |
| binding cycles | `bind[p]` |

`reconcile` is split where other goroutines can come between: `StartReconcile` (lister Get),
`ListAffectedPods`, `StatusUnchanged` or `StatusChanged` (the comparison and the assignment in
place), `UpdateSucceeds`, `UpdateConflicts` or `UpdateFails`, `UnreserveAffectedPod` per pod,
`FinishReconcile`. `PreFilter`, `ReadReserved` and `CheckThrottledFor` are the reads of
`CheckThrottled`. A status read beside a write may be any mixture of its words before and after
(`Torn`): the assignment is not atomic and nothing locks it. The rest of the status is
determined by `used` and the threshold, which is never edited here, so it is not kept apart.

Two history variables say under which troubles a property is claimed: `faults` records
conflicts, failed updates, lost answers, restarts, and reads of an object the lister has
replaced (`staleRead`).

**`WorkQueue`** is client-go's rate limiting queue as `controller.go` uses it: sets of dirty,
processing and waiting keys. Ready keys come in any order and delays last any time.

**`Admission`** is what a throttle promises, without goroutines, caches or ledgers: pods are
admitted while they fit beside those that hold resources, run, end or are given up.
**`ThrottleAdmission`** is the refinement mapping: a pod is admitted while its binding cycle
runs, and running while the API server has it bound and live. The promise is waived after any
fault.

**`LedgerInvariants`** states why the ledgers account for every pod and why a pod that was let through
still has its room when it is reserved: invariants of every step, between the actions of one
reconcile too.

### Assignment: `ThrottleAssignment`

Several throttles of both kinds and the pods of one namespace, while users relabel pods (also
while they are pending or being bound) and the namespace, edit selectors, give throttles to
another throttler, delete and create throttles, and create a pod again under its old name.
Amounts are left out: a status is the set of pods it counts. A reconcile has two steps, the
listing of the pods (`StartReconcile`) and the rest (`FinishReconcile`); the finer steps and
their failures are `ThrottleController`'s. The plugin calls both controllers (`Reserve`,
`Unreserve`), each of which fails when any throttle it is responsible for has an invalid
selector; what the other one did stays. The handlers (`HandlePodAdded`, `HandlePodUpdated`,
`HandlePodDeleted`) are told of the pods one notice after the other, controller by controller;
an update may be the sum of several changes, a deletion and a new pod among them.

`disturbed` records which changes concerned which controller, so that the properties can say
for which of them they speak. **`AssignmentInvariants`** states why the pods stay accounted for, why
no reservation is left behind and why the statuses come out right.

### Time: `ThresholdOverrides` and `OverrideSchedule`

`ThresholdOverrides` has `CalculateThreshold`, `NextOverrideHappensIn` and `IsActive`; instants
are numbers, `Unset` is the zero time and `Malformed` what does not parse. `OverrideSchedule` has
the clock, the reconcile that reads it once at its start and may take a tick, the status it
stores or fails to store, `enqueueAfter` (the delaying queue keeps the earlier of two times of a
key), edits of the overrides and other events. `last` remembers when the last full reconcile
read the clock.

### Locks: `ReservedResourceAmounts` and `Reservations`

`ReservedResourceAmounts` follows a caller through every lock of `addPod`, `removePod`,
`reservedResourceAmount` and `moveThrottleAssignmentForPods`: the bucket of the hashed key
mutex, the read lock (readers wait behind a writer that waits), the look-up, the write lock, the
entry made if there is none by then, the Go map, the deferred unlock. Go maps are references
into `maps`. `Reservations` is what it promises: each operation on one throttle happens at once
between its call and its return. A method over several throttles is a sequence of operations, and
others may see it half way. `ImplementsReservations` is the refinement; an operation is executed
exactly when the caller reaches the unlock.

### Waking: `SchedulingQueue`

The queues of kube-scheduler as far as the plugin depends on them: a refused pod is parked until
an event of a kind in `EventsToRegister`, or the flush after five minutes. One throttle that
counts pods, its reconcile in two steps (status update, un-reserve). `NewPlugin` makes its own
informer of pods (`plugin.go:81`), so a deletion is three steps in any order that the informers
allow: the API server has it (`PodEnds`), the scheduler hears of it and wakes pods
(`DeletionSeen`), the plugin's lister has it (`ListerSees`) and its handler un-reserves the pod and
enqueues the throttle (`HandlePod`). A binding reaches the lister and the handlers the same way.
`missed` remembers which parked pods were there when an un-reserve, of which the scheduler hears
nothing, made room.

## Runs

| run | instance | shows |
|---|---|---|
| `calculations` | thresholds, used and reserved amounts up to 2, requests up to 3, over two resources; lists of two resources, up to two containers and two init containers; selectors of up to two terms; recorded amounts up to 4, in units of 2 and 3, one resource at a time | admission is the one comparison it should be, for both kinds; a pod counts for the most it ever uses; reconciles and scheduling cycles agree on whom a selector selects; the gauges agree as far as rounding lets them |
| `throttle` | Throttle, two pods of different sizes, deleted at any time, no disturbance | types, ledgers, no over-admission, un-reserve only after the update, the promise of `Admission`, and both statuses converge |
| `throttle_failures` | Throttle, pods that finish, one disturbance of four kinds | no repair of the status is lost; the invariant behind the ledgers holds until something fails |
| `cluster_throttle` | ClusterThrottle, one worker, pods that finish, one failed update | ledgers, no over-admission with the invariant that proves it (`AdmissionInv`), reservations drain |
| `assignment` | two ClusterThrottles of different labels, one pod and its successor, two changes of six kinds | no pod uncounted, no reservation left behind, statuses right once all is quiet |
| `resync` | a Throttle and a ClusterThrottle, one pod; the ClusterThrottle's selector breaks, or the namespace is relabelled | what one controller cannot do does not hold up the other; the resync puts every status right |
| `overrides` | two overrides that overlap, touch, nest, stay open, limit nothing or are malformed; six ticks, a reconcile of up to one, two disturbances | the calculated threshold is in effect, a wake-up is ordered for each instant, the threshold becomes right without any event |
| `reservations` | two goroutines, two throttles in buckets of their own, programs of one or two operations | no concurrent access to a Go map, no stale map, atomicity, every call returns |
| `scheduling_queue` | two pods, a limit of up to two that is edited, either informer ahead of the other | a pod that would pass is about to be woken; none stays pending while there is room |
| `unreserve_early`, `two_keys`, `terminated_pods` | | the findings below |

Bounds, and why they are enough:

* Two pods: each property speaks of one pod's passage from ledger to ledger, or of one pod
  admitted beside another that the scheduler overlooks. In `assignment` one pod: the throttles
  and the caches treat pods independently; the throttles are two, as a label change has a loser
  and a gainer.
* One disturbance suffices for each kind of repair; it may come at any step. Two changes
  let an edit meet a relabelling.
* One worker is the whole of a Throttle's concurrency, as its only key is never processed twice
  at a time (the proofs are for any number); a ClusterThrottle has two keys, hence `two_keys`
  with two workers.
* In `scheduling_queue` one pod is parked while the other is bound, counted, deleted and
  un-reserved, and a limit of 0 holds everything back; `NoPodIsForgotten` is for any number.
* The gauges of different resources do not meet, so amounts of one resource show everything; up to
  4 there are amounts of either unit that are rounded and that are not, on either side of a
  threshold.
* Six ticks let each of two overrides begin, end and be over, before and after the other.
* Two callers: locks are between two; the proofs are for any number, and for buckets that are
  shared.
* Versions, queues and lists of notices grow only with the changes above.

Deadlock is checked in the runs of `ThrottleController` and `ReservedResourceAmounts`. In the others
the system really may stop: a behaviour of `MCCalculations` is one call, the clock of
`OverrideSchedule` ends at `Horizon`, pods of `SchedulingQueue` and throttles of `ThrottleAssignment`
may all be gone.

## Fairness

* Workers, the queue's timers, informers and handlers run when they can (weak fairness): they
  are goroutines without a condition to wait for but the next item.
* `resync` adds the timer of the informers' resync (`plugin.go:77`). No other run counts on it;
  `overrides` shows that `enqueueAfter` alone is enough.
* `reservations`: strong fairness of the lock operations. Go's `sync.Mutex` hands the lock to a
  goroutine that has waited for a millisecond, and readers that come after a waiting writer
  wait; the model has the second as a guard.
* `scheduling_queue`: the scheduler takes every queued pod in turn and flushes pods parked for
  five minutes. `ThrottleOpens` speaks of a limit that has stopped changing.
  Both informers deliver what they watch.
* Nothing is assumed of pods, bindings and users; the liveness properties hold though these may
  stop at any time.

## Findings

* **Un-reserve without an update** (`unreserve_early`): after a conflict the retry may find its
  own earlier assignment in the lister's object, take the status for unchanged and un-reserve
  (`tc:158`, against the comment at `tc:136`). For the same reason a failed `UpdateStatus` leaves
  the status in the API server behind until the object changes again.
* **Two workers on one ClusterThrottle** (`two_keys`): its keys are `name` and `/name` (`cc:539`);
  one worker overwrites the status the other is sending, which un-reserves a pod no stored status
  counts (against the comment at `cc:139`).
* **Terminated pods dropped** (`terminated_pods`): `tc:241` appends to the wrong slice;
  reservations of terminated pods stay (against the comment at `tc:137`). The ClusterThrottle has it
  right, and `ReservationsDrain` holds there.

Cases in which a property would not hold, and which its guard leaves out:

| case | property | what happens |
|---|---|---|
| `PreFilter` reads a status whose object the lister has replaced, and the reservations of after it | `NoOverAdmission`, `ImplementsAdmission` | a pod in between is in neither; one too many may pass |
| a pod is relabelled while it is pending or being bound | `Accounted`, `DrainedWhenQuiet` of `ThrottleAssignment` | the update handler ignores pods that are not bound; the reservation stays where it was made |
| the update handler of a relabelled pod is still to run | `Accounted` | the new throttle has it in neither ledger until then |
| a throttle of the same kind has an invalid selector when a pod's binding fails or the pod is deleted | `DrainedWhenQuiet` | `UnReserve` returns the error, which is logged, and nothing repeats it |
| a name is used again by a new pod | `Accounted`, `DrainedWhenQuiet` | the reservation is by name: the old pod's `Unreserve` or handlers remove the new pod's |
| `throttlerName` changes with a key in the queue | `CountedWhenQuiet` (responsible throttlers only) | `reconcile` does not ask `isResponsibleFor` and writes the other throttler's status |
| a calculated threshold without any limit | `CalculatedIsInEffect`, `ThresholdConverges` | it equals that of a new status and is not stored |
| a reconcile reads the clock exactly at the end of an override | `HoldsUntilNextOverride`, `ThresholdConverges` | the override is still active and no wake-up is ordered after it |
| a resource no pod requests any more | `FlagsAgreeWithAmounts` | its series of used keeps the last amount |
| an amount used that is not a whole number of the units shown | `FlagsAgreeWithAmounts`, its last part | rounded up it shows its threshold, with `throttled` 0: 500m of memory under a threshold of 1 |
| a pod waits for a reconcile's un-reserve, which comes after the status update | `WokenWhenItPasses` | it is woken by nothing but the flush |
| a pod waits for the un-reserve of a deleted pod, and was tried in vain after the scheduler had heard of the deletion and before the plugin's handler | `WokenWhenItPasses` | when no status had counted the deleted pod the reconcile changes none, and it is woken by nothing but the flush |

Differences from the documentation the model follows the code in: an active override replaces
the whole threshold, so a resource it does not mention is not limited (`README.md:193` shows it with
the limit of the spec); at the threshold a Throttle gives the reason `active`, a ClusterThrottle
`insufficient`.

## Proofs

All theorems are for every value of the constants that satisfies the named assumptions of the
modules. These say that bounds are natural numbers, that kinds and disturbances are the known
ones, and

* that pods are finitely many and that requests and thresholds are amounts (`ThrottleController`):
  the API server holds finitely many objects, and quantities of either sign are left to validation;
* that a limit exists (`SchedulingQueue`);
* of `ThrottleAssignment`, that pods and namespace have labels and throttles have selectors, which
  are valid at first. Making one invalid is a change, `breakSelector`, and counted; after it nothing
  is claimed of that controller but what `resync` checks. What a user edits a selector to is any
  sequence of terms, valid or not.

They are listed in `PROJECT.json`. Every invariant and every safety property that a passing run
checks is the conclusion of a theorem.

**`Operators_proofs`**, about the operators themselves. For any resources and quantities
`CheckThrottledFor` admits exactly the pods that fit (`ThrottleCheckIsExact`) and both kinds admit the
same (`BothKindsAdmitTheSamePods`): over the resources the pod requests, the pod alone or the used
amount exceeding the threshold implies that their sum does, and the cached flags were computed from
the used amount; so the last comparison decides. For selectors of any length the namespace filter
loses nothing (`NamespacesFirstLosesNothing`) and one term selects as a whole (`OneTermSelects`): the
answer of a selector is that of its first term that does not say no (`OredDecides`), and a term that
does not say no to a pod says yes to its namespace. The lemmas on sums (`SumWith`, `SumCovered`) are
what admission needs of `TotalAmount`: it is given by a choice of a function that satisfies the
recursion, so its existence and its uniqueness have to be shown; both follow from a smallest set for
which they would fail (`SmallestSubset`).

**`Calculations_proofs`** carries these to every invariant of `MCCalculations`, for any of its bounds.
`CallsAnswered` says that a behaviour is one call with its answer. `CountedIsThePeakAlways` and
`ListLawsAlways` are about folds over lists of containers: for any number of containers what
`PodRequestResourceList` adds up is their sum, and the init containers raise it to their
maximum. `FlagsAgreeWithAmountsAlways` is about what a recorder leaves in gauges that showed anything
before, for any amounts and units: rounding up keeps the order of two amounts, so the gauges never
contradict the flags but at equality, and there only when the amount used is not a whole number
(`RoundingUp`).

**`LedgerInvariants_proofs`**, for any pods, workers, requests, threshold, disturbances and either kind:

* `TypeCorrect`: `TypeOK` is inductive.
* `InFlightStaysReserved`: a pod stays reserved until it is bound or its binding failed.
  `ReservationInv` adds that the handlers are behind the lister and the lister behind the API
  server (`CachesLag`), that pods in their scheduling or binding cycle are not bound (`BoundLast`),
  and that a reconcile un-reserves only pods the lister had bound (`RemovesScheduled`); so whoever
  removes a reservation knows the pod to be bound.

and under `SingleReconciler`, a Throttle with any number of workers or a ClusterThrottle with one
(with two it is false: run `two_keys`):

* `LedgersKept`: `LedgerInv` holds. The queue gives a key to one worker at a time
  (`OneWorkerPerKey`), so at most one worker is busy with the throttle. Until something fails,
  - a bound pod is reserved at least until the lister has it (`NewlyBoundReserved`), so a reconcile
    that does not list the pod does not lose it;
  - the pods a reconcile counts and those reserved that it will not un-reserve include every pod
    that holds resources (`ReconcileAccounts`);
  - so do the stored status and the reservations nobody is about to remove (`ApiAccounts`): the
    step from the first to the second is `UpdateSucceeds`, or `StatusUnchanged` as what is compared
    is the stored status;
  - every object from the lister's on holds the stored status, but for the one a reconcile has
    assigned to and not sent yet (`ObjectsFollow`), and a reconcile compares with the stored status
    and sends what it counted (`PointersFollow`). These two are what a failed `UpdateStatus`
    destroys: the object keeps what was assigned to it.
* `LedgersAccount`: `Accounted`, by `ApiAccounts`, `ObjectsFollow` and, for the object just assigned
  to, `PointersFollow` with `ReconcileAccounts`.
* `UnreservesLast`: `UnreserveAfterStatusUpdateUnlessFailed`; a worker goes to un-reserve from a
  comparison with the stored status or from the update that stored its own.

and whatever fails and whenever the process restarts:

* `NoRepairIsLost` (under `SingleReconciler`): `StatusRepairPending`. Unless a reconcile is still to
  begin, from the queue or from news the handlers have not had (`ToReconcile`), the one at work has
  the latest version and the latest pods, or the status is right (`RepairInv`).
* `NoReservationIsLeft` (for a ClusterThrottle, any number of workers): `ReservationsDrain`. A
  reservation of a pod that the lister has bound is on some worker's list, or a reconcile is still
  to list it (`DrainInv`). For a Throttle the proof breaks at `ListAffectedPods` exactly where the
  terminated pods are all meant to be listed, which is the finding `terminated_pods`.

**`ThrottleAdmission_proofs`**, for any pods, requests and threshold, under `SingleReconciler`:

* `AdmissionKept`: `AdmissionInv`, that is, `NoOverAdmission` with what keeps it from `PreFilter` to
  `Reserve`. No pod enters the reservations while a cycle holds what it read of them
  (`ReadsEnough`), as one cycle runs at a time. When `CheckThrottledFor` is called the status it
  points to, torn or not, covers in every resource the pods that hold resources and are not reserved
  (`StatusCovers`, from `LedgerInv`), so a pod that passes fits beside all that hold resources
  (`PassingHasRoom`); until it is reserved the others only give room up (`PassedHasRoom`).
* `NeverOverAdmitted`: `NoOverAdmission`, of every resource some holder was admitted for.
* `AdmissionImplemented`: the refinement of `Admission`. `Reserve` is the admission and fits at that
  moment; a binding, an end, a deletion and a failed binding are the steps of `Admission` that take a
  pod on; every other step leaves each pod where it is, as long as nothing has failed.

**`ThrottleAssignment_proofs`**, for any throttles of both kinds, pods, labels, selectors and changes:

* `AssignmentTypeCorrect`: `TypeOK`. The versions need a count: every edit of an object but a change
  back is one of `changes`, and a change back undoes one (`TypeInv`).
* `AlwaysAccountedFor`: `Accounted`, from `AssignmentInv`, which speaks of a controller that no
  change has concerned. Its throttles are as they were, so their updates meet no conflict
  (`AsAtFirst`); what lister and handlers have of a pod is behind the API server, and labels change
  only once it is bound (`PodsFollow`); so every call of one cycle asks with the same labels
  (`CyclesFollow`); a reconcile lists only pods that the lister has bound (`ListsFollow`). Then a
  pod is reserved until the lister has it bound, and from then on counted or reserved, also by what
  a reconcile at work leaves behind, by every throttle that selects it with the labels the handlers
  know and with those they are still to be told of (`KeptAccounted`). A throttle that gains a pod is not
  among these until the handler of that update moves the reservation.
* `ReservationsAllDrain`: `DrainedWhenQuiet`. Every reservation has somebody who is still to remove
  it (`DrainsFollow`): the pod's cycle while the pod is pending; after that a handler that has
  notices of the pod to come, a reconcile that is to begin, or the one at work, which has listed
  the pod. A reservation is only ever held by throttles that select the pod with the labels the
  handlers know, as the update handler moves it with the labels; so the deletion's `UnReserve` and
  the reconciles find it there.
* `StatusesCountTheLive`: `CountedWhenQuiet`, also after edits, new throttlers, deleted throttles and
  names used again, from `CountInv`: as long as a controller's handlers could hear of every change its
  selectors are valid (`AllValid`), so no handler drops an event; and unless a reconcile of a throttle is
  to begin or its own handler is to be called, the status, or what the reconcile at work has
  listed, counts a pod exactly when it should, judged by what the handlers were told last
  (`CountsFollow`). A pod for which a notice to come changes the answer is excepted (`Settled`): that
  notice enqueues the throttle (`HandlersEnqueue`). A reconcile at work has the current version, so it
  meets no conflict; an edit half way calls the throttle's handler, which enqueues it again.

The last two rest on `HandlingInv`, which holds whatever is changed: the notices a handler is still to
get lead from what it was told to what the lister has, and a pod is deleted with the labels it had
last (`NoticesFollow`); a throttle being reconciled is in the queue's processing set
(`BusyIsProcessing`); every change but a name used again is counted (`ChangesCounted`). `HandlingInv`,
`AssignmentInv` and `CountInv` can be checked on the instances of `assignment` and `resync` by naming
them in `Assignment.cfg` and `Resync.cfg`.

**`ReservedResourceAmounts_proofs`**, for any goroutines, throttles, pods, programs and any hash:
`TypeCorrect`, `NoTwoInOneMap`, `MapStaysCurrent` and `OperationsAreAtomic`, the refinement of
`Reservations`, from one inductive invariant: who is past `lockKey` holds its bucket (`KeyLock`), so two
callers on one throttle exclude each other; the read-write lock has one writer and no reader
beside it (`RWLock`), so the outer map is safe; a caller's map is its throttle's, and an entry, once
made, is never replaced (`MapsInv`), so giving up the lock in between does no harm; and an
operation that has not reached the Go map has no result yet (`CallsInv`).

**`OverrideSchedule_proofs`**, for any overrides, times and disturbances: `ScheduleTypeCorrect`;
`CalculationHolds` (between the instants that are announced no override begins or ends, so the same
ones are active) and `EarlierOverridesLive`, which give `HoldsUntilNextAlways` and
`FirstOverrideLivesAlways` in every state; `InEffectAtRest` and `NoInstantIsMissed`. The invariant of
these two speaks of the last full reconcile while no other is under way: every instant after its
reading of the clock is at or after the earliest of `NextOverrideHappensIn`, whose timer began to
run when it finished, or an earlier timer is waiting; and the stored threshold is the calculated
one whether it was stored or found equal, whatever failed before.

**`SchedulingQueue_proofs`**: `NoPodIsForgotten`, for any number of pods and any limits, whichever
informer is ahead. A status or a threshold that changes announces an event, and a binding that fails
wakes the parked pods at once; reservations only make it harder to pass. What else makes room is an
un-reserve, by a reconcile or by `DeleteFunc`, the exception that `missed` records (`DropRemembers`).

Only model-checked: liveness under fairness, which TLAPS does not prove. `StatusConverges` and
`ApiStatusConverges`, `CountsConverge`, `ThresholdConverges` and `ThrottleOpens` say that what
`StatusRepairPending`, `CountedWhenQuiet`, `WakeUpOrdered` and `WokenWhenItPasses` find due is done;
`CallsReturn` is the absence of deadlock and starvation at the locks.

## Not modelled

* Plugin arguments and commands: decoding, defaults and registration, without behaviour over time.
* Generated clients, informers, listers and deep copies. What the program relies on is in the
  models: listers that follow the API server with a delay, one event after the other, and hand
  out pointers to shared objects.
* The namespace of a pod missing from the lister (`affectedClusterThrottles` returns an error), and
  several namespaces in one instance of `ThrottleAssignment`.
* The cause of a restart, for instance the type assertion on `DeletedFinalStateUnknown`
  (`tc:509`); the restart itself is in `ThrottleController`.
* A status update sent before a restart and applied by the API server after it.
* Events, logs, the wording of reasons, names and labels of metrics.
* Quantities beyond natural numbers: suffixes, formats and sizes of `resource.Quantity`; gauges above
  2^53, which a `float64` does not hold exactly.
* The order of events of different pods is not kept in `ThrottleController`, which allows more
  behaviours than the informers do. After a restart the notifications of what the store holds are
  merged into the caches' state; resyncs stand for them.

## Plan

1. Several namespaces, and the namespace lister behind the API server, in `ThrottleAssignment`;
   this would complete the ClusterThrottle controller.

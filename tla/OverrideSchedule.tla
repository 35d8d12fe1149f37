-------------------------- MODULE OverrideSchedule --------------------------
(***************************************************************************)
(* How the threshold in effect follows the clock:                          *)
(*   pkg/controllers/throttle_controller.go: reconcile, with the           *)
(*   calculated threshold and enqueueAfter; the same in                    *)
(*   clusterthrottle_controller.go                                         *)
(*   pkg/controllers/controller.go: enqueueAfter                           *)
(*                                                                         *)
(* One throttle.  Time passes in ticks while a reconcile runs: it reads    *)
(* the clock first, and the delay it asks for begins to run when it asks.  *)
(* The throttle lister has an edit at once, ThrottleController has the     *)
(* delay; the pods and the amounts used are left out.                      *)
(***************************************************************************)
EXTENDS ThresholdOverrides, WorkQueue

CONSTANTS
    SpecThreshold,    \* spec.threshold
    Overrides,        \* spec.temporaryThresholdOverrides: what users write
    Horizon,          \* bound: the last tick
    MaxTook,          \* bound: the ticks that pass during a reconcile
    MaxDisturbances   \* bound: edits, failed updates and other reconciles

ASSUME HorizonAssumption == Horizon \in Nat \ {0} /\ MaxTook \in Nat /\ MaxDisturbances \in Nat
ASSUME OverridesAssumption ==
    \A written \in Overrides : \A i \in DOMAIN written :
        i \in Nat /\ {written[i].begin, written[i].end} \subseteq Nat \cup {Malformed}

VARIABLES
    now,          \* the clock
    overrides,    \* of the throttle object
    rv,           \* its version
    status,       \* status.calculatedThreshold, of the lister's object
    queue,        \* the work queue
    timer,        \* when AddAfter makes the key ready, if it is to
    worker,       \* the reconcile at work
    last,         \* history: the clock as the last full reconcile read it, and how long it took
    disturbances  \* how often users edited, updates failed, other events came

vars == <<now, overrides, rv, status, queue, timer, worker, last, disturbances>>

Key == "throttle"
NoReconcile == [busy |-> FALSE, now |-> 0, rv |-> 0, overrides |-> <<>>]

(* A throttle that was just created; its Add event is handled.             *)
Init ==
    /\ now = 1
    /\ overrides \in Overrides
    /\ rv = 0
    /\ status = [at |-> FALSE, threshold |-> NoAmount, messages |-> {}]
    /\ queue = Enqueue(EmptyQueue, Key)
    /\ timer = {}
    /\ worker = NoReconcile
    /\ last = [now |-> 0, took |-> 0]
    /\ disturbances = 0

Tick ==
    /\ now < Horizon
    /\ worker.busy => now < worker.now + MaxTook
    /\ now' = now + 1
    /\ UNCHANGED <<overrides, rv, status, queue, timer, worker, last, disturbances>>

Disturb ==
    /\ disturbances < MaxDisturbances
    /\ disturbances' = disturbances + 1

-----------------------------------------------------------------------------
\* now := c.clock.Now(), and the lister's object.
StartReconcile ==
    /\ Key \in Ready(queue)
    /\ queue' = Take(queue, Key)
    /\ worker' = [busy |-> TRUE, now |-> now, rv |-> rv, overrides |-> overrides]
    /\ UNCHANGED <<now, overrides, rv, status, timer, last, disturbances>>

Calculated == CalculateThreshold(SpecThreshold, worker.overrides, worker.now)

\* A mutant: nothing is calculated anew when no override is active.
NewStatus_OnlyOverridden ==
    IF Active(worker.overrides, worker.now) = {}
    THEN status
    ELSE [at |-> TRUE, threshold |-> Calculated.threshold, messages |-> Calculated.messages]

\* The instant it was calculated at goes with it, unless it is the one stored.
NewStatus ==
    IF Calculated = [threshold |-> status.threshold, messages |-> status.messages]
    THEN status
    ELSE [at |-> TRUE, threshold |-> Calculated.threshold, messages |-> Calculated.messages]

\* A mutant: every call is kept.
AddAfter_KeepsBoth(d) == timer' = timer \cup {now + d}

\* enqueueAfter: the delaying queue keeps the earlier time of a waiting key.
AddAfter(d) == timer' = {Min(timer \cup {now + d})}

Edited == worker.rv # rv

\* The status is stored, or was right already; the next override is awaited.
ReconcileSucceeds ==
    /\ worker.busy
    /\ Edited => NewStatus = status
    /\ status' = NewStatus
    /\ LET next == NextOverrideHappensIn(worker.overrides, worker.now)
       IN IF next = {} THEN UNCHANGED timer ELSE \E d \in next : AddAfter(d)
    /\ queue' = Done(queue, Key)
    /\ last' = [now |-> worker.now, took |-> now - worker.now]
    /\ worker' = NoReconcile
    /\ UNCHANGED <<now, overrides, rv, disturbances>>

(* The update conflicts with an edit, or fails; by then the status has     *)
(* been assigned to the object read, which the edit has replaced.  Nothing *)
(* is awaited but the retry.                                               *)
ReconcileFails ==
    /\ worker.busy
    /\ NewStatus # status
    /\ IF Edited THEN UNCHANGED <<status, disturbances>>
       ELSE Disturb /\ status' = NewStatus
    /\ queue' = Done(AddRateLimited(queue, Key), Key)
    /\ worker' = NoReconcile
    /\ UNCHANGED <<now, overrides, rv, timer, last>>

Reconcile == StartReconcile \/ ReconcileSucceeds \/ ReconcileFails

RetryExpires ==
    /\ Key \in queue.waiting
    /\ queue' = Expire(queue, Key)
    /\ UNCHANGED <<now, overrides, rv, status, timer, worker, last, disturbances>>

\* A time that has passed: the clock has moved on since the reading it is from.
TimerFires ==
    /\ \E due \in timer : due < now
    /\ timer' = {}
    /\ queue' = Enqueue(queue, Key)
    /\ UNCHANGED <<now, overrides, rv, status, worker, last, disturbances>>

\* Events of pods and resyncs of the informers: at any time, the end of an override too.
OtherEvent ==
    /\ Disturb
    /\ queue' = Enqueue(queue, Key)
    /\ UNCHANGED <<now, overrides, rv, status, timer, worker, last>>

\* A user writes other overrides; UpdateFunc enqueues the throttle.
EditOverrides ==
    /\ Disturb
    /\ overrides' \in Overrides \ {overrides}
    /\ rv' = rv + 1
    /\ queue' = Enqueue(queue, Key)
    /\ UNCHANGED <<now, status, timer, worker, last>>

Next == Tick \/ Reconcile \/ RetryExpires \/ TimerFires \/ OtherEvent \/ EditOverrides

Spec == Init /\ [][Next]_vars

\* Time passes, and goroutines that can run do.  No resync is counted on.
FairSpec ==
    Spec /\ WF_vars(Tick) /\ WF_vars(Reconcile) /\ WF_vars(RetryExpires) /\ WF_vars(TimerFires)

-----------------------------------------------------------------------------
TypeOK ==
    /\ now \in 1..Horizon
    /\ overrides \in Overrides
    /\ rv \in 0..MaxDisturbances
    /\ status.at \in BOOLEAN
    /\ status.messages \subseteq UNION {DOMAIN o : o \in Overrides}
    /\ queue \in Queues({Key})
    /\ timer \subseteq Nat /\ Cardinality(timer) <= 1
    /\ worker.busy => worker.overrides \in Overrides /\ worker.now \in 1..now
    /\ last.now \in 0..now
    /\ disturbances \in 0..MaxDisturbances

\* A reconcile is under way or will be, without the timer.
Pending == worker.busy \/ queue.dirty \cup queue.waiting # {}

\* The threshold CheckThrottledFor takes.
InEffect ==
    EffectiveThreshold([spec |-> SpecThreshold, calculatedAt |-> status.at,
                        calculated |-> status.threshold])

(* What CheckThrottledFor takes when this is what reconcile calculates.  A *)
(* threshold without any limit equals that of a new status, which then is  *)
(* not stored: spec.threshold stays in effect, or the limitless one comes  *)
(* into effect, depending on what was stored before.                       *)
Effective(threshold) == threshold = NoAmount \/ InEffect = threshold

(* "The field matters when deciding": once the controller is at rest, the  *)
(* threshold in effect is the one its last reconcile has calculated, from  *)
(* the overrides as they are, whatever edits, conflicts and failed updates *)
(* there were.                                                             *)
CalculatedIsInEffect ==
    ~Pending => Effective(CalculateThreshold(SpecThreshold, overrides, last.now).threshold)

(* Every begin and every end of an override that is still to come has a    *)
(* wake-up ordered for it, no later than the reconcile that ordered it     *)
(* took; the delaying queue keeps one time only.                           *)
WakeUpOrdered ==
    ~Pending =>
        \A i \in DOMAIN overrides : Parses(overrides[i]) =>
            \A e \in {overrides[i].begin, overrides[i].end} :
                e > last.now => \E due \in timer : due <= e + last.took

(* Overrides take effect and expire by themselves: in the end the threshold*)
(* in effect is the right one for the time, also when no pod and no user   *)
(* wakes the controller; but for a reconcile that read the clock exactly   *)
(* at an end.                                                              *)
ThresholdConverges ==
    <>[](\/ Effective(CalculateThreshold(SpecThreshold, overrides, now).threshold)
         \/ last.now \in Ends(overrides))

(* The calculations, for the overrides at hand and all times.              *)
HoldsUntilNextOverride ==
    \A t \in 1..Horizon, later \in 1..Horizon :
        HoldsUntilNext(SpecThreshold, overrides, t, later)

FirstOverrideLives == \A t \in 1..Horizon : FirstLives(SpecThreshold, overrides, t)
=============================================================================

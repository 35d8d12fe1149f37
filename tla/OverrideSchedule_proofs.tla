----------------------- MODULE OverrideSchedule_proofs ----------------------
(***************************************************************************)
(* Proofs about ThresholdOverrides and OverrideSchedule, for any overrides,*)
(* any times and any number of disturbances.                               *)
(***************************************************************************)
EXTENDS OverrideSchedule, WellFoundedInduction, FiniteSetTheorems, TLAPS

(* A set of natural numbers has a least one.                               *)
LEMMA Earliest ==
    ASSUME NEW S, S \subseteq Nat, S # {}
    PROVE  Min(S) \in S /\ \A y \in S : Min(S) <= y
<1>1. \E x \in S : \A y \in S : ~(<<y, x>> \in OpToRel(<, Nat))
  BY NatLessThanWellFounded, WFMin, Zenon
<1>2. PICK x \in S : \A y \in S : ~(y < x)
  BY <1>1, Zenon DEF OpToRel
<1>3. \A y \in S : x <= y
  BY <1>2
<1> QED BY <1>3 DEF Min

(* The instants of an override that parses are announced.                  *)
LEMMA InstantsOfOverrides ==
    ASSUME NEW written \in Overrides
    PROVE  /\ Instants(written) \subseteq Nat
           /\ \A i \in DOMAIN written : Parses(written[i]) =>
                /\ written[i].begin \in Instants(written) /\ written[i].begin \in Nat
                /\ written[i].end \in Instants(written) /\ written[i].end \in Nat
<1>1. \A i \in DOMAIN written :
        {written[i].begin, written[i].end} \subseteq Nat \cup {Malformed}
  BY OverridesAssumption
<1>2. Instants(written) \subseteq Nat
  BY <1>1 DEF Instants
<1>3. ASSUME NEW i \in DOMAIN written, Parses(written[i])
      PROVE  /\ written[i].begin \in Instants(written)
             /\ written[i].end \in Instants(written)
  BY <1>1, <1>3 DEF Instants, Parses
<1> QED BY <1>2, <1>3

(* NextOverrideHappensIn answers the time to the earliest of them to come. *)
LEMMA NextIsEarliest ==
    ASSUME NEW written \in Overrides, NEW t \in Nat
    PROVE  /\ \A d \in NextOverrideHappensIn(written, t) : d \in Nat
           /\ \A e \in Instants(written) : e > t =>
                \E d \in NextOverrideHappensIn(written, t) : t + d <= e
           /\ \A c, d \in NextOverrideHappensIn(written, t) : c = d
<1> DEFINE later == {e \in Instants(written) : e > t}
<1>1. later \subseteq Nat
  BY InstantsOfOverrides
<1>2. NextOverrideHappensIn(written, t) =
        {Min(later) - t : dummy \in {e \in later : e = Min(later)}}
  BY DEF NextOverrideHappensIn
<1>3. \A d \in NextOverrideHappensIn(written, t) : d = Min(later) - t /\ Min(later) \in later
  BY <1>2
<1>4. ASSUME NEW e \in later
      PROVE  /\ Min(later) - t \in NextOverrideHappensIn(written, t)
             /\ Min(later) \in later /\ Min(later) <= e
  <2>1. Min(later) \in later /\ Min(later) <= e
    BY <1>1, <1>4, Earliest
  <2> QED BY <1>2, <2>1
<1>5. \A d \in NextOverrideHappensIn(written, t) : d \in Nat
  <2> SUFFICES ASSUME NEW d \in NextOverrideHappensIn(written, t) PROVE d \in Nat
    OBVIOUS
  <2>1. d = Min(later) - t /\ Min(later) \in Nat /\ Min(later) > t
    BY <1>1, <1>3
  <2> QED BY <2>1
<1>6. ASSUME NEW e \in Instants(written), e > t
      PROVE  \E d \in NextOverrideHappensIn(written, t) : t + d <= e
  <2>1. /\ Min(later) - t \in NextOverrideHappensIn(written, t)
        /\ Min(later) \in Nat /\ Min(later) <= e /\ e \in Nat
    BY <1>1, <1>4, <1>6
  <2>2. t + (Min(later) - t) <= e
    BY <2>1
  <2> QED BY <2>1, <2>2
<1> QED BY <1>3, <1>5, <1>6

-----------------------------------------------------------------------------
(* A calculation of the threshold holds until the next instant that        *)
(* NextOverrideHappensIn announces, unless it was made at an end.          *)
THEOREM CalculationHolds ==
    ASSUME NEW spec, NEW written \in Overrides, NEW t \in Nat, NEW later \in Nat
    PROVE  HoldsUntilNext(spec, written, t, later)
<1> SUFFICES ASSUME t <= later, t \notin Ends(written),
                    \A d \in NextOverrideHappensIn(written, t) : later < t + d
             PROVE  CalculateThreshold(spec, written, later) = CalculateThreshold(spec, written, t)
  BY DEF HoldsUntilNext
<1>1. \A e \in Instants(written) : e > t => e > later
  BY InstantsOfOverrides, NextIsEarliest
<1>2. ASSUME NEW i \in DOMAIN written
      PROVE  IsActive(written[i], later) <=> IsActive(written[i], t)
  <2> SUFFICES ASSUME Parses(written[i])
               PROVE  IsActive(written[i], later) <=> IsActive(written[i], t)
    BY DEF IsActive
  <2> DEFINE begin == written[i].begin
             end   == written[i].end
  <2>1. begin \in Nat /\ end \in Nat /\ begin \in Instants(written) /\ end \in Instants(written)
    BY InstantsOfOverrides
  <2>2. end # t
    BY DEF Ends
  <2>3. (begin <= later <=> begin <= t) /\ (later <= end <=> t <= end)
    BY <1>1, <2>1, <2>2
  <2> QED BY <2>3 DEF IsActive
<1>3. Active(written, later) = Active(written, t)
  BY <1>2 DEF Active
<1> QED BY <1>3 DEF CalculateThreshold

(* "First override lives", for any overrides.                              *)
THEOREM EarlierOverridesLive ==
    ASSUME NEW spec, NEW written \in Overrides, NEW t
    PROVE  FirstLives(spec, written, t)
<1> SUFFICES ASSUME NEW i \in Active(written, t), NEW r \in DOMAIN written[i].threshold
             PROVE  LET calculated == CalculateThreshold(spec, written, t).threshold[r]
                    IN \/ calculated = written[i].threshold[r]
                       \/ \E j \in Active(written, t) :
                            j < i /\ r \in DOMAIN written[j].threshold
                                  /\ written[j].threshold[r] = calculated
  BY DEF FirstLives
<1> DEFINE active  == Active(written, t)
           mention == {k \in active : r \in DOMAIN written[k].threshold}
           j       == Min(mention)
<1>1. mention \subseteq Nat /\ i \in mention
  BY OverridesAssumption DEF Active
<1>2. j \in mention /\ j <= i
  BY <1>1, Earliest
<1>3. CalculateThreshold(spec, written, t).threshold = Merged(written, active)
  BY DEF CalculateThreshold
<1>4. Merged(written, active)[r] = written[j].threshold[r]
  BY <1>1 DEF Merged
<1>5. i \in Nat /\ j \in Nat
  BY <1>1, <1>2
<1>6. j = i \/ j < i
  BY <1>2, <1>5
<1> QED BY <1>2, <1>3, <1>4, <1>6, Zenon

-----------------------------------------------------------------------------
(* The clock, the times and the queue.                                     *)
Times ==
    /\ now \in Nat /\ last.now \in Nat /\ last.took \in Nat
    /\ timer \subseteq Nat
    /\ overrides \in Overrides
    /\ queue \in Queues({Key})

(* A reconcile works on the overrides as they are, or another one follows; *)
(* the queue gives its key to nobody else.                                 *)
AtWork ==
    worker.busy =>
        /\ worker.now \in Nat /\ worker.now <= now
        /\ worker.overrides \in Overrides
        /\ Key \in queue.processing
        /\ queue.dirty = {} => worker.overrides = overrides /\ worker.rv = rv

(* A status that was never stored is that of a new throttle.               *)
NewIsEmpty == status.at \/ status.threshold = NoAmount

ScheduleInv == Times /\ AtWork /\ NewIsEmpty /\ CalculatedIsInEffect /\ WakeUpOrdered

LEMMA ScheduleInit == Init => ScheduleInv
<1> SUFFICES ASSUME Init PROVE ScheduleInv
  OBVIOUS
<1>1. queue \in Queues({Key}) /\ queue.dirty = {Key}
  BY DEF Init, Enqueue, EmptyQueue, Queues
<1>2. Times /\ NewIsEmpty
  BY <1>1 DEF Init, Times, NewIsEmpty
<1>3. AtWork
  BY DEF Init, AtWork, NoReconcile
<1>4. Pending
  BY <1>1 DEF Pending
<1> QED BY <1>2, <1>3, <1>4 DEF ScheduleInv, CalculatedIsInEffect, WakeUpOrdered

(* What a reconcile that succeeds leaves behind, if nothing else is to do. *)
LEMMA SuccessStep ==
    ASSUME ScheduleInv, ReconcileSucceeds
    PROVE  ScheduleInv'
<1>0. Times /\ AtWork /\ NewIsEmpty /\ worker.busy
  BY DEF ScheduleInv, ReconcileSucceeds
<1>1. /\ worker.now \in Nat /\ worker.now <= now /\ worker.overrides \in Overrides
      /\ now \in Nat /\ timer \subseteq Nat
  BY <1>0 DEF AtWork, Times
<1>2. \A d \in NextOverrideHappensIn(worker.overrides, worker.now) :
        /\ now + d \in Nat
        /\ AddAfter(d) => \E due \in timer' : due \in Nat /\ timer' = {due} /\ due <= now + d
  <2> SUFFICES ASSUME NEW d \in NextOverrideHappensIn(worker.overrides, worker.now)
               PROVE  /\ now + d \in Nat
                      /\ AddAfter(d) =>
                            \E due \in timer' : due \in Nat /\ timer' = {due} /\ due <= now + d
    OBVIOUS
  <2>1. now + d \in Nat
    BY <1>1, NextIsEarliest
  <2>2. Min(timer \cup {now + d}) \in Nat /\ Min(timer \cup {now + d}) <= now + d
    BY <1>1, <2>1, Earliest
  <2> QED BY <2>1, <2>2 DEF AddAfter
<1>3. /\ queue' \in Queues({Key}) /\ queue'.dirty = queue.dirty
      /\ worker' = NoReconcile
      /\ last'.now = worker.now /\ last'.took = now - worker.now
      /\ status' = NewStatus
      /\ UNCHANGED <<now, overrides, rv>>
  BY <1>0 DEF ReconcileSucceeds, Done, Queues, Times
<1>4. timer' \subseteq Nat
  <2>1. CASE NextOverrideHappensIn(worker.overrides, worker.now) = {}
    BY <1>1, <2>1 DEF ReconcileSucceeds
  <2>2. CASE NextOverrideHappensIn(worker.overrides, worker.now) # {}
    BY <1>2, <2>2 DEF ReconcileSucceeds
  <2> QED BY <2>1, <2>2
<1>5. Times'
  BY <1>0, <1>1, <1>3, <1>4 DEF Times
<1>6. AtWork'
  BY <1>3 DEF AtWork, NoReconcile
<1>7. NewIsEmpty'
  BY <1>0, <1>3 DEF NewIsEmpty, NewStatus
<1>8. ASSUME ~Pending' PROVE worker.overrides = overrides
  BY <1>0, <1>3, <1>8 DEF Pending, AtWork
<1>9. CalculatedIsInEffect'
  <2> SUFFICES ASSUME ~Pending'
               PROVE  Effective(CalculateThreshold(SpecThreshold, overrides, last.now).threshold)'
    BY DEF CalculatedIsInEffect
  <2> DEFINE calculated == CalculateThreshold(SpecThreshold, overrides, worker.now)
  <2>1. CalculateThreshold(SpecThreshold, overrides', last'.now) = calculated /\ Calculated = calculated
    BY <1>3, <1>8 DEF Calculated
  <2>2. status'.threshold = calculated.threshold
    BY <1>3, <2>1 DEF NewStatus
  <2>3. status'.at \/ calculated.threshold = NoAmount
    BY <1>7, <2>2 DEF NewIsEmpty
  <2> QED BY <2>1, <2>2, <2>3 DEF Effective, InEffect, EffectiveThreshold
<1>10. WakeUpOrdered'
  <2> SUFFICES ASSUME ~Pending', NEW i \in DOMAIN overrides, Parses(overrides[i]),
                      NEW e \in {overrides[i].begin, overrides[i].end}, e > last'.now
               PROVE  \E due \in timer' : due <= e + last'.took
    BY <1>3 DEF WakeUpOrdered
  <2>1. e \in Instants(worker.overrides) /\ e > worker.now /\ e \in Nat
    BY <1>1, <1>3, <1>8, InstantsOfOverrides
  <2>2. PICK d \in NextOverrideHappensIn(worker.overrides, worker.now) : worker.now + d <= e
    BY <1>1, <2>1, NextIsEarliest
  <2>3. AddAfter(d)
    BY <1>1, <2>2, NextIsEarliest DEF ReconcileSucceeds
  <2>4. PICK due \in timer' : due \in Nat /\ due <= now + d
    BY <1>2, <2>2, <2>3
  <2>5. d \in Nat
    BY <1>1, <2>2, NextIsEarliest
  <2>6. due <= e + (now - worker.now)
    BY <1>1, <2>1, <2>2, <2>4, <2>5
  <2> QED BY <1>3, <2>4, <2>6
<1> QED BY <1>5, <1>6, <1>7, <1>9, <1>10 DEF ScheduleInv

LEMMA ScheduleStep == ScheduleInv /\ [Next]_vars => ScheduleInv'
<1> SUFFICES ASSUME ScheduleInv, [Next]_vars PROVE ScheduleInv'
  OBVIOUS
<1>0. Times /\ AtWork /\ NewIsEmpty /\ CalculatedIsInEffect /\ WakeUpOrdered
  BY DEF ScheduleInv
<1> USE <1>0
<1>1. ASSUME Times', AtWork', NewIsEmpty', Pending' PROVE ScheduleInv'
  BY <1>1 DEF ScheduleInv, CalculatedIsInEffect, WakeUpOrdered
<1>2. CASE Tick
  <2>1. Times' /\ AtWork' /\ NewIsEmpty'
    BY <1>2 DEF Tick, Times, AtWork, NewIsEmpty
  <2>2. CalculatedIsInEffect' /\ WakeUpOrdered'
    BY <1>2 DEF Tick, Pending, CalculatedIsInEffect, Effective, InEffect, WakeUpOrdered
  <2> QED BY <2>1, <2>2 DEF ScheduleInv
<1>3. CASE StartReconcile
  <2>1. /\ worker' = [busy |-> TRUE, now |-> now, rv |-> rv, overrides |-> overrides]
        /\ UNCHANGED <<now, overrides, rv, status, timer, last>>
        /\ queue' = Take(queue, Key)
    BY <1>3 DEF StartReconcile
  <2>2. queue' \in Queues({Key}) /\ Key \in queue'.processing
    BY <2>1 DEF Take, Queues, Times
  <2>3. worker'.busy
    BY <2>1
  <2> QED BY <1>1, <2>1, <2>2, <2>3 DEF Times, AtWork, NewIsEmpty, Pending
<1>4. CASE ReconcileSucceeds
  BY <1>4, SuccessStep
<1>5. CASE ReconcileFails
  <2>1. /\ queue' \in Queues({Key}) /\ Key \in queue'.waiting
        /\ worker' = NoReconcile
        /\ status' \in {status, NewStatus}
        /\ UNCHANGED <<now, overrides, timer, last>>
    BY <1>5 DEF ReconcileFails, Done, AddRateLimited, Queues, Times
  <2> QED BY <1>1, <2>1 DEF Times, AtWork, NewIsEmpty, NewStatus, NoReconcile, Pending
<1>6. CASE RetryExpires
  <2>1. /\ queue' \in Queues({Key}) /\ Key \in queue'.dirty
        /\ queue'.processing = queue.processing
    BY <1>6 DEF RetryExpires, Expire, Queues, Times
  <2> QED BY <1>1, <1>6, <2>1 DEF RetryExpires, Times, AtWork, NewIsEmpty, Pending
<1>7. CASE TimerFires \/ OtherEvent \/ EditOverrides
  <2>1. /\ queue' \in Queues({Key}) /\ Key \in queue'.dirty
        /\ queue'.processing = queue.processing
    BY <1>7 DEF TimerFires, OtherEvent, EditOverrides, Enqueue, Queues, Times
  <2>2. timer' \subseteq Nat /\ overrides' \in Overrides /\ UNCHANGED <<now, last, worker, status>>
    BY <1>7 DEF TimerFires, OtherEvent, EditOverrides, Times
  <2> QED BY <1>1, <2>1, <2>2 DEF Times, AtWork, NewIsEmpty, Pending
<1>8. CASE UNCHANGED vars
  BY <1>8 DEF vars, ScheduleInv, Times, AtWork, NewIsEmpty, Pending, CalculatedIsInEffect,
              Effective, InEffect, WakeUpOrdered
<1> QED BY <1>2, <1>3, <1>4, <1>5, <1>6, <1>7, <1>8 DEF Next, Reconcile

(* The inductive invariant holds in every reachable state.                 *)
THEOREM ScheduleInvariant == Spec => []ScheduleInv
BY ScheduleInit, ScheduleStep, PTL DEF Spec

(* Once the controller is at rest, what CheckThrottledFor takes for the    *)
(* threshold is what the last reconcile calculated from the overrides as   *)
(* they are, whatever edits, conflicts and failed updates there were.      *)
THEOREM InEffectAtRest == Spec => []CalculatedIsInEffect
<1>1. ScheduleInv => CalculatedIsInEffect
  BY DEF ScheduleInv
<1> QED BY <1>1, ScheduleInvariant, PTL

(* Every begin and end to come has a wake-up ordered for it, though the    *)
(* delaying queue keeps one time only.                                     *)
THEOREM NoInstantIsMissed == Spec => []WakeUpOrdered
<1>1. ScheduleInv => WakeUpOrdered
  BY DEF ScheduleInv
<1> QED BY <1>1, ScheduleInvariant, PTL

(* The calculation announced next holds until then, for the overrides at   *)
(* hand and at any time (CalculateThreshold, NextOverrideHappensIn).       *)
THEOREM HoldsUntilNextAlways == Spec => []HoldsUntilNextOverride
<1>1. ScheduleInv => HoldsUntilNextOverride
  BY CalculationHolds, HorizonAssumption DEF ScheduleInv, Times, HoldsUntilNextOverride
<1> QED BY <1>1, ScheduleInvariant, PTL

(* The first active override lives, for the overrides at hand and at any   *)
(* time (CalculateThreshold).                                              *)
THEOREM FirstOverrideLivesAlways == Spec => []FirstOverrideLives
<1>1. ScheduleInv => FirstOverrideLives
  BY EarlierOverridesLive DEF ScheduleInv, Times, FirstOverrideLives
<1> QED BY <1>1, ScheduleInvariant, PTL

-----------------------------------------------------------------------------
(* An edit is a disturbance, so the version stays within their bound.      *)
TypeInv == TypeOK /\ ScheduleInv /\ rv <= disturbances

LEMMA Numbers == Horizon \in Nat /\ Horizon # 0 /\ MaxDisturbances \in Nat
BY HorizonAssumption

LEMMA TypeInit == Init => TypeInv
<1> SUFFICES ASSUME Init PROVE TypeInv
  OBVIOUS
<1>1. ScheduleInv
  BY ScheduleInit
<1>2. Cardinality({}) = 0
  BY FS_EmptySet
<1>3. 1 \in 1..Horizon
  BY Numbers
<1> QED BY <1>1, <1>2, <1>3, Numbers DEF Init, TypeInv, TypeOK, ScheduleInv, Times, NoReconcile

LEMMA TypeStep == TypeInv /\ [Next]_vars => TypeInv'
<1> SUFFICES ASSUME TypeInv, [Next]_vars PROVE TypeInv'
  OBVIOUS
<1>0. /\ now \in 1..Horizon /\ rv \in 0..MaxDisturbances /\ rv <= disturbances
      /\ status.at \in BOOLEAN /\ status.messages \subseteq UNION {DOMAIN o : o \in Overrides}
      /\ Cardinality(timer) <= 1
      /\ worker.busy => worker.overrides \in Overrides /\ worker.now \in 1..now
      /\ last.now \in 0..now /\ disturbances \in 0..MaxDisturbances
  BY DEF TypeInv, TypeOK
<1>1. /\ ScheduleInv /\ ScheduleInv'
  BY ScheduleStep DEF TypeInv
<1>2. /\ overrides' \in Overrides /\ queue' \in Queues({Key}) /\ timer' \subseteq Nat
  BY <1>1 DEF ScheduleInv, Times
<1>3. ASSUME /\ now' \in 1..Horizon /\ rv' \in 0..MaxDisturbances /\ rv' <= disturbances'
             /\ status'.at \in BOOLEAN
             /\ status'.messages \subseteq UNION {DOMAIN o : o \in Overrides}
             /\ Cardinality(timer') <= 1
             /\ worker'.busy => worker'.overrides \in Overrides /\ worker'.now \in 1..now'
             /\ last'.now \in 0..now' /\ disturbances' \in 0..MaxDisturbances
      PROVE  TypeInv'
  BY <1>1, <1>2, <1>3 DEF TypeInv, TypeOK
<1>4. worker.busy => /\ NewStatus.at \in BOOLEAN
                     /\ NewStatus.messages \subseteq UNION {DOMAIN o : o \in Overrides}
  <2> SUFFICES ASSUME worker.busy
               PROVE  /\ NewStatus.at \in BOOLEAN
                      /\ NewStatus.messages \subseteq UNION {DOMAIN o : o \in Overrides}
    OBVIOUS
  <2>1. Calculated.messages \subseteq DOMAIN worker.overrides
    BY DEF Calculated, CalculateThreshold
  <2>2. \/ NewStatus = status
        \/ NewStatus.at = TRUE /\ NewStatus.messages = Calculated.messages
    BY DEF NewStatus
  <2> QED BY <1>0, <2>1, <2>2
<1>5. Disturb => disturbances' \in 0..MaxDisturbances /\ disturbances' = disturbances + 1
  BY <1>0, Numbers DEF Disturb
<1>6. CASE Tick
  BY <1>0, <1>3, <1>6, Numbers DEF Tick
<1>7. CASE StartReconcile
  BY <1>0, <1>1, <1>3, <1>7 DEF StartReconcile, ScheduleInv, Times
<1>8. CASE ReconcileSucceeds
  <2>1. /\ worker.busy /\ status' = NewStatus /\ worker' = NoReconcile
        /\ last'.now = worker.now
        /\ UNCHANGED <<now, overrides, rv, disturbances>>
    BY <1>8 DEF ReconcileSucceeds
  <2>2. Cardinality(timer') <= 1
    <3>1. \A d : AddAfter(d) => Cardinality(timer') = 1
      BY FS_Singleton DEF AddAfter
    <3>2. UNCHANGED timer \/ \E d : AddAfter(d)
      BY <1>8 DEF ReconcileSucceeds
    <3> QED BY <1>0, <3>1, <3>2
  <2>3. worker.now \in 0..now
    BY <1>0, <2>1
  <2> QED BY <1>0, <1>3, <1>4, <2>1, <2>2, <2>3 DEF NoReconcile
<1>9. CASE ReconcileFails
  <2>1. /\ worker.busy /\ status' \in {status, NewStatus} /\ worker' = NoReconcile
        /\ UNCHANGED disturbances \/ Disturb
        /\ UNCHANGED <<now, overrides, rv, timer, last>>
    BY <1>9 DEF ReconcileFails
  <2> QED BY <1>0, <1>3, <1>4, <1>5, <2>1 DEF NoReconcile
<1>10. CASE RetryExpires
  BY <1>0, <1>3, <1>10 DEF RetryExpires
<1>11. CASE TimerFires
  BY <1>0, <1>3, <1>11, FS_EmptySet DEF TimerFires
<1>12. CASE OtherEvent
  BY <1>0, <1>3, <1>5, <1>12 DEF OtherEvent
<1>13. CASE EditOverrides
  <2>1. /\ Disturb /\ rv' = rv + 1
        /\ UNCHANGED <<now, status, timer, worker, last>>
    BY <1>13 DEF EditOverrides
  <2>2. rv' <= disturbances' /\ rv' \in 0..MaxDisturbances
    BY <1>0, <1>5, <2>1, Numbers
  <2> QED BY <1>0, <1>3, <1>5, <2>1, <2>2
<1>14. CASE UNCHANGED vars
  BY <1>0, <1>3, <1>14 DEF vars
<1> QED BY <1>6, <1>7, <1>8, <1>9, <1>10, <1>11, <1>12, <1>13, <1>14 DEF Next, Reconcile

(* The model is typed: one wake-up at most, versions that count the edits, *)
(* a clock that no reconcile is ahead of.                                  *)
THEOREM ScheduleTypeCorrect == Spec => []TypeOK
<1>1. TypeInv => TypeOK
  BY DEF TypeInv
<1> QED BY <1>1, TypeInit, TypeStep, PTL DEF Spec
=============================================================================

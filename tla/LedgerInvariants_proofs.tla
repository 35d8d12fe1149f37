---------------------- MODULE LedgerInvariants_proofs -----------------------
(***************************************************************************)
(* Proofs about ThrottleController, for any pods, workers, requests and    *)
(* threshold, any bound on the disturbances, and every kind of them: its   *)
(* types, the invariants of LedgerInvariants and what follows from them,   *)
(* and that no repair of a status and, for a ClusterThrottle, no leftover  *)
(* reservation is forgotten, whatever fails.                               *)
(***************************************************************************)
EXTENDS LedgerInvariants, SequenceTheorems, TLAPS

(* What affectedPods returns as terminated is terminated.                  *)
LEMMA TerminatedPodsType ==
    ASSUME NEW live, NEW finished, NEW S \in TerminatedPods(live, finished)
    PROVE  S \subseteq finished
BY DEF TerminatedPods

LEMMA IdleType == Idle \in Reconciles /\ Idle.pc = "idle"
BY DEF Idle, Keys, Reconciles

LEMMA NoCycleType == NoCycle \in Cycles
BY DEF NoCycle, Cycles

(* One worker moves on; the others stay where they are.                    *)
LEMMA WorkerStep ==
    ASSUME worker \in [Workers -> Reconciles],
           NEW w \in Workers, NEW state \in Reconciles, Become(w, state)
    PROVE  /\ worker' \in [Workers -> Reconciles]
           /\ worker'[w] = state
           /\ \A v \in Workers \ {w} : worker'[v] = worker[v]
BY DEF Become

(* ... and every pointer is still to a version that was delivered.         *)
LEMMA WorkerType ==
    ASSUME TypeOK, NEW w \in Workers, NEW state \in Reconciles, Become(w, state),
           state.pc = "idle" \/ state.rv \in 1..listerRv
    PROVE  /\ worker' \in [Workers -> Reconciles]
           /\ \A v \in Workers : worker'[v].pc = "idle" \/ worker'[v].rv \in 1..listerRv
BY WorkerStep DEF TypeOK, At

(* The operations of the work queue keep its type.                         *)
LEMMA QueueType ==
    ASSUME NEW q \in Queues(Keys), NEW k \in Keys
    PROVE  /\ Enqueue(q, k) \in Queues(Keys)
           /\ Take(q, k) \in Queues(Keys)
           /\ Done(q, k) \in Queues(Keys)
           /\ AddRateLimited(q, k) \in Queues(Keys)
           /\ Expire(q, k) \in Queues(Keys)
BY DEF Queues, Enqueue, Take, Done, AddRateLimited, Expire

LEMMA TotalsUsed == \A C \in SUBSET Pods : Used(C) \in Totals
BY DEF Totals

-----------------------------------------------------------------------------
(* Type correctness.                                                       *)

LEMMA TypeInit == Init => TypeOK
<1> SUFFICES ASSUME Init PROVE TypeOK
  OBVIOUS
<1>1. Used({}) \in Totals
  BY TotalsUsed
<1>2. object \in Seq(Totals) /\ Len(object) = 1 /\ apiUsed \in Totals
  BY <1>1 DEF Init
<1>3. worker \in [Workers -> Reconciles] /\ \A w \in Workers : At(w, "idle")
  BY IdleType DEF Init, At
<1>4. queue \in Queues(Keys)
  BY DEF Init, EmptyQueue, Queues
<1>5. disturbances \in 0..MaxDisturbances
  BY DisturbancesAssumption DEF Init
<1> QED BY <1>2, <1>3, <1>4, <1>5, NoCycleType DEF Init, TypeOK

LEMMA TypeStep == TypeOK /\ [Next]_vars => TypeOK'
<1> SUFFICES ASSUME TypeOK, [Next]_vars PROVE TypeOK'
  OBVIOUS
<1>0. /\ Len(object) \in Nat
      /\ listerRv \in Nat /\ listerRv \in 1..listerRv
      /\ ObjectKey \in Keys /\ NameKey \in Keys
      /\ \A w \in Workers : worker[w] \in Reconciles /\ worker[w].key \in Keys
  <2>1. Len(object) \in Nat /\ listerRv \in Nat /\ listerRv \in 1..listerRv
    BY LenProperties DEF TypeOK
  <2>2. \A w \in Workers : worker[w] \in Reconciles
    BY DEF TypeOK
  <2> QED BY <2>1, <2>2 DEF Keys, Reconciles
<1>1. ASSUME NEW w \in Workers, StartReconcile(w) PROVE TypeOK'
  <2>1. PICK k \in Ready(queue) :
            /\ queue' = Take(queue, k)
            /\ Become(w, [Idle EXCEPT !.pc = "list", !.key = k, !.rv = listerRv])
    BY <1>1 DEF StartReconcile
  <2> DEFINE state == [Idle EXCEPT !.pc = "list", !.key = k, !.rv = listerRv]
  <2>2. k \in Keys
    BY DEF Ready, Queues, TypeOK
  <2>3. state \in Reconciles /\ state.rv \in 1..listerRv
    BY <1>0, <2>2 DEF Idle, Reconciles
  <2>4. queue' \in Queues(Keys)
    BY <2>1, <2>2, QueueType DEF TypeOK
  <2> HIDE DEF state
  <2>5. Become(w, state)
    BY <2>1 DEF state
  <2> QED BY <1>0, <1>1, <2>3, <2>4, <2>5, WorkerType
          DEF StartReconcile, TypeOK, At, pods, throttle, scheduler, history
<1>2. ASSUME NEW w \in Workers, ListAffectedPods(w) PROVE TypeOK'
  <2>1. PICK terminated \in TerminatedPods(Live, Finished) :
            Become(w, [worker[w] EXCEPT !.pc = "compare", !.live = Live,
                                        !.todo = Live \cup terminated])
    BY <1>2 DEF ListAffectedPods
  <2> DEFINE state == [worker[w] EXCEPT !.pc = "compare", !.live = Live,
                                        !.todo = Live \cup terminated]
  <2>2. terminated \subseteq Pods /\ Live \subseteq Pods
    BY TerminatedPodsType DEF Live, Finished
  <2>3. state \in Reconciles /\ state.rv = worker[w].rv
    BY <1>0, <2>2 DEF Reconciles
  <2>4. worker[w].rv \in 1..listerRv
    BY <1>2 DEF ListAffectedPods, At, TypeOK
  <2> HIDE DEF state
  <2>5. Become(w, state)
    BY <2>1 DEF state
  <2> QED BY <1>2, <2>3, <2>4, <2>5, WorkerType
          DEF ListAffectedPods, TypeOK, At, pods, throttle, scheduler, history
<1>3. ASSUME NEW w \in Workers, StatusUnchanged(w) PROVE TypeOK'
  <2> DEFINE state == [worker[w] EXCEPT !.pc = "unreserve", !.live = {}]
  <2>1. state \in Reconciles /\ state.rv = worker[w].rv /\ worker[w].rv \in 1..listerRv
    BY <1>0, <1>3 DEF StatusUnchanged, At, Reconciles, TypeOK
  <2> HIDE DEF state
  <2>2. Become(w, state)
    BY <1>3 DEF StatusUnchanged, state
  <2> QED BY <1>3, <2>1, <2>2, WorkerType
          DEF StatusUnchanged, TypeOK, At, pods, throttle, scheduler, history
<1>4. ASSUME NEW w \in Workers, StatusChanged(w) PROVE TypeOK'
  <2> DEFINE state == [worker[w] EXCEPT !.pc = "update"]
  <2>1. state \in Reconciles /\ state.rv = worker[w].rv /\ worker[w].rv \in 1..listerRv
    BY <1>0, <1>4 DEF StatusChanged, At, Reconciles, TypeOK
  <2>2. NewUsed(w) \in Totals
    BY <1>0, TotalsUsed DEF NewUsed, Reconciles
  <2>3. object' \in Seq(Totals) /\ Len(object') = Len(object)
    BY <1>0, <1>4, <2>1, <2>2, ExceptSeq DEF StatusChanged, TypeOK
  <2> HIDE DEF state
  <2>4. Become(w, state)
    BY <1>4 DEF StatusChanged, state
  <2> QED BY <1>4, <2>1, <2>3, <2>4, WorkerType
          DEF StatusChanged, TypeOK, At, pods, scheduler, history
<1>5. ASSUME NEW used \in Totals, StoreStatus(used)
      PROVE  object' \in Seq(Totals) /\ Len(object') \in Nat
             /\ Len(object') >= Len(object) /\ apiUsed' \in Totals
  BY <1>0, <1>5, AppendProperties DEF StoreStatus, TypeOK
<1>6. ASSUME NEW w \in Workers, UpdateSucceeds(w) PROVE TypeOK'
  <2> DEFINE state == [worker[w] EXCEPT !.pc = "unreserve", !.live = {}]
  <2>1. state \in Reconciles /\ state.rv = worker[w].rv /\ worker[w].rv \in 1..listerRv
    BY <1>0, <1>6 DEF UpdateSucceeds, At, Reconciles, TypeOK
  <2>2. object[worker[w].rv] \in Totals
    BY <1>0, <1>6, <2>1, ElementOfSeq DEF UpdateSucceeds, TypeOK
  <2>3. object' \in Seq(Totals) /\ Len(object') \in Nat
        /\ Len(object') >= Len(object) /\ apiUsed' \in Totals
    BY <1>5, <1>6, <2>2 DEF UpdateSucceeds
  <2> HIDE DEF state
  <2>4. Become(w, state)
    BY <1>6 DEF UpdateSucceeds, state
  <2> QED BY <1>0, <1>6, <2>1, <2>3, <2>4, WorkerType
          DEF UpdateSucceeds, TypeOK, At, pods, scheduler, history
<1>7. ASSUME NEW w \in Workers, Become(w, Idle)
      PROVE  /\ worker' \in [Workers -> Reconciles]
             /\ \A v \in Workers : worker'[v].pc = "idle" \/ worker'[v].rv \in 1..listerRv
  BY <1>7, IdleType, WorkerType
<1>8. ASSUME NEW w \in Workers, RetryLater(w)
      PROVE  queue' \in Queues(Keys) /\ Become(w, Idle)
  BY <1>0, <1>8, QueueType DEF RetryLater, TypeOK
<1>9. ASSUME NEW w \in Workers, UpdateConflicts(w) PROVE TypeOK'
  BY <1>9, <1>7, <1>8 DEF UpdateConflicts, Note, TypeOK, At, pods, throttle, scheduler
<1>10. ASSUME NEW w \in Workers, UpdateFails(w) PROVE TypeOK'
  <2>1. object' \in Seq(Totals) /\ Len(object') \in Nat
        /\ Len(object') >= Len(object) /\ apiUsed' \in Totals
    <3>1. CASE UNCHANGED <<apiUsed, object>>
      BY <1>0, <3>1 DEF TypeOK
    <3>2. CASE worker[w].rv = Len(object) /\ StoreStatus(object[worker[w].rv])
      <4>1. worker[w].rv \in 1..Len(object)
        BY <1>0, <3>2 DEF TypeOK
      <4>2. object[worker[w].rv] \in Totals
        BY <4>1, ElementOfSeq DEF TypeOK
      <4> QED BY <3>2, <4>2, <1>5
    <3> QED BY <1>10, <3>1, <3>2 DEF UpdateFails
  <2>2. faults' \subseteq AllDisturbances \cup {"conflict", "staleRead"}
    BY <1>10 DEF UpdateFails, Note, AllDisturbances, TypeOK
  <2>3. disturbances' \in 0..MaxDisturbances
    BY <1>10, DisturbancesAssumption DEF UpdateFails, Disturb, TypeOK
  <2>4. RetryLater(w)
    BY <1>10 DEF UpdateFails
  <2> QED BY <1>0, <1>10, <1>7, <1>8, <2>1, <2>2, <2>3, <2>4
          DEF UpdateFails, TypeOK, At, pods, scheduler
<1>11. ASSUME NEW w \in Workers, UnreserveAffectedPod(w) PROVE TypeOK'
  <2>1. PICK p \in worker[w].todo :
            /\ reserved' = reserved \ {p}
            /\ Become(w, [worker[w] EXCEPT !.todo = @ \ {p}])
    BY <1>11 DEF UnreserveAffectedPod
  <2> DEFINE state == [worker[w] EXCEPT !.todo = @ \ {p}]
  <2>2. state \in Reconciles /\ state.rv = worker[w].rv /\ worker[w].rv \in 1..listerRv
    BY <1>0, <1>11 DEF UnreserveAffectedPod, At, Reconciles, TypeOK
  <2> HIDE DEF state
  <2>3. Become(w, state)
    BY <2>1 DEF state
  <2> QED BY <1>11, <2>1, <2>2, <2>3, WorkerType
          DEF UnreserveAffectedPod, TypeOK, At, pods, throttle, scheduler, history
<1>12. ASSUME NEW w \in Workers, FinishReconcile(w) PROVE TypeOK'
  BY <1>0, <1>12, <1>7, QueueType
     DEF FinishReconcile, TypeOK, At, pods, throttle, scheduler, history
<1>13. CASE RetryExpires
  <2>1. queue' \in Queues(Keys)
    <3>1. PICK k \in queue.waiting : queue' = Expire(queue, k)
      BY <1>13 DEF RetryExpires
    <3>2. k \in Keys
      BY DEF TypeOK, Queues
    <3> QED BY <3>1, <3>2, QueueType DEF TypeOK
  <2> QED BY <1>13, <2>1 DEF RetryExpires, TypeOK, At, pods, throttle, scheduler, history
<1>14. ASSUME NEW p \in Pods, DeliverPod(p) PROVE TypeOK'
  BY <1>14 DEF DeliverPod, NextEvents, TypeOK, At, throttle, scheduler, history
<1>15. ASSUME NEW p \in Pods, HandlePod(p) PROVE TypeOK'
  <2>1. podHandled' \in [Pods -> SUBSET PodEvents]
    BY <1>15 DEF HandlePod, NextEvents, TypeOK
  <2>2. queue \in Queues(Keys) /\ reserved \subseteq Pods
    BY DEF TypeOK
  <2>3. /\ reserved' \in {reserved, reserved \ {p}}
        /\ queue' \in {queue, Enqueue(queue, NameKey), Enqueue(queue, ObjectKey)}
    BY <1>15 DEF HandlePod
  <2>4. queue' \in Queues(Keys) /\ reserved' \subseteq Pods
    BY <1>0, <2>2, <2>3, QueueType
  <2> QED BY <1>15, <2>1, <2>4 DEF HandlePod, TypeOK, At, throttle, scheduler, history
<1>16. CASE DeliverThrottle
  <2>1. /\ listerRv' \in 1..Len(object)
        /\ \A i \in 1..listerRv : i \in 1..listerRv'
    BY <1>0, <1>16 DEF DeliverThrottle, TypeOK
  <2> QED BY <1>16, <2>1 DEF DeliverThrottle, TypeOK, At, pods, scheduler, history
<1>17. CASE HandleThrottle
  <2>1. queue' \in Queues(Keys) /\ handledRv' \in 0..Len(object)
    BY <1>0, <1>17, QueueType DEF HandleThrottle, TypeOK
  <2> QED BY <1>17, <2>1 DEF HandleThrottle, TypeOK, At, pods, scheduler, history
<1>18. CASE Resync
  <2>1. queue' \in Queues(Keys)
    BY <1>0, <1>18, QueueType DEF Resync, TypeOK
  <2> QED BY <1>18, <2>1 DEF Resync, TypeOK, At, pods, throttle, scheduler, history
<1>19. ASSUME NEW p \in Pods, PreFilter(p) PROVE TypeOK'
  <2>1. sched' \in Cycles
    BY <1>0, <1>19 DEF PreFilter, NoCycle, Cycles
  <2> QED BY <1>19, <2>1 DEF PreFilter, TypeOK, At, pods, throttle, history
<1>20. CASE ReadReserved
  <2>1. sched' \in Cycles
    BY <1>20 DEF ReadReserved, Cycles, TypeOK
  <2> QED BY <1>20, <2>1 DEF ReadReserved, TypeOK, At, pods, throttle, history
<1>21. CASE CheckThrottledFor
  <2>1. PICK p \in sched.pod :
            sched' = NoCycle \/ sched' = [NoCycle EXCEPT !.pc = "passed", !.pod = {p}]
    BY <1>21 DEF CheckThrottledFor
  <2>2. p \in Pods
    BY DEF TypeOK, Cycles
  <2>3. sched' \in Cycles
    <3>1. [NoCycle EXCEPT !.pc = "passed", !.pod = {p}] \in Cycles
      BY <2>2 DEF NoCycle, Cycles
    <3> QED BY <2>1, <3>1, NoCycleType
  <2>4. faults' \subseteq AllDisturbances \cup {"conflict", "staleRead"}
    BY <1>21 DEF CheckThrottledFor, Note, TypeOK
  <2> QED BY <1>21, <2>3, <2>4 DEF CheckThrottledFor, TypeOK, At, pods, throttle
<1>22. CASE Reserve
  <2>1. PICK p \in sched.pod :
            reserved' = reserved \cup {p} /\ bind' = [bind EXCEPT ![p] = "binding"]
    BY <1>22 DEF Reserve
  <2>2. p \in Pods
    BY DEF TypeOK, Cycles
  <2> QED BY <1>22, <2>1, <2>2, NoCycleType
          DEF Reserve, TypeOK, At, pods, throttle, history
<1>23. CASE Abandon
  BY <1>23, NoCycleType DEF Abandon, TypeOK, At, pods, throttle, history
<1>24. ASSUME NEW p \in Pods, BindSucceeds(p) PROVE TypeOK'
  BY <1>24 DEF BindSucceeds, PodEvents, TypeOK, At, throttle, history
<1>25. ASSUME NEW p \in Pods, BindAnswerLost(p) PROVE TypeOK'
  <2>1. disturbances' \in 0..MaxDisturbances
    BY <1>25, DisturbancesAssumption DEF BindAnswerLost, Disturb, TypeOK
  <2>2. faults' \subseteq AllDisturbances \cup {"conflict", "staleRead"}
    BY <1>25 DEF BindAnswerLost, Note, AllDisturbances, TypeOK
  <2> QED BY <1>25, <2>1, <2>2 DEF BindAnswerLost, PodEvents, TypeOK, At, throttle
<1>26. ASSUME NEW p \in Pods, Unreserve(p) PROVE TypeOK'
  BY <1>26 DEF Unreserve, TypeOK, At, pods, throttle, history
<1>27. ASSUME NEW p \in Pods, PodFinishes(p) \/ PodDeleted(p) PROVE TypeOK'
  BY <1>27 DEF PodFinishes, PodDeleted, PodEvents, TypeOK, At, throttle, scheduler, history
<1>28. CASE EditThrottle
  <2>1. object' \in Seq(Totals) /\ Len(object') = Len(object) + 1
    BY <1>28, AppendProperties DEF EditThrottle, TypeOK
  <2>2. disturbances' \in 0..MaxDisturbances
    BY <1>28, DisturbancesAssumption DEF EditThrottle, Disturb, TypeOK
  <2> QED BY <1>0, <1>28, <2>1, <2>2 DEF EditThrottle, TypeOK, At, pods, scheduler
<1>29. CASE Restart
  <2>1. Len(object) \in 1..Len(object) /\ Len(object) - 1 \in 0..Len(object)
    BY <1>0 DEF TypeOK
  <2>2. object' \in Seq(Totals) /\ Len(object') = Len(object)
    BY <1>29, <2>1, ExceptSeq DEF Restart, TypeOK
  <2>3. queue' \in Queues(Keys)
    BY <1>29 DEF Restart, EmptyQueue, Queues
  <2>4. disturbances' \in 0..MaxDisturbances
    BY <1>29, DisturbancesAssumption DEF Restart, Disturb, TypeOK
  <2>5. faults' \subseteq AllDisturbances \cup {"conflict", "staleRead"}
    BY <1>29 DEF Restart, Note, AllDisturbances, TypeOK
  <2>6. worker' \in [Workers -> Reconciles] /\ \A w \in Workers : worker'[w].pc = "idle"
    BY <1>29, IdleType DEF Restart
  <2> QED BY <1>29, <2>1, <2>2, <2>3, <2>4, <2>5, <2>6, NoCycleType
          DEF Restart, TypeOK, At
<1>30. CASE UNCHANGED vars
  BY <1>30 DEF vars, pods, throttle, scheduler, history, TypeOK, At
<1> QED BY <1>1, <1>2, <1>3, <1>4, <1>6, <1>9, <1>10, <1>11, <1>12, <1>13, <1>14, <1>15,
           <1>16, <1>17, <1>18, <1>19, <1>20, <1>21, <1>22, <1>23, <1>24, <1>25, <1>26,
           <1>27, <1>28, <1>29, <1>30
        DEF Next, Reconcile, Inform, Schedule, Bind, Environment

(* The variables keep their types (TypeOK).                                *)
THEOREM TypeCorrect == Spec => []TypeOK
BY TypeInit, TypeStep, PTL DEF Spec

-----------------------------------------------------------------------------
(* The invariants of LedgerInvariants.                                     *)
LEMMA ReservationInit == Init => ReservationInv
BY TypeInit DEF Init, ReservationInv, CachesLag, BoundLast, RemovesScheduled, InFlight,
                Idle, NoCycle

LEMMA ReservationStep == ReservationInv /\ [Next]_vars => ReservationInv'
<1> SUFFICES ASSUME ReservationInv, [Next]_vars PROVE ReservationInv'
  OBVIOUS
<1>0. TypeOK' /\ TypeOK
  BY TypeStep DEF ReservationInv
<1> USE DEF ReservationInv
<1>1. ASSUME UNCHANGED <<pods, reserved, scheduler>>, NEW w \in Workers, NEW state,
             Become(w, state), \A p \in state.todo : IsScheduled(podLister[p])
      PROVE  ReservationInv'
  BY <1>0, <1>1 DEF Become, TypeOK, CachesLag, BoundLast, RemovesScheduled, InFlight,
                    IsScheduled, pods, scheduler
<1>2. ASSUME UNCHANGED <<pods, reserved, scheduler, worker>>
      PROVE  ReservationInv'
  BY <1>0, <1>2 DEF CachesLag, BoundLast, RemovesScheduled, InFlight, pods, scheduler
<1>3. (\A w \in Workers : worker[w] \in Reconciles) /\ sched.pod \subseteq Pods
  BY <1>0 DEF TypeOK, Cycles
<1>4. ASSUME NEW w \in Workers, StartReconcile(w) PROVE ReservationInv'
  <2>1. PICK k \in Ready(queue) :
            Become(w, [Idle EXCEPT !.pc = "list", !.key = k, !.rv = listerRv])
    BY <1>4 DEF StartReconcile
  <2>2. [Idle EXCEPT !.pc = "list", !.key = k, !.rv = listerRv].todo = {}
    BY DEF Idle
  <2> QED BY <1>1, <1>4, <2>1, <2>2 DEF StartReconcile
<1>5. ASSUME NEW w \in Workers, ListAffectedPods(w) PROVE ReservationInv'
  <2>1. PICK terminated \in TerminatedPods(Live, Finished) :
            Become(w, [worker[w] EXCEPT !.pc = "compare", !.live = Live,
                                        !.todo = Live \cup terminated])
    BY <1>5 DEF ListAffectedPods
  <2>2. terminated \subseteq Finished
    BY TerminatedPodsType
  <2>3. [worker[w] EXCEPT !.pc = "compare", !.live = Live,
                          !.todo = Live \cup terminated].todo = Live \cup terminated
    BY <1>3 DEF Reconciles
  <2>4. \A p \in Live \cup Finished : IsScheduled(podLister[p])
    BY DEF Live, Finished, IsLive, IsFinished, IsScheduled
  <2> QED BY <1>1, <1>5, <2>1, <2>2, <2>3, <2>4 DEF ListAffectedPods
<1>6. ASSUME NEW w \in Workers, StatusUnchanged(w) PROVE ReservationInv'
  <2>1. [worker[w] EXCEPT !.pc = "unreserve", !.live = {}].todo = worker[w].todo
    BY <1>3 DEF Reconciles
  <2> QED BY <1>1, <1>6, <2>1 DEF StatusUnchanged, RemovesScheduled
<1>7. ASSUME NEW w \in Workers, StatusChanged(w) PROVE ReservationInv'
  <2>1. [worker[w] EXCEPT !.pc = "update"].todo = worker[w].todo
    BY <1>3 DEF Reconciles
  <2> QED BY <1>1, <1>7, <2>1 DEF StatusChanged, RemovesScheduled
<1>8. ASSUME NEW w \in Workers, UpdateSucceeds(w) PROVE ReservationInv'
  <2>1. [worker[w] EXCEPT !.pc = "unreserve", !.live = {}].todo = worker[w].todo
    BY <1>3 DEF Reconciles
  <2> QED BY <1>1, <1>8, <2>1 DEF UpdateSucceeds, RemovesScheduled
<1>9. Idle.todo = {}
  BY DEF Idle
<1>10. ASSUME NEW w \in Workers, UpdateConflicts(w) \/ UpdateFails(w) PROVE ReservationInv'
  BY <1>1, <1>9, <1>10 DEF UpdateConflicts, UpdateFails, RetryLater
<1>11. ASSUME NEW w \in Workers, UnreserveAffectedPod(w) PROVE ReservationInv'
  <2>1. PICK p \in worker[w].todo :
            /\ reserved' = reserved \ {p}
            /\ Become(w, [worker[w] EXCEPT !.todo = @ \ {p}])
    BY <1>11 DEF UnreserveAffectedPod
  <2>2. p \in Pods /\ IsScheduled(apiPod[p])
    BY <1>3 DEF Reconciles, RemovesScheduled, CachesLag, IsScheduled
  <2>3. BoundLast'
    BY <1>11, <2>1, <2>2 DEF UnreserveAffectedPod, BoundLast, InFlight, pods, scheduler
  <2>4. RemovesScheduled'
    BY <1>0, <1>3, <1>11, <2>1
       DEF UnreserveAffectedPod, Become, RemovesScheduled, TypeOK, Reconciles, pods
  <2> QED BY <1>0, <1>11, <2>3, <2>4 DEF UnreserveAffectedPod, CachesLag, pods
<1>12. ASSUME NEW w \in Workers, FinishReconcile(w) PROVE ReservationInv'
  BY <1>1, <1>9, <1>12 DEF FinishReconcile
<1>13. ASSUME NEW p \in Pods, DeliverPod(p) PROVE ReservationInv'
  <2>1. /\ \A q \in Pods : podLister[q] \subseteq podLister'[q]
        /\ \A q \in Pods : podLister'[q] \subseteq apiPod[q]
    BY <1>0, <1>13 DEF DeliverPod, NextEvents, CachesLag, TypeOK
  <2>2. CachesLag'
    BY <1>13, <2>1 DEF DeliverPod, CachesLag
  <2>3. BoundLast'
    BY <1>13 DEF DeliverPod, BoundLast, InFlight, scheduler
  <2>4. RemovesScheduled'
    BY <1>3, <1>13, <2>1 DEF DeliverPod, RemovesScheduled, IsScheduled, Reconciles
  <2> QED BY <1>0, <2>2, <2>3, <2>4
<1>14. ASSUME NEW p \in Pods, HandlePod(p) PROVE ReservationInv'
  <2>1. CachesLag'
    BY <1>0, <1>14 DEF HandlePod, NextEvents, CachesLag, TypeOK
  <2>2. reserved' = reserved \/ (reserved' = reserved \ {p} /\ IsScheduled(apiPod[p]))
    BY <1>14 DEF HandlePod, CachesLag, IsScheduled
  <2>3. BoundLast'
    BY <1>14, <2>2 DEF HandlePod, BoundLast, InFlight, scheduler
  <2> QED BY <1>0, <1>14, <2>1, <2>3 DEF HandlePod, RemovesScheduled
<1>15. CASE RetryExpires \/ DeliverThrottle \/ HandleThrottle \/ Resync
  BY <1>2, <1>15 DEF RetryExpires, DeliverThrottle, HandleThrottle, Resync
<1>16. CASE EditThrottle
  BY <1>2, <1>16 DEF EditThrottle
<1>17. ASSUME UNCHANGED <<pods, worker, reserved, bind>>,
              \A p \in sched'.pod : p \notin InFlight /\ ~IsScheduled(apiPod[p])
       PROVE  ReservationInv'
  BY <1>0, <1>17 DEF CachesLag, BoundLast, RemovesScheduled, InFlight, pods
<1>18. NoCycle.pod = {}
  BY DEF NoCycle
<1>19. ASSUME NEW p \in Pods, PreFilter(p) PROVE ReservationInv'
  <2>1. [NoCycle EXCEPT !.pc = "listed", !.pod = {p}, !.rv = listerRv].pod = {p}
    BY DEF NoCycle
  <2> QED BY <1>17, <1>19, <2>1 DEF PreFilter, InFlight, IsScheduled
<1>20. CASE ReadReserved
  <2>1. [sched EXCEPT !.pc = "read", !.reserved = reserved].pod = sched.pod
    BY <1>0 DEF TypeOK, Cycles
  <2> QED BY <1>17, <1>20, <2>1 DEF ReadReserved, BoundLast
<1>21. CASE CheckThrottledFor
  <2>1. PICK p \in sched.pod :
            sched' = NoCycle \/ sched' = [NoCycle EXCEPT !.pc = "passed", !.pod = {p}]
    BY <1>21 DEF CheckThrottledFor
  <2>2. [NoCycle EXCEPT !.pc = "passed", !.pod = {p}].pod = {p}
    BY DEF NoCycle
  <2> QED BY <1>17, <1>18, <1>21, <2>1, <2>2 DEF CheckThrottledFor, BoundLast
<1>22. CASE Reserve
  <2>1. PICK p \in sched.pod :
            reserved' = reserved \cup {p} /\ bind' = [bind EXCEPT ![p] = "binding"]
    BY <1>22 DEF Reserve
  <2>2. BoundLast'
    BY <1>0, <1>18, <1>22, <2>1 DEF Reserve, BoundLast, InFlight, TypeOK, pods
  <2> QED BY <1>0, <1>22, <2>2 DEF Reserve, CachesLag, RemovesScheduled, pods
<1>23. CASE Abandon
  BY <1>17, <1>18, <1>23 DEF Abandon
<1>24. ASSUME UNCHANGED <<podLister, podHandled, worker>>,
              \A p \in Pods : apiPod[p] \subseteq apiPod'[p],
              BoundLast'
       PROVE  ReservationInv'
  BY <1>0, <1>24 DEF CachesLag, RemovesScheduled
<1>25. ASSUME NEW p \in Pods, BindSucceeds(p) \/ BindAnswerLost(p) PROVE ReservationInv'
  <2>1. apiPod' = [apiPod EXCEPT ![p] = {"bound"}] /\ apiPod[p] = {}
    BY <1>25 DEF BindSucceeds, BindAnswerLost
  <2>2. bind[p] = "binding" /\ bind'[p] # "binding"
        /\ \A q \in Pods \ {p} : bind'[q] = bind[q]
    BY <1>0, <1>25 DEF BindSucceeds, BindAnswerLost, TypeOK
  <2>3. p \notin sched.pod
    BY <2>2 DEF BoundLast, InFlight
  <2>4. BoundLast'
    <3>1. \A q \in Pods \ {p} : apiPod'[q] = apiPod[q]
      BY <1>0, <2>1 DEF TypeOK
    <3>2. UNCHANGED <<reserved, sched>>
      BY <1>25 DEF BindSucceeds, BindAnswerLost
    <3> QED BY <1>3, <2>2, <2>3, <3>1, <3>2 DEF BoundLast, InFlight
  <2> QED BY <1>0, <1>24, <1>25, <2>1, <2>4 DEF BindSucceeds, BindAnswerLost, TypeOK
<1>26. ASSUME NEW p \in Pods, Unreserve(p) PROVE ReservationInv'
  <2>1. BoundLast'
    BY <1>0, <1>26 DEF Unreserve, BoundLast, InFlight, TypeOK, pods
  <2> QED BY <1>0, <1>26, <2>1 DEF Unreserve, CachesLag, RemovesScheduled, pods
<1>27. ASSUME NEW p \in Pods, PodFinishes(p) \/ PodDeleted(p) PROVE ReservationInv'
  <2>1. PICK e \in {"finished", "deleted"} :
            apiPod' = [apiPod EXCEPT ![p] = apiPod[p] \cup {e}]
    BY <1>27 DEF PodFinishes, PodDeleted
  <2>2. /\ \A q \in Pods : apiPod[q] \subseteq apiPod'[q]
        /\ \A q \in Pods : IsScheduled(apiPod'[q]) => IsScheduled(apiPod[q])
    BY <1>0, <2>1 DEF IsScheduled, TypeOK
  <2>3. BoundLast'
    BY <1>3, <1>27, <2>2 DEF PodFinishes, PodDeleted, BoundLast, InFlight, scheduler
  <2> QED BY <1>24, <1>27, <2>2, <2>3 DEF PodFinishes, PodDeleted
<1>28. CASE Restart
  <2>1. BoundLast'
    BY <1>18, <1>28 DEF Restart, BoundLast, InFlight
  <2> QED BY <1>0, <1>9, <1>28, <2>1 DEF Restart, CachesLag, RemovesScheduled
<1>29. CASE UNCHANGED vars
  BY <1>2, <1>29 DEF vars, pods, scheduler
<1> QED BY <1>4, <1>5, <1>6, <1>7, <1>8, <1>10, <1>11, <1>12, <1>13, <1>14, <1>15, <1>16,
           <1>19, <1>20, <1>21, <1>22, <1>23, <1>25, <1>26, <1>27, <1>28, <1>29
        DEF Next, Reconcile, Inform, Schedule, Bind, Environment

(* A pod stays reserved until it is bound or the binding has failed, for a *)
(* Throttle and a ClusterThrottle, and whatever disturbs them.             *)
THEOREM InFlightStaysReserved == Spec => []InFlightIsReserved
<1>1. ReservationInv => InFlightIsReserved
  BY DEF ReservationInv, BoundLast, InFlightIsReserved
<1> QED BY <1>1, ReservationInit, ReservationStep, PTL DEF Spec

-----------------------------------------------------------------------------
(* One worker per key.                                                     *)

LEMMA OneWorkerStep == TypeOK /\ OneWorkerPerKey /\ [Next]_vars => OneWorkerPerKey'
<1> SUFFICES ASSUME TypeOK, OneWorkerPerKey, [Next]_vars PROVE OneWorkerPerKey'
  OBVIOUS
<1>0. \A w \in Workers : worker[w] \in Reconciles
  BY DEF TypeOK
<1>1. ASSUME UNCHANGED worker, queue'.processing = queue.processing
      PROVE  OneWorkerPerKey'
  BY <1>1 DEF OneWorkerPerKey, At
<1>2. queue \in Queues(Keys)
  BY DEF TypeOK
<1>3. ASSUME NEW k PROVE Enqueue(queue, k).processing = queue.processing
  BY <1>2 DEF Queues, Enqueue
<1>4. ASSUME NEW w \in Workers, ~At(w, "idle"), NEW state,
             state.key = worker[w].key, Become(w, state), UNCHANGED queue
      PROVE  OneWorkerPerKey'
  <2>1. \A v \in Workers : worker'[v].key = worker[v].key /\ (~At(v, "idle")' => ~At(v, "idle"))
    BY <1>4 DEF TypeOK, Become, At
  <2> QED BY <1>4, <2>1 DEF OneWorkerPerKey
<1>5. ASSUME NEW w \in Workers, ~At(w, "idle"), Become(w, Idle),
             queue'.processing = queue.processing \ {worker[w].key}
      PROVE  OneWorkerPerKey'
  <2>1. worker'[w].pc = "idle" /\ \A v \in Workers \ {w} : worker'[v] = worker[v]
    BY <1>5, IdleType DEF TypeOK, Become
  <2> QED BY <1>5, <2>1 DEF OneWorkerPerKey, At
<1>6. ASSUME NEW w \in Workers, StartReconcile(w) PROVE OneWorkerPerKey'
  <2>1. PICK k \in Ready(queue) :
            /\ queue' = Take(queue, k)
            /\ Become(w, [Idle EXCEPT !.pc = "list", !.key = k, !.rv = listerRv])
    BY <1>6 DEF StartReconcile
  <2>2. queue'.processing = queue.processing \cup {k} /\ k \notin queue.processing
    BY <1>2, <2>1 DEF Take, Ready, Queues
  <2>3. worker'[w].key = k /\ \A v \in Workers \ {w} : worker'[v] = worker[v]
    BY <2>1 DEF TypeOK, Become, Idle
  <2> QED BY <2>2, <2>3 DEF OneWorkerPerKey, At
<1>7. ASSUME NEW w \in Workers,
             \/ ListAffectedPods(w) \/ StatusUnchanged(w) \/ StatusChanged(w)
             \/ UpdateSucceeds(w) \/ UnreserveAffectedPod(w)
      PROVE  OneWorkerPerKey'
  <2>1. ~At(w, "idle") /\ UNCHANGED queue
    BY <1>7 DEF ListAffectedPods, StatusUnchanged, StatusChanged, UpdateSucceeds,
                UnreserveAffectedPod, At
  <2>2. worker[w] \in Reconciles
    BY <1>0
  <2>3. CASE ListAffectedPods(w)
    <3>1. PICK terminated :
              Become(w, [worker[w] EXCEPT !.pc = "compare", !.live = Live,
                                          !.todo = Live \cup terminated])
      BY <2>3 DEF ListAffectedPods
    <3>2. [worker[w] EXCEPT !.pc = "compare", !.live = Live,
                            !.todo = Live \cup terminated].key = worker[w].key
      BY <2>2 DEF Reconciles
    <3> QED BY <1>4, <2>1, <3>1, <3>2
  <2>4. CASE StatusUnchanged(w) \/ UpdateSucceeds(w)
    <3>1. [worker[w] EXCEPT !.pc = "unreserve", !.live = {}].key = worker[w].key
      BY <2>2 DEF Reconciles
    <3> QED BY <1>4, <2>1, <2>4, <3>1 DEF StatusUnchanged, UpdateSucceeds
  <2>5. CASE StatusChanged(w)
    <3>1. [worker[w] EXCEPT !.pc = "update"].key = worker[w].key
      BY <2>2 DEF Reconciles
    <3> QED BY <1>4, <2>1, <2>5, <3>1 DEF StatusChanged
  <2>6. CASE UnreserveAffectedPod(w)
    <3>1. PICK p : Become(w, [worker[w] EXCEPT !.todo = @ \ {p}])
      BY <2>6 DEF UnreserveAffectedPod
    <3>2. [worker[w] EXCEPT !.todo = @ \ {p}].key = worker[w].key
      BY <2>2 DEF Reconciles
    <3> QED BY <1>4, <2>1, <3>1, <3>2
  <2> QED BY <1>7, <2>3, <2>4, <2>5, <2>6
<1>8. ASSUME NEW w \in Workers, RetryLater(w), ~At(w, "idle") PROVE OneWorkerPerKey'
  <2>1. queue'.processing = queue.processing \ {worker[w].key}
    BY <1>2, <1>8 DEF RetryLater, AddRateLimited, Done, Queues
  <2> QED BY <1>5, <1>8, <2>1 DEF RetryLater
<1>9. ASSUME NEW w \in Workers, UpdateConflicts(w) \/ UpdateFails(w) PROVE OneWorkerPerKey'
  BY <1>8, <1>9 DEF UpdateConflicts, UpdateFails, At
<1>10. ASSUME NEW w \in Workers, FinishReconcile(w) PROVE OneWorkerPerKey'
  <2>1. queue'.processing = queue.processing \ {worker[w].key} /\ ~At(w, "idle")
    BY <1>2, <1>10 DEF FinishReconcile, Done, Queues, At
  <2> QED BY <1>5, <1>10, <2>1 DEF FinishReconcile
<1>11. CASE RetryExpires
  <2>1. queue'.processing = queue.processing
    BY <1>2, <1>11 DEF RetryExpires, Expire, Queues
  <2> QED BY <1>1, <1>11, <2>1 DEF RetryExpires
<1>12. ASSUME NEW p \in Pods, DeliverPod(p) \/ HandlePod(p) PROVE OneWorkerPerKey'
  BY <1>1, <1>3, <1>12 DEF DeliverPod, HandlePod
<1>13. CASE DeliverThrottle \/ HandleThrottle \/ Resync
  BY <1>1, <1>3, <1>13 DEF DeliverThrottle, HandleThrottle, Resync
<1>14. CASE Schedule
  BY <1>1, <1>14
     DEF Schedule, PreFilter, ReadReserved, CheckThrottledFor, Reserve, Abandon
<1>15. ASSUME NEW p \in Pods,
              Bind(p) \/ PodFinishes(p) \/ PodDeleted(p) \/ BindAnswerLost(p)
       PROVE  OneWorkerPerKey'
  BY <1>1, <1>15
     DEF Bind, BindSucceeds, Unreserve, PodFinishes, PodDeleted, BindAnswerLost
<1>16. CASE EditThrottle
  BY <1>1, <1>16 DEF EditThrottle
<1>17. CASE Restart
  BY <1>17, IdleType DEF Restart, OneWorkerPerKey, At
<1>18. CASE UNCHANGED vars
  BY <1>1, <1>18 DEF vars
<1> QED BY <1>6, <1>7, <1>9, <1>10, <1>11, <1>12, <1>13, <1>14, <1>15, <1>16, <1>17, <1>18
        DEF Next, Reconcile, Inform, Environment

LEMMA OnlyOneBusy ==
    ASSUME SingleReconciler, TypeOK, OneWorkerPerKey,
           NEW v \in Workers, NEW w \in Workers, ~At(v, "idle"), ~At(w, "idle")
    PROVE  v = w
<1>1. worker[v].key \in Keys /\ worker[w].key \in Keys
  BY DEF TypeOK, Reconciles
<1> QED BY <1>1 DEF SingleReconciler, OneWorkerPerKey, Keys, NameKey

-----------------------------------------------------------------------------
(* The ledgers.                                                            *)

LEMMA FaultsGrow == [Next]_vars => faults \subseteq faults'
<1> SUFFICES ASSUME [Next]_vars PROVE faults \subseteq faults'
  OBVIOUS
<1>1. ASSUME NEW w \in Workers, Reconcile(w) PROVE faults \subseteq faults'
  BY <1>1 DEF Reconcile, StartReconcile, ListAffectedPods, StatusUnchanged, StatusChanged,
              UpdateSucceeds, UpdateConflicts, UnreserveAffectedPod, FinishReconcile,
              Note, history
<1>2. ASSUME NEW w \in Workers, UpdateFails(w) PROVE faults \subseteq faults'
  BY <1>2 DEF UpdateFails, Note
<1>3. CASE RetryExpires \/ Inform \/ Resync
  BY <1>3 DEF RetryExpires, Inform, DeliverPod, HandlePod, DeliverThrottle, HandleThrottle,
              Resync, history
<1>4. CASE Schedule
  BY <1>4 DEF Schedule, PreFilter, ReadReserved, CheckThrottledFor, Reserve, Abandon,
              Note, history
<1>5. ASSUME NEW p \in Pods,
             Bind(p) \/ PodFinishes(p) \/ PodDeleted(p) \/ BindAnswerLost(p)
      PROVE  faults \subseteq faults'
  BY <1>5 DEF Bind, BindSucceeds, Unreserve, PodFinishes, PodDeleted, BindAnswerLost,
              Note, history
<1>6. CASE EditThrottle \/ Restart
  BY <1>6 DEF EditThrottle, Restart, Note
<1>7. CASE UNCHANGED vars
  BY <1>7 DEF vars, history
<1> QED BY <1>1, <1>2, <1>3, <1>4, <1>5, <1>6, <1>7 DEF Next, Environment

LEMMA LostStep == TypeOK /\ LostIsNoted /\ [Next]_vars => LostIsNoted'
<1> SUFFICES ASSUME TypeOK, LostIsNoted, [Next]_vars PROVE LostIsNoted'
  OBVIOUS
<1>1. CASE \A p \in Pods : bind'[p] \in {bind[p], "none", "binding"}
  BY <1>1, FaultsGrow DEF LostIsNoted
<1>2. ASSUME NEW w \in Workers, Reconcile(w) \/ UpdateFails(w) PROVE UNCHANGED bind
  BY <1>2 DEF Reconcile, StartReconcile, ListAffectedPods, StatusUnchanged, StatusChanged,
              UpdateSucceeds, UpdateConflicts, UnreserveAffectedPod, FinishReconcile,
              UpdateFails, scheduler
<1>3. ASSUME RetryExpires \/ Inform \/ Resync \/ EditThrottle \/ UNCHANGED vars
      PROVE  UNCHANGED bind
  BY <1>3 DEF RetryExpires, Inform, DeliverPod, HandlePod, DeliverThrottle, HandleThrottle,
              Resync, EditThrottle, vars, scheduler
<1>4. ASSUME Schedule PROVE \A p \in Pods : bind'[p] \in {bind[p], "none", "binding"}
  BY <1>4 DEF Schedule, PreFilter, ReadReserved, CheckThrottledFor, Reserve, Abandon, TypeOK
<1>5. ASSUME NEW p \in Pods, Bind(p) \/ PodFinishes(p) \/ PodDeleted(p)
      PROVE  \A q \in Pods : bind'[q] \in {bind[q], "none", "binding"}
  BY <1>5 DEF Bind, BindSucceeds, Unreserve, PodFinishes, PodDeleted, scheduler, TypeOK
<1>6. ASSUME NEW p \in Pods, BindAnswerLost(p) PROVE LostIsNoted'
  <2>1. "answerLost" \in faults'
    BY <1>6 DEF BindAnswerLost, Note
  <2> QED BY <2>1 DEF LostIsNoted
<1>7. ASSUME Restart PROVE \A p \in Pods : bind'[p] \in {bind[p], "none", "binding"}
  BY <1>7 DEF Restart
<1> QED BY <1>1, <1>2, <1>3, <1>4, <1>5, <1>6, <1>7 DEF Next, Environment

(* What a worker that becomes `state' is about to remove, when no other    *)
(* worker is busy.                                                         *)
LEMMA RemovingIs ==
    ASSUME TypeOK, NEW w \in Workers, NEW state, Become(w, state),
           \A v \in Workers \ {w} : At(v, "idle")
    PROVE  /\ Removing = IF At(w, "unreserve") THEN worker[w].todo ELSE {}
           /\ Removing' = IF state.pc = "unreserve" THEN state.todo ELSE {}
<1>1. worker'[w] = state /\ \A v \in Workers \ {w} : worker'[v] = worker[v]
  BY DEF Become, TypeOK
<1>2. {v \in Workers : At(v, "unreserve")} = IF At(w, "unreserve") THEN {w} ELSE {}
  BY DEF At
<1>3. {v \in Workers : At(v, "unreserve")'} = IF state.pc = "unreserve" THEN {w} ELSE {}
  BY <1>1 DEF At
<1>4. Removing = IF At(w, "unreserve") THEN worker[w].todo ELSE {}
  BY <1>2 DEF Removing
<1>5. Removing' = IF state.pc = "unreserve" THEN state.todo ELSE {}
  BY <1>1, <1>3 DEF Removing
<1> QED BY <1>4, <1>5

(* Steps that leave the reconciles and the throttle alone: who holds       *)
(* resources held them before and is still reserved if it was, or is newly *)
(* reserved and no reconcile knows of it.                                  *)
LEMMA LedgersOfPods ==
    ASSUME Ledgers, UNCHANGED <<apiUsed, object, listerRv, worker>>,
           \A p \in Pods : Holds(p)' =>
               \/ Holds(p) /\ (p \in reserved => p \in reserved')
               \/ p \in reserved' /\ \A w \in Workers : p \notin worker[w].todo
    PROVE  ApiAccounts' /\ ReconcileAccounts' /\ ObjectsFollow' /\ PointersFollow'
<1>1. Removing' = Removing /\ \A p \in Removing : \E w \in Workers : p \in worker[w].todo
  BY DEF Removing, At
<1>2. ApiAccounts'
  <2>1. PICK C \in SUBSET Pods :
            /\ apiUsed = Used(C)
            /\ \A p \in Pods : Holds(p) => p \in C \cup (reserved \ Removing)
    BY DEF Ledgers, ApiAccounts
  <2>2. \A p \in Pods : Holds(p)' => p \in C \cup (reserved' \ Removing')
    BY <1>1, <2>1
  <2> QED BY <2>1, <2>2 DEF ApiAccounts
<1>3. ReconcileAccounts'
  BY DEF Ledgers, ReconcileAccounts
<1>4. ObjectsFollow' /\ PointersFollow'
  BY DEF Ledgers, ObjectsFollow, PointersFollow, NewUsed, At
<1> QED BY <1>2, <1>3, <1>4

LEMMA LedgersStep ==
    ASSUME SingleReconciler, ReservationInv, OneWorkerPerKey, LostIsNoted, Ledgers,
           [Next]_vars, Healthy'
    PROVE  Ledgers'
<1>0. TypeOK /\ CachesLag /\ BoundLast /\ RemovesScheduled /\ Healthy /\ TypeOK'
  BY FaultsGrow, TypeStep DEF ReservationInv, Healthy
<1> USE DEF Ledgers
<1>1. \A v, w \in Workers : ~At(v, "idle") /\ ~At(w, "idle") => v = w
  BY <1>0, OnlyOneBusy
<1>2. /\ \A w \in Workers : worker[w] \in Reconciles
      /\ object \in Seq(Totals) /\ Len(object) \in Nat
      /\ listerRv \in Nat /\ listerRv \in 1..Len(object)
      /\ \A w \in Workers : ~At(w, "idle") =>
            worker[w].rv \in 1..listerRv /\ worker[w].rv \in DOMAIN object
  BY <1>0, LenProperties DEF TypeOK
<1>3. \A p \in Pods : p \notin InFlight \/ (p \in reserved /\ \A w \in Workers : p \notin worker[w].todo)
  <2>1. \A p \in Pods : \A w \in Workers : p \in worker[w].todo => IsScheduled(apiPod[p])
    BY <1>0 DEF RemovesScheduled, CachesLag, IsScheduled
  <2> QED BY <1>0, <2>1 DEF BoundLast
<1>4. ASSUME NEW w \in Workers, StartReconcile(w) PROVE Ledgers'
  <2>1. PICK k \in Ready(queue) :
            Become(w, [Idle EXCEPT !.pc = "list", !.key = k, !.rv = listerRv])
    BY <1>4 DEF StartReconcile
  <2> DEFINE state == [Idle EXCEPT !.pc = "list", !.key = k, !.rv = listerRv]
  <2>2. \A v \in Workers : At(v, "idle")
    <3>1. k \in Keys /\ k \notin queue.processing
      BY <1>0 DEF Ready, TypeOK, Queues
    <3>2. SUFFICES ASSUME NEW v \in Workers, ~At(v, "idle") PROVE FALSE
      OBVIOUS
    <3>3. worker[v].key \in queue.processing /\ worker[v].key \in Keys
      BY <1>2, <3>2 DEF OneWorkerPerKey, Reconciles
    <3>4. v # w
      BY <1>4, <3>2 DEF StartReconcile
    <3> QED BY <3>1, <3>3, <3>4 DEF SingleReconciler, Keys, NameKey
  <2>3. state.pc = "list" /\ state.rv = listerRv
    BY DEF Idle
  <2> HIDE DEF state
  <2>4. Become(w, state)
    BY <2>1 DEF state
  <2>5. worker'[w] = state /\ \A v \in Workers \ {w} : worker'[v].pc = "idle"
    BY <1>0, <2>2, <2>4 DEF Become, TypeOK, At
  <2>6. Removing = {} /\ Removing' = {}
    BY <1>0, <2>2, <2>3, <2>4, RemovingIs DEF At
  <2>7. UNCHANGED <<apiPod, podLister, apiUsed, object, listerRv, reserved, bind>>
    BY <1>4 DEF StartReconcile, pods, throttle, scheduler
  <2>8. \A v \in listerRv..Len(object) : object[v] = apiUsed
    BY <2>2 DEF ObjectsFollow, At
  <2>9. ApiAccounts'
    BY <2>6, <2>7 DEF ApiAccounts, Holds
  <2>10. ReconcileAccounts'
    BY <2>3, <2>5 DEF ReconcileAccounts
  <2>11. ObjectsFollow' /\ PointersFollow'
    BY <1>2, <2>3, <2>5, <2>7, <2>8 DEF ObjectsFollow, PointersFollow, At
  <2> QED BY <2>7, <2>9, <2>10, <2>11 DEF NewlyBoundReserved
<1>5. ASSUME NEW w \in Workers, NEW state, Become(w, state), ~At(w, "idle")
      PROVE  /\ worker'[w] = state
             /\ \A v \in Workers \ {w} : worker[v].pc = "idle" /\ worker'[v].pc = "idle"
             /\ Removing = IF At(w, "unreserve") THEN worker[w].todo ELSE {}
             /\ Removing' = IF state.pc = "unreserve" THEN state.todo ELSE {}
  <2>1. \A v \in Workers \ {w} : At(v, "idle")
    BY <1>1, <1>5
  <2>2. worker'[w] = state /\ \A v \in Workers \ {w} : worker'[v] = worker[v]
    BY <1>0, <1>5 DEF Become, TypeOK
  <2> QED BY <1>0, <1>5, <2>1, <2>2, RemovingIs DEF At
<1>6. ASSUME NEW w \in Workers, ListAffectedPods(w) PROVE Ledgers'
  <2>1. PICK terminated \in TerminatedPods(Live, Finished) :
            Become(w, [worker[w] EXCEPT !.pc = "compare", !.live = Live,
                                        !.todo = Live \cup terminated])
    BY <1>6 DEF ListAffectedPods
  <2> DEFINE state == [worker[w] EXCEPT !.pc = "compare", !.live = Live,
                                        !.todo = Live \cup terminated]
  <2>2. /\ state.pc = "compare" /\ state.rv = worker[w].rv
        /\ state.live = Live /\ state.todo = Live \cup terminated
    BY <1>2 DEF Reconciles
  <2> HIDE DEF state
  <2>3. At(w, "list") /\ ~At(w, "idle") /\ ~At(w, "unreserve") /\ Become(w, state)
    BY <1>6, <2>1 DEF ListAffectedPods, At, state
  <2>4. /\ worker'[w] = state /\ Removing = {} /\ Removing' = {}
        /\ \A v \in Workers \ {w} : worker[v].pc = "idle" /\ worker'[v].pc = "idle"
    BY <1>5, <2>2, <2>3
  <2>5. UNCHANGED <<apiPod, podLister, apiUsed, object, listerRv, reserved, bind>>
    BY <1>6 DEF ListAffectedPods, pods, throttle, scheduler
  <2>6. ASSUME NEW p \in Pods, Holds(p) PROVE p \in Live \/ (p \in reserved /\ p \notin Live \cup Finished)
    <3>1. CASE IsLive(apiPod[p])
      <4>1. podLister[p] = {} \/ podLister[p] = {"bound"}
        BY <1>0, <3>1 DEF CachesLag, IsLive
      <4> QED BY <3>1, <4>1 DEF NewlyBoundReserved, Live, Finished, IsLive, IsFinished
    <3>2. CASE bind[p] = "binding"
      <4>1. p \in reserved /\ "bound" \notin podLister[p]
        BY <1>0, <3>2 DEF BoundLast, InFlight, CachesLag, IsScheduled
      <4> QED BY <4>1 DEF Live, Finished, IsLive, IsFinished
    <3> QED BY <2>6, <3>1, <3>2 DEF Holds
  <2>7. ReconcileAccounts'
    <3>1. terminated \subseteq Finished
      BY TerminatedPodsType
    <3>2. \A p \in Pods : Holds(p)' => p \in state.live \cup (reserved' \ state.todo)
      BY <2>2, <2>5, <2>6, <3>1 DEF Holds
    <3> QED BY <2>4, <3>2 DEF ReconcileAccounts
  <2>8. ApiAccounts'
    BY <2>4, <2>5 DEF ApiAccounts, Holds
  <2>9. ObjectsFollow' /\ PointersFollow'
    BY <2>2, <2>3, <2>4, <2>5 DEF ObjectsFollow, PointersFollow, At
  <2> QED BY <2>5, <2>7, <2>8, <2>9 DEF NewlyBoundReserved
<1>7. ASSUME NEW w \in Workers, At(w, "compare") \/ At(w, "update"), apiUsed' = NewUsed(w),
             UNCHANGED <<apiPod, podLister, reserved, bind>>,
             Become(w, [worker[w] EXCEPT !.pc = "unreserve", !.live = {}]),
             \A v \in listerRv'..Len(object') : object'[v] = apiUsed'
      PROVE  Ledgers'
  <2> DEFINE state == [worker[w] EXCEPT !.pc = "unreserve", !.live = {}]
  <2>1. state.pc = "unreserve" /\ state.todo = worker[w].todo
    BY <1>2 DEF Reconciles
  <2> HIDE DEF state
  <2>2. Become(w, state) /\ ~At(w, "idle") /\ worker[w].pc \in {"compare", "update"}
    BY <1>7 DEF state, At
  <2>3. /\ worker'[w] = state /\ Removing' = worker[w].todo
        /\ \A v \in Workers \ {w} : worker'[v].pc = "idle"
    BY <1>5, <2>1, <2>2
  <2>4. ApiAccounts'
    <3>1. \A p \in Pods : Holds(p) => p \in worker[w].live \cup (reserved \ worker[w].todo)
      BY <2>2 DEF ReconcileAccounts
    <3>2. \A p \in Pods : Holds(p)' => p \in worker[w].live \cup (reserved' \ Removing')
      BY <1>7, <2>3, <3>1 DEF Holds
    <3>3. worker[w].live \in SUBSET Pods /\ apiUsed' = Used(worker[w].live)
      BY <1>2, <1>7 DEF Reconciles, NewUsed
    <3> QED BY <3>2, <3>3 DEF ApiAccounts
  <2>5. ReconcileAccounts' /\ PointersFollow'
    BY <2>1, <2>3 DEF ReconcileAccounts, PointersFollow, At
  <2>6. ObjectsFollow'
    BY <1>7 DEF ObjectsFollow
  <2> QED BY <1>7, <2>4, <2>5, <2>6 DEF NewlyBoundReserved
<1>8. ASSUME NEW w \in Workers, ~At(w, "idle"), ~At(w, "update")
      PROVE  \A v \in listerRv..Len(object) : object[v] = apiUsed
  BY <1>1, <1>8 DEF ObjectsFollow, At
<1>9. ASSUME NEW w \in Workers, StatusUnchanged(w) PROVE Ledgers'
  <2>1. apiUsed = NewUsed(w)
    BY <1>9 DEF StatusUnchanged, PointersFollow, At
  <2>2. UNCHANGED <<apiPod, podLister, apiUsed, object, listerRv, reserved, bind>>
    BY <1>9 DEF StatusUnchanged, pods, throttle, scheduler
  <2>3. \A v \in listerRv..Len(object) : object[v] = apiUsed
    BY <1>8, <1>9 DEF StatusUnchanged, At
  <2> QED BY <1>7, <1>9, <2>1, <2>2, <2>3 DEF StatusUnchanged
<1>10. ASSUME NEW w \in Workers, StatusChanged(w) PROVE Ledgers'
  <2> DEFINE state == [worker[w] EXCEPT !.pc = "update"]
  <2>1. /\ state.pc = "update" /\ state.rv = worker[w].rv
        /\ state.live = worker[w].live /\ state.todo = worker[w].todo
    BY <1>2 DEF Reconciles
  <2> HIDE DEF state
  <2>2. At(w, "compare") /\ ~At(w, "idle") /\ ~At(w, "unreserve") /\ Become(w, state)
    BY <1>10 DEF StatusChanged, At, state
  <2>3. /\ worker'[w] = state /\ Removing = {} /\ Removing' = {}
        /\ \A v \in Workers \ {w} : worker'[v].pc = "idle"
    BY <1>5, <2>1, <2>2
  <2>4. UNCHANGED <<apiPod, podLister, apiUsed, listerRv, reserved, bind>>
    BY <1>10 DEF StatusChanged, pods, scheduler
  <2>5. /\ object' = [object EXCEPT ![worker[w].rv] = NewUsed(w)]
        /\ worker[w].rv \in DOMAIN object
    BY <1>2, <1>10, <2>2 DEF StatusChanged
  <2>6. Len(object') = Len(object) /\ object'[worker[w].rv] = NewUsed(w)
        /\ \A v \in 1..Len(object) : v # worker[w].rv => object'[v] = object[v]
    <3>1. NewUsed(w) \in Totals
      BY <1>2, TotalsUsed DEF NewUsed, Reconciles
    <3> QED BY <1>2, <2>5, <3>1, ExceptSeq, LenProperties
  <2>7. \A v \in listerRv..Len(object) : object[v] = apiUsed
    BY <1>8, <2>2 DEF At
  <2>8. ApiAccounts'
    BY <2>3, <2>4 DEF ApiAccounts, Holds
  <2>9. ReconcileAccounts'
    <3>1. \A p \in Pods : Holds(p) => p \in worker[w].live \cup (reserved \ worker[w].todo)
      BY <2>2 DEF ReconcileAccounts, At
    <3> QED BY <2>1, <2>3, <2>4, <3>1 DEF ReconcileAccounts, Holds
  <2>10. ObjectsFollow'
    BY <1>2, <2>1, <2>3, <2>4, <2>6, <2>7 DEF ObjectsFollow, At
  <2>11. PointersFollow'
    BY <2>1, <2>3, <2>6 DEF PointersFollow, NewUsed, At
  <2> QED BY <2>4, <2>8, <2>9, <2>10, <2>11 DEF NewlyBoundReserved
<1>11. ASSUME NEW w \in Workers, UpdateSucceeds(w) PROVE Ledgers'
  <2>1. At(w, "update") /\ ~At(w, "idle")
    BY <1>11 DEF UpdateSucceeds, At
  <2>2. object[worker[w].rv] = NewUsed(w)
    BY <2>1 DEF PointersFollow
  <2>3. worker[w].rv = Len(object) /\ listerRv = Len(object)
    BY <1>2, <1>11, <2>1 DEF UpdateSucceeds
  <2>4. StoreStatus(NewUsed(w)) /\ UNCHANGED <<apiPod, podLister, listerRv, reserved, bind>>
    BY <1>11, <2>2 DEF UpdateSucceeds, pods, scheduler
  <2>5. apiUsed' = NewUsed(w)
    BY <2>4 DEF StoreStatus
  <2>6. \A v \in listerRv'..Len(object') : object'[v] = apiUsed'
    <3>1. CASE UNCHANGED object
      BY <1>2, <2>2, <2>3, <2>4, <2>5, <3>1
    <3>2. CASE object' = Append(object, NewUsed(w))
      <4>1. NewUsed(w) \in Totals
        BY <1>2, TotalsUsed DEF NewUsed, Reconciles
      <4>2. /\ Len(object') = Len(object) + 1
            /\ object'[Len(object)] = object[Len(object)]
            /\ object'[Len(object) + 1] = NewUsed(w)
        BY <1>2, <2>3, <3>2, <4>1, AppendProperties
      <4>3. \A v \in listerRv'..Len(object') : v = Len(object) \/ v = Len(object) + 1
        BY <1>2, <2>3, <2>4, <4>2
      <4> QED BY <2>2, <2>3, <2>5, <4>2, <4>3
    <3> QED BY <2>4, <3>1, <3>2 DEF StoreStatus
  <2> QED BY <1>7, <1>11, <2>1, <2>4, <2>5, <2>6 DEF UpdateSucceeds
<1>12. ASSUME NEW w \in Workers, UpdateConflicts(w) \/ UpdateFails(w) PROVE FALSE
  BY <1>12 DEF UpdateConflicts, UpdateFails, Note, Healthy
<1>13. ASSUME NEW w \in Workers, NEW state, Become(w, state), At(w, "unreserve"),
              UNCHANGED <<apiPod, podLister, apiUsed, object, listerRv, bind>>,
              \/ state.pc = "idle"
              \/ state.pc = "unreserve",
              reserved \ Removing \subseteq reserved' \ Removing',
              NewlyBoundReserved'
       PROVE  Ledgers'
  <2>1. worker'[w] = state /\ \A v \in Workers \ {w} : worker'[v].pc = "idle"
    BY <1>5, <1>13 DEF At
  <2>2. \A v \in listerRv..Len(object) : object[v] = apiUsed
    BY <1>8, <1>13 DEF At
  <2>3. ApiAccounts'
    <3>1. PICK C \in SUBSET Pods :
              /\ apiUsed = Used(C)
              /\ \A p \in Pods : Holds(p) => p \in C \cup (reserved \ Removing)
      BY DEF ApiAccounts
    <3>2. \A p \in Pods : Holds(p)' => p \in C \cup (reserved' \ Removing')
      BY <1>13, <3>1 DEF Holds
    <3> QED BY <1>13, <3>1, <3>2 DEF ApiAccounts
  <2>4. ReconcileAccounts' /\ ObjectsFollow' /\ PointersFollow'
    BY <1>13, <2>1, <2>2 DEF ReconcileAccounts, ObjectsFollow, PointersFollow, At
  <2> QED BY <1>13, <2>3, <2>4
<1>14. ASSUME NEW w \in Workers, UnreserveAffectedPod(w) PROVE Ledgers'
  <2>1. PICK p \in worker[w].todo :
            /\ reserved' = reserved \ {p}
            /\ Become(w, [worker[w] EXCEPT !.todo = @ \ {p}])
    BY <1>14 DEF UnreserveAffectedPod
  <2> DEFINE state == [worker[w] EXCEPT !.todo = @ \ {p}]
  <2>2. state.pc = worker[w].pc /\ state.todo = worker[w].todo \ {p}
    BY <1>2 DEF Reconciles
  <2> HIDE DEF state
  <2>3. At(w, "unreserve") /\ ~At(w, "idle") /\ state.pc = "unreserve" /\ Become(w, state)
    BY <1>14, <2>1, <2>2 DEF UnreserveAffectedPod, At, state
  <2>4. Removing = worker[w].todo /\ Removing' = worker[w].todo \ {p}
    BY <1>5, <2>2, <2>3
  <2>5. UNCHANGED <<apiPod, podLister, apiUsed, object, listerRv, bind>>
    BY <1>14 DEF UnreserveAffectedPod, pods, throttle, scheduler
  <2>6. NewlyBoundReserved'
    <3>1. podLister[p] # {}
      BY <1>0, <1>2 DEF RemovesScheduled, IsScheduled
    <3> QED BY <2>1, <2>5, <3>1 DEF NewlyBoundReserved
  <2> QED BY <1>13, <2>1, <2>3, <2>4, <2>5, <2>6
<1>15. ASSUME NEW w \in Workers, FinishReconcile(w) PROVE Ledgers'
  <2>1. At(w, "unreserve") /\ ~At(w, "idle") /\ worker[w].todo = {} /\ Become(w, Idle)
    BY <1>15 DEF FinishReconcile, At
  <2>2. Idle.pc = "idle"
    BY DEF Idle
  <2>3. Removing = {} /\ Removing' = {}
    BY <1>5, <2>1, <2>2
  <2>4. UNCHANGED <<apiPod, podLister, apiUsed, object, listerRv, reserved, bind>>
    BY <1>15 DEF FinishReconcile, pods, throttle, scheduler
  <2>5. NewlyBoundReserved'
    BY <2>4 DEF NewlyBoundReserved
  <2> QED BY <1>13, <2>1, <2>2, <2>3, <2>4, <2>5
<1>16. ASSUME UNCHANGED <<pods, apiUsed, object, listerRv, worker, reserved, bind>>
       PROVE  Ledgers'
  <2>1. UNCHANGED apiPod /\ \A p \in Pods : Holds(p)' => Holds(p)
    BY <1>16 DEF pods, Holds
  <2> QED BY <1>16, <2>1, LedgersOfPods DEF NewlyBoundReserved, pods
<1>17. CASE RetryExpires \/ HandleThrottle \/ Resync
  BY <1>16, <1>17 DEF RetryExpires, HandleThrottle, Resync, throttle, scheduler
<1>18. ASSUME NEW p \in Pods, PreFilter(p) PROVE Ledgers'
  BY <1>16, <1>18 DEF PreFilter, throttle
<1>19. CASE ReadReserved \/ CheckThrottledFor \/ Abandon
  BY <1>16, <1>19 DEF ReadReserved, CheckThrottledFor, Abandon, throttle
<1>20. CASE UNCHANGED vars
  BY <1>16, <1>20 DEF vars, throttle, scheduler
<1>21. ASSUME UNCHANGED <<throttle, worker>>, NewlyBoundReserved',
              \A p \in Pods : Holds(p)' =>
                \/ Holds(p) /\ (p \in reserved => p \in reserved')
                \/ p \in reserved' /\ \A w \in Workers : p \notin worker[w].todo
       PROVE  Ledgers'
  BY <1>21, LedgersOfPods DEF throttle
<1>22. ASSUME NEW p \in Pods, DeliverPod(p) PROVE Ledgers'
  <2>1. \A q \in Pods : podLister'[q] = {} => podLister[q] = {}
    BY <1>0, <1>22 DEF DeliverPod, TypeOK
  <2>2. UNCHANGED <<apiPod, throttle, worker, reserved, bind>>
    BY <1>22 DEF DeliverPod, scheduler
  <2> QED BY <1>21, <2>1, <2>2 DEF NewlyBoundReserved, Holds
<1>23. ASSUME NEW p \in Pods, HandlePod(p) PROVE Ledgers'
  <2>1. UNCHANGED <<apiPod, podLister, throttle, worker, bind>>
    BY <1>23 DEF HandlePod, scheduler
  <2>2. reserved' = reserved \/ (reserved' = reserved \ {p} /\ "deleted" \in apiPod[p])
    BY <1>0, <1>23 DEF HandlePod, NextEvents, CachesLag
  <2>3. NewlyBoundReserved'
    BY <2>1, <2>2 DEF NewlyBoundReserved, IsLive
  <2>4. \A q \in Pods : Holds(q)' => Holds(q) /\ (q \in reserved => q \in reserved')
    BY <2>1, <2>2 DEF Holds, IsLive
  <2> QED BY <1>21, <2>1, <2>3, <2>4
<1>24. CASE DeliverThrottle
  <2>1. UNCHANGED <<apiPod, podLister, apiUsed, object, worker, reserved, bind>>
    BY <1>24 DEF DeliverThrottle, pods, scheduler
  <2>2. listerRv' = listerRv + 1
    BY <1>24 DEF DeliverThrottle
  <2>3. ObjectsFollow'
    BY <1>2, <2>1, <2>2 DEF ObjectsFollow, At
  <2>4. ApiAccounts'
    <3>1. Removing' = Removing
      BY <2>1 DEF Removing, At
    <3> QED BY <2>1, <3>1 DEF ApiAccounts, Holds
  <2>5. ReconcileAccounts' /\ PointersFollow'
    BY <2>1 DEF ReconcileAccounts, PointersFollow, Holds, NewUsed, At
  <2> QED BY <2>1, <2>3, <2>4, <2>5 DEF NewlyBoundReserved
<1>25. CASE EditThrottle
  <2>1. UNCHANGED <<apiPod, podLister, apiUsed, listerRv, worker, reserved, bind>>
    BY <1>25 DEF EditThrottle, pods, scheduler
  <2>2. /\ Len(object') = Len(object) + 1
        /\ object'[Len(object) + 1] = apiUsed
        /\ \A v \in 1..Len(object) : object'[v] = object[v]
    BY <1>0, <1>2, <1>25, AppendProperties DEF EditThrottle, TypeOK
  <2>3. ObjectsFollow'
    BY <1>2, <2>1, <2>2 DEF ObjectsFollow, At
  <2>4. ApiAccounts'
    <3>1. Removing' = Removing
      BY <2>1 DEF Removing, At
    <3> QED BY <2>1, <3>1 DEF ApiAccounts, Holds
  <2>5. ReconcileAccounts'
    BY <2>1 DEF ReconcileAccounts, Holds
  <2>6. PointersFollow'
    <3>1. \A w \in Workers : ~At(w, "idle") => worker[w].rv \in 1..Len(object)
      BY <1>2
    <3> QED BY <2>1, <2>2, <3>1 DEF PointersFollow, NewUsed, At
  <2> QED BY <2>1, <2>3, <2>4, <2>5, <2>6 DEF NewlyBoundReserved
<1>26. CASE Reserve
  <2>1. PICK p \in sched.pod :
            reserved' = reserved \cup {p} /\ bind' = [bind EXCEPT ![p] = "binding"]
    BY <1>26 DEF Reserve
  <2>2. p \in Pods /\ ~IsScheduled(apiPod[p])
    BY <1>0 DEF BoundLast, TypeOK, Cycles
  <2>3. \A w \in Workers : p \notin worker[w].todo
    BY <1>0, <2>2 DEF RemovesScheduled, CachesLag, IsScheduled
  <2>4. UNCHANGED <<apiPod, podLister, throttle, worker>>
    BY <1>26 DEF Reserve, pods
  <2>5. NewlyBoundReserved'
    BY <2>1, <2>4 DEF NewlyBoundReserved
  <2>6. \A q \in Pods \ {p} : bind'[q] = bind[q]
    BY <1>0, <2>1 DEF TypeOK
  <2>7. \A q \in Pods : Holds(q)' =>
            \/ Holds(q) /\ (q \in reserved => q \in reserved')
            \/ q \in reserved' /\ \A w \in Workers : q \notin worker[w].todo
    BY <2>1, <2>3, <2>4, <2>6 DEF Holds
  <2> QED BY <1>21, <2>4, <2>5, <2>7
<1>27. ASSUME NEW p \in Pods, BindSucceeds(p) PROVE Ledgers'
  <2>1. bind[p] = "binding" /\ apiPod[p] = {} /\ p \in reserved /\ Holds(p)
    BY <1>0, <1>27 DEF BindSucceeds, BoundLast, InFlight, Holds
  <2>2. /\ \A q \in Pods \ {p} : apiPod'[q] = apiPod[q] /\ bind'[q] = bind[q]
        /\ UNCHANGED <<podLister, throttle, worker, reserved>>
    BY <1>0, <1>27 DEF BindSucceeds, TypeOK
  <2>3. NewlyBoundReserved'
    BY <2>1, <2>2 DEF NewlyBoundReserved
  <2>4. \A q \in Pods : Holds(q)' => Holds(q)
    BY <2>1, <2>2 DEF Holds
  <2> QED BY <1>21, <2>2, <2>3, <2>4
<1>28. ASSUME NEW p \in Pods, BindAnswerLost(p) PROVE FALSE
  BY <1>28 DEF BindAnswerLost, Note, Healthy
<1>29. ASSUME NEW p \in Pods, Unreserve(p) PROVE Ledgers'
  <2>1. bind[p] = "binding"
    BY <1>0, <1>29 DEF Unreserve, LostIsNoted, Healthy, TypeOK
  <2>2. ~IsScheduled(apiPod[p])
    BY <1>0, <2>1 DEF BoundLast, InFlight
  <2>3. /\ reserved' = reserved \ {p} /\ bind'[p] = "none"
        /\ \A q \in Pods \ {p} : bind'[q] = bind[q]
        /\ UNCHANGED <<apiPod, podLister, throttle, worker>>
    BY <1>0, <1>29 DEF Unreserve, TypeOK, pods
  <2>4. NewlyBoundReserved'
    BY <2>2, <2>3 DEF NewlyBoundReserved, IsLive, IsScheduled
  <2>5. \A q \in Pods : Holds(q)' => Holds(q) /\ (q \in reserved => q \in reserved')
    BY <2>2, <2>3 DEF Holds, IsLive, IsScheduled
  <2> QED BY <1>21, <2>3, <2>4, <2>5
<1>30. ASSUME NEW p \in Pods, PodFinishes(p) \/ PodDeleted(p) PROVE Ledgers'
  <2>1. PICK e \in {"finished", "deleted"} : apiPod' = [apiPod EXCEPT ![p] = apiPod[p] \cup {e}]
    BY <1>30 DEF PodFinishes, PodDeleted
  <2>2. \A q \in Pods : apiPod'[q] = apiPod[q] \/ (apiPod'[q] # {} /\ ~IsLive(apiPod'[q]))
    BY <1>0, <2>1 DEF IsLive, TypeOK
  <2>3. UNCHANGED <<podLister, throttle, worker, reserved, bind>>
    BY <1>30 DEF PodFinishes, PodDeleted, scheduler
  <2>4. NewlyBoundReserved'
    BY <2>2, <2>3 DEF NewlyBoundReserved
  <2>5. \A q \in Pods : Holds(q)' => Holds(q)
    BY <2>2, <2>3 DEF Holds
  <2> QED BY <1>21, <2>3, <2>4, <2>5
<1>31. ~Restart
  BY DEF Restart, Note, Healthy
<1> QED BY <1>4, <1>6, <1>9, <1>10, <1>11, <1>12, <1>14, <1>15, <1>17, <1>18, <1>19, <1>20,
           <1>22, <1>23, <1>24, <1>25, <1>26, <1>27, <1>28, <1>29, <1>30, <1>31
        DEF Next, Reconcile, Inform, Schedule, Bind, Environment

-----------------------------------------------------------------------------
(* What follows.                                                           *)

LEMMA LedgerInit == Init => LedgerInv
<1> SUFFICES ASSUME Init PROVE LedgerInv
  OBVIOUS
<1>1. \A w \in Workers : worker[w] = Idle /\ At(w, "idle")
  BY DEF Init, Idle, At
<1>2. OneWorkerPerKey /\ LostIsNoted
  BY <1>1 DEF OneWorkerPerKey, LostIsNoted, Init
<1>3. apiUsed = Used({}) /\ \A p \in Pods : ~Holds(p) /\ ~IsLive(apiPod[p])
  BY DEF Init, Holds, IsLive
<1>4. NewlyBoundReserved /\ ApiAccounts
  BY <1>3 DEF NewlyBoundReserved, ApiAccounts
<1>5. \A v \in listerRv..Len(object) : object[v] = apiUsed
  <2>1. object = <<apiUsed>> /\ listerRv = 1
    BY DEF Init
  <2>2. Len(object) = 1 /\ object[1] = apiUsed
    BY <2>1
  <2> QED BY <2>1, <2>2
<1>6. ReconcileAccounts /\ ObjectsFollow /\ PointersFollow
  BY <1>1, <1>5 DEF ReconcileAccounts, ObjectsFollow, PointersFollow, At
<1> QED BY <1>2, <1>4, <1>6 DEF LedgerInv, Ledgers

LEMMA LedgerStep ==
    ASSUME SingleReconciler
    PROVE  ReservationInv /\ LedgerInv /\ [Next]_vars => LedgerInv'
<1> SUFFICES ASSUME ReservationInv, LedgerInv, [Next]_vars PROVE LedgerInv'
  OBVIOUS
<1>1. OneWorkerPerKey'
  BY OneWorkerStep DEF LedgerInv, ReservationInv
<1>2. LostIsNoted'
  BY LostStep DEF LedgerInv, ReservationInv
<1>3. ASSUME Healthy' PROVE Ledgers'
  <2>1. Ledgers
    BY <1>3, FaultsGrow DEF LedgerInv, Healthy
  <2> QED BY <1>3, <2>1, LedgersStep DEF LedgerInv
<1> QED BY <1>1, <1>2, <1>3 DEF LedgerInv

(* The ledgers' invariant holds as long as one worker at a time reconciles *)
(* a throttle: always for a Throttle, with one thread for a ClusterThrottle*)
THEOREM LedgersKept == ASSUME SingleReconciler PROVE Spec => []LedgerInv
<1>1. ReservationInv /\ LedgerInv /\ [Next]_vars => LedgerInv'
  BY LedgerStep
<1> QED BY <1>1, LedgerInit, ReservationInit, ReservationStep, PTL DEF Spec

(* The status in the lister and the reservations account for every pod,    *)
(* whether a reconcile has just assigned to that status or not.            *)
LEMMA LedgersAccountNow ==
    ASSUME TypeOK, LedgerInv
    PROVE  Accounted
<1> SUFFICES ASSUME Healthy
             PROVE  \E C \in SUBSET Pods :
                      /\ object[listerRv] = Used(C)
                      /\ \A p \in Pods : Holds(p) => p \in C \cup reserved
  BY DEF Accounted
<1>1. listerRv \in listerRv..Len(object)
  BY LenProperties DEF TypeOK
<1>2. CASE object[listerRv] = apiUsed
  <2>1. PICK C \in SUBSET Pods :
            /\ apiUsed = Used(C)
            /\ \A p \in Pods : Holds(p) => p \in C \cup (reserved \ Removing)
    BY DEF LedgerInv, Ledgers, ApiAccounts
  <2> QED BY <1>2, <2>1
<1>3. CASE \E w \in Workers : At(w, "update") /\ worker[w].rv = listerRv
  <2>1. PICK w \in Workers : At(w, "update") /\ worker[w].rv = listerRv
    BY <1>3
  <2>2. object[listerRv] = Used(worker[w].live)
    BY <2>1 DEF LedgerInv, Ledgers, PointersFollow, NewUsed
  <2>3. \A p \in Pods : Holds(p) => p \in worker[w].live \cup (reserved \ worker[w].todo)
    BY <2>1 DEF LedgerInv, Ledgers, ReconcileAccounts, At
  <2>4. worker[w].live \in SUBSET Pods
    BY DEF TypeOK, Reconciles
  <2> QED BY <2>2, <2>3, <2>4
<1> QED BY <1>1, <1>2, <1>3 DEF LedgerInv, Ledgers, ObjectsFollow

(* Every pod that holds resources is counted by the status the scheduler   *)
(* reads, or reserved, until something fails.                              *)
THEOREM LedgersAccount == ASSUME SingleReconciler PROVE Spec => []Accounted
<1>1. TypeOK /\ LedgerInv => Accounted
  BY LedgersAccountNow
<1> QED BY <1>1, LedgersKept, TypeCorrect, PTL

(* A worker goes on to remove reservations from a status it found stored,  *)
(* or has just stored.                                                     *)
LEMMA UnreserveStep ==
    ASSUME TypeOK, LedgerInv, Healthy, [Next]_vars, NEW w \in Workers
    PROVE  ~UnreservesTooEarly(w)
<1> SUFFICES ASSUME worker[w].pc \in {"compare", "update"}, worker'[w].pc = "unreserve"
             PROVE  apiUsed' = NewUsed(w)
  BY DEF UnreservesTooEarly
<1>1. ASSUME NEW v \in Workers, NEW state, Become(v, state)
      PROVE  v = w /\ state.pc = "unreserve"
  BY <1>1 DEF Become, TypeOK
<1>2. /\ At(w, "compare") => object[worker[w].rv] = apiUsed
      /\ At(w, "update") => object[worker[w].rv] = NewUsed(w)
  BY DEF LedgerInv, Ledgers, PointersFollow, At
<1>3. worker[w] \in Reconciles /\ Idle.pc = "idle"
  BY IdleType DEF TypeOK
<1>4. ASSUME NEW v \in Workers, StatusUnchanged(v) PROVE apiUsed' = NewUsed(w)
  <2>1. v = w
    BY <1>1, <1>4 DEF StatusUnchanged
  <2> QED BY <1>2, <1>4, <2>1 DEF StatusUnchanged, throttle
<1>5. ASSUME NEW v \in Workers, UpdateSucceeds(v) PROVE apiUsed' = NewUsed(w)
  <2>1. v = w
    BY <1>1, <1>5 DEF UpdateSucceeds
  <2> QED BY <1>2, <1>5, <2>1 DEF UpdateSucceeds, StoreStatus
<1>6. ASSUME NEW v \in Workers, StartReconcile(v) PROVE FALSE
  <2>1. PICK k \in Ready(queue) :
            Become(v, [Idle EXCEPT !.pc = "list", !.key = k, !.rv = listerRv])
    BY <1>6 DEF StartReconcile
  <2>2. [Idle EXCEPT !.pc = "list", !.key = k, !.rv = listerRv].pc = "list"
    BY DEF Idle
  <2> QED BY <1>1, <2>1, <2>2
<1>7. ASSUME NEW v \in Workers, ListAffectedPods(v) PROVE FALSE
  <2>1. PICK terminated : Become(v, [worker[v] EXCEPT !.pc = "compare", !.live = Live,
                                                      !.todo = Live \cup terminated])
    BY <1>7 DEF ListAffectedPods
  <2>2. v = w
    BY <1>1, <2>1
  <2> QED BY <1>7, <2>2 DEF ListAffectedPods, At
<1>8. ASSUME NEW v \in Workers, StatusChanged(v) PROVE FALSE
  <2>1. v = w /\ [worker[v] EXCEPT !.pc = "update"].pc = "unreserve"
    BY <1>1, <1>8 DEF StatusChanged
  <2> QED BY <1>3, <2>1 DEF Reconciles
<1>9. ASSUME NEW v \in Workers, UpdateConflicts(v) \/ UpdateFails(v) \/ FinishReconcile(v)
      PROVE  FALSE
  BY <1>1, <1>3, <1>9 DEF UpdateConflicts, UpdateFails, FinishReconcile, RetryLater
<1>10. ASSUME NEW v \in Workers, UnreserveAffectedPod(v) PROVE FALSE
  <2>1. v = w
    BY <1>1, <1>10 DEF UnreserveAffectedPod
  <2> QED BY <1>10, <2>1 DEF UnreserveAffectedPod, At
<1>11. ~UNCHANGED worker
  OBVIOUS
<1>12. ~RetryExpires /\ ~Inform /\ ~Resync
  BY <1>11 DEF RetryExpires, Inform, DeliverPod, HandlePod, DeliverThrottle, HandleThrottle,
               Resync
<1>13. ~Schedule
  BY <1>11 DEF Schedule, PreFilter, ReadReserved, CheckThrottledFor, Reserve, Abandon
<1>14. \A p \in Pods : ~Bind(p) /\ ~PodFinishes(p) /\ ~PodDeleted(p) /\ ~BindAnswerLost(p)
  BY <1>11 DEF Bind, BindSucceeds, Unreserve, PodFinishes, PodDeleted, BindAnswerLost
<1>15. ~EditThrottle /\ ~Restart /\ ~UNCHANGED vars
  BY <1>3, <1>11 DEF EditThrottle, Restart, vars
<1> QED BY <1>4, <1>5, <1>6, <1>7, <1>8, <1>9, <1>10, <1>12, <1>13, <1>14, <1>15
        DEF Next, Reconcile, Environment

(* A worker that goes on to remove reservations finds the status that      *)
(* counts their pods stored, until something fails.                        *)
THEOREM UnreservesLast ==
    ASSUME SingleReconciler PROVE Spec => UnreserveAfterStatusUpdateUnlessFailed
<1>1. TypeOK /\ LedgerInv /\ [Next]_vars
        => [Healthy => \A w \in Workers : ~UnreservesTooEarly(w)]_vars
  BY UnreserveStep
<1> QED BY <1>1, LedgersKept, TypeCorrect, PTL
        DEF Spec, UnreserveAfterStatusUpdateUnlessFailed

-----------------------------------------------------------------------------
(* Whatever fails, nothing is forgotten.                                   *)
(* The handlers have yet to be told of a pod that is scheduled.            *)
PodNews == \E p \in Pods : podHandled[p] # podLister[p] /\ IsScheduled(podLister[p])

(* A reconcile will begin from what the listers have now.                  *)
ToReconcile == queue.dirty # {} \/ queue.waiting # {} \/ handledRv < listerRv \/ PodNews

HandlersLag == handledRv <= listerRv

(* Of a deleted pod there is no further news.                              *)
DeletedLast ==
    \A p \in Pods :
        /\ "deleted" \in podLister[p] => podLister[p] = apiPod[p]
        /\ "deleted" \in podHandled[p] => podHandled[p] = podLister[p]

(* Unless a reconcile is to begin, the one that is about to assign to the  *)
(* status has the latest version and the latest pods.                      *)
RepairInv ==
    \/ ToReconcile
    \/ /\ \A w \in Workers :
            /\ worker[w].pc \in {"list", "compare"} => worker[w].rv = listerRv
            /\ At(w, "compare") => worker[w].live = Live
       /\ \/ object[listerRv] = Used(Live)
          \/ \E w \in Workers : worker[w].pc \in {"list", "compare"}

(* ... and a reservation that is left over is on some worker's list.       *)
DrainInv ==
    \A p \in reserved : IsScheduled(podLister[p]) =>
        /\ "deleted" \in podLister[p] => podHandled[p] # podLister[p]
        /\ ToReconcile \/ \E w \in Workers : At(w, "list") \/ p \in worker[w].todo

-----------------------------------------------------------------------------
LEMMA WatchesInit == Init => HandlersLag /\ DeletedLast
BY DEF Init, HandlersLag, DeletedLast

LEMMA HandlersLagStep == TypeOK /\ HandlersLag /\ [Next]_vars => HandlersLag'
<1> SUFFICES ASSUME TypeOK, HandlersLag, [Next]_vars PROVE HandlersLag'
  OBVIOUS
<1> USE DEF HandlersLag
<1>0. listerRv \in Nat /\ handledRv \in Nat /\ Len(object) \in Nat
  BY LenProperties DEF TypeOK
<1>1. CASE UNCHANGED <<listerRv, handledRv>>
  BY <1>1
<1>2. CASE DeliverThrottle \/ HandleThrottle
  BY <1>0, <1>2 DEF DeliverThrottle, HandleThrottle
<1>3. CASE Restart
  BY <1>0, <1>3 DEF Restart
<1>4. ASSUME NEW w \in Workers, Reconcile(w) \/ UpdateFails(w)
      PROVE  UNCHANGED <<listerRv, handledRv>>
  BY <1>4 DEF Reconcile, StartReconcile, ListAffectedPods, StatusUnchanged, StatusChanged,
              UpdateSucceeds, UpdateConflicts, UnreserveAffectedPod, FinishReconcile,
              UpdateFails, throttle
<1>5. ASSUME NEW p \in Pods,
             DeliverPod(p) \/ HandlePod(p) \/ Bind(p) \/ PodFinishes(p) \/ PodDeleted(p)
               \/ BindAnswerLost(p)
      PROVE  UNCHANGED <<listerRv, handledRv>>
  BY <1>5 DEF DeliverPod, HandlePod, Bind, BindSucceeds, Unreserve, PodFinishes, PodDeleted,
              BindAnswerLost, throttle
<1>6. ASSUME RetryExpires \/ Resync \/ Schedule \/ EditThrottle \/ UNCHANGED vars
      PROVE  UNCHANGED <<listerRv, handledRv>>
  BY <1>6 DEF RetryExpires, Resync, Schedule, PreFilter, ReadReserved, CheckThrottledFor,
              Reserve, Abandon, EditThrottle, throttle, vars
<1> QED BY <1>1, <1>2, <1>3, <1>4, <1>5, <1>6 DEF Next, Inform, Environment

LEMMA DeletedLastStep == ReservationInv /\ DeletedLast /\ [Next]_vars => DeletedLast'
<1> SUFFICES ASSUME ReservationInv, DeletedLast, [Next]_vars PROVE DeletedLast'
  OBVIOUS
<1>0. TypeOK /\ CachesLag
  BY DEF ReservationInv
<1> USE <1>0 DEF DeletedLast
<1>1. CASE UNCHANGED pods
  BY <1>1 DEF pods
<1>2. ASSUME NEW p \in Pods, DeliverPod(p) PROVE DeletedLast'
  BY <1>2 DEF DeliverPod, NextEvents, TypeOK, CachesLag
<1>3. ASSUME NEW p \in Pods, HandlePod(p) PROVE DeletedLast'
  BY <1>3 DEF HandlePod, NextEvents, TypeOK, CachesLag
<1>4. ASSUME NEW p \in Pods,
             BindSucceeds(p) \/ BindAnswerLost(p) \/ PodFinishes(p) \/ PodDeleted(p)
      PROVE  DeletedLast'
  <2>1. "deleted" \notin apiPod[p] /\ UNCHANGED <<podLister, podHandled>>
    BY <1>4 DEF BindSucceeds, BindAnswerLost, PodFinishes, PodDeleted, IsLive
  <2>2. "deleted" \notin podLister[p]
    BY <2>1 DEF CachesLag
  <2>3. \A q \in Pods \ {p} : apiPod'[q] = apiPod[q]
    BY <1>4 DEF BindSucceeds, BindAnswerLost, PodFinishes, PodDeleted, TypeOK
  <2> QED BY <2>1, <2>2, <2>3
<1>5. CASE Restart
  BY <1>5 DEF Restart
<1>6. ASSUME NEW w \in Workers, Reconcile(w) \/ UpdateFails(w) PROVE UNCHANGED pods
  BY <1>6 DEF Reconcile, StartReconcile, ListAffectedPods, StatusUnchanged, StatusChanged,
              UpdateSucceeds, UpdateConflicts, UnreserveAffectedPod, FinishReconcile, UpdateFails
<1>7. ASSUME RetryExpires \/ DeliverThrottle \/ HandleThrottle \/ Resync \/ Schedule
               \/ EditThrottle \/ UNCHANGED vars
      PROVE  UNCHANGED pods
  BY <1>7 DEF RetryExpires, DeliverThrottle, HandleThrottle, Resync, Schedule, PreFilter,
              ReadReserved, CheckThrottledFor, Reserve, Abandon, EditThrottle, vars, pods
<1>8. ASSUME NEW p \in Pods, Unreserve(p) PROVE UNCHANGED pods
  BY <1>8 DEF Unreserve
<1> QED BY <1>1, <1>2, <1>3, <1>4, <1>5, <1>6, <1>7, <1>8 DEF Next, Inform, Bind, Environment

(* A reconcile that is to begin is to begin until it does.                 *)
LEMMA StillToReconcile ==
    ASSUME ReservationInv, HandlersLag, ToReconcile, [Next]_vars,
           \A w \in Workers : ~StartReconcile(w)
    PROVE  ToReconcile'
<1>0. /\ TypeOK /\ CachesLag
      /\ listerRv \in Nat /\ handledRv \in Nat /\ Len(object) \in Nat
      /\ queue \in Queues(Keys)
  BY LenProperties DEF ReservationInv, TypeOK
<1> USE <1>0
<1>1. ASSUME UNCHANGED <<podLister, podHandled, listerRv, handledRv>>,
             /\ queue'.dirty = {} => queue.dirty = {}
             /\ queue'.waiting = {} => queue.waiting = {} \/ queue'.dirty # {}
      PROVE  ToReconcile'
  BY <1>1 DEF ToReconcile, PodNews
<1>2. ASSUME NEW w \in Workers, FinishReconcile(w) PROVE ToReconcile'
  BY <1>1, <1>2 DEF FinishReconcile, Done, Queues, throttle, pods
<1>3. ASSUME NEW w \in Workers, UpdateConflicts(w) \/ UpdateFails(w) PROVE ToReconcile'
  <2>1. worker[w].key \in queue'.waiting
    BY <1>3 DEF UpdateConflicts, UpdateFails, RetryLater, Done, AddRateLimited, Queues
  <2> QED BY <2>1 DEF ToReconcile
<1>4. CASE RetryExpires
  <2>1. queue'.dirty # {}
    BY <1>4 DEF RetryExpires, Expire, Queues
  <2> QED BY <2>1 DEF ToReconcile
<1>5. CASE HandleThrottle \/ Resync
  <2>1. queue'.dirty # {}
    BY <1>5 DEF HandleThrottle, Resync, Enqueue, Queues
  <2> QED BY <2>1 DEF ToReconcile
<1>6. CASE DeliverThrottle \/ Restart
  <2>1. handledRv' < listerRv'
    BY <1>6 DEF DeliverThrottle, Restart, HandlersLag
  <2> QED BY <2>1 DEF ToReconcile
<1>7. ASSUME NEW p \in Pods, DeliverPod(p) PROVE ToReconcile'
  <2>1. ASSUME NEW q \in Pods, podHandled[q] # podLister[q], IsScheduled(podLister[q])
        PROVE  podHandled'[q] # podLister'[q] /\ IsScheduled(podLister'[q])
    BY <1>7, <2>1 DEF DeliverPod, NextEvents, CachesLag, IsScheduled, TypeOK
  <2>2. PodNews => PodNews'
    BY <2>1 DEF PodNews
  <2> QED BY <1>7, <2>2 DEF DeliverPod, throttle, ToReconcile
<1>8. ASSUME NEW p \in Pods, HandlePod(p) PROVE ToReconcile'
  <2>1. PICK e \in NextEvents(podHandled[p], podLister[p]) :
          /\ podHandled' = [podHandled EXCEPT ![p] = @ \cup {e}]
          /\ IF e # "deleted"
             THEN queue' = Enqueue(queue, NameKey) /\ UNCHANGED reserved
             ELSE IF IsScheduled(podHandled[p])
             THEN queue' = Enqueue(queue, ObjectKey) /\ reserved' = reserved \ {p}
             ELSE UNCHANGED <<queue, reserved>>
    BY <1>8 DEF HandlePod
  <2>2. CASE e # "deleted" \/ IsScheduled(podHandled[p])
    <3>1. queue'.dirty # {}
      BY <2>1, <2>2 DEF Enqueue, Queues
    <3> QED BY <3>1 DEF ToReconcile
  <2>3. CASE e = "deleted" /\ ~IsScheduled(podHandled[p])
    <3>1. ~IsScheduled(podLister[p])
      BY <2>1, <2>3 DEF NextEvents, IsScheduled
    <3>2. PodNews => PodNews'
      BY <1>8, <2>1, <3>1 DEF HandlePod, PodNews, TypeOK
    <3> QED BY <1>8, <2>1, <2>3, <3>2 DEF HandlePod, ToReconcile, throttle
  <2> QED BY <2>2, <2>3
<1>9. ASSUME NEW w \in Workers,
             ListAffectedPods(w) \/ StatusUnchanged(w) \/ StatusChanged(w) \/ UpdateSucceeds(w)
               \/ UnreserveAffectedPod(w)
      PROVE  ToReconcile'
  BY <1>1, <1>9 DEF ListAffectedPods, StatusUnchanged, StatusChanged, UpdateSucceeds,
                    UnreserveAffectedPod, pods, throttle
<1>10. ASSUME NEW p \in Pods,
              Bind(p) \/ PodFinishes(p) \/ PodDeleted(p) \/ BindAnswerLost(p)
       PROVE  ToReconcile'
  BY <1>1, <1>10 DEF Bind, BindSucceeds, Unreserve, PodFinishes, PodDeleted, BindAnswerLost,
                     pods, throttle
<1>11. CASE Schedule \/ EditThrottle \/ UNCHANGED vars
  BY <1>1, <1>11 DEF Schedule, PreFilter, ReadReserved, CheckThrottledFor, Reserve, Abandon,
                     EditThrottle, pods, throttle, vars
<1> QED BY <1>2, <1>3, <1>4, <1>5, <1>6, <1>7, <1>8, <1>9, <1>10, <1>11
        DEF Next, Reconcile, Inform, Environment

-----------------------------------------------------------------------------
(* No repair of the status is lost.                                        *)

LEMMA RepairStep ==
    ASSUME SingleReconciler, ReservationInv, OneWorkerPerKey, HandlersLag, RepairInv, [Next]_vars
    PROVE  RepairInv'
<1> SUFFICES ASSUME ~ToReconcile' PROVE RepairInv'
  BY DEF RepairInv
<1>0. /\ TypeOK /\ CachesLag
      /\ listerRv \in 1..Len(object) /\ Len(object) \in Nat
      /\ \A w \in Workers : worker[w] \in Reconciles
      /\ queue \in Queues(Keys) /\ listerRv \in Nat
  BY LenProperties DEF ReservationInv, TypeOK
<1> USE <1>0
<1>1. ASSUME NEW w \in Workers, StartReconcile(w) PROVE RepairInv'
  <2>1. PICK k \in Ready(queue) :
            Become(w, [Idle EXCEPT !.pc = "list", !.key = k, !.rv = listerRv])
    BY <1>1 DEF StartReconcile
  <2>2. At(w, "idle") /\ k \in Keys
    BY <1>1, <2>1 DEF StartReconcile, Ready, TypeOK, Queues
  <2>3. [Idle EXCEPT !.pc = "list", !.key = k, !.rv = listerRv] \in Reconciles
    BY <2>2, IdleType DEF Idle, Reconciles
  <2>4. ASSUME NEW v \in Workers, ~At(v, "idle") PROVE FALSE
    <3>1. v # w
      BY <2>2, <2>4
    <3>2. worker[v].key = k
      BY <2>2, <3>1 DEF SingleReconciler, Keys, NameKey, Reconciles
    <3> QED BY <2>1, <2>4, <3>2 DEF OneWorkerPerKey, Ready
  <2>5. /\ worker'[w].pc = "list" /\ worker'[w].rv = listerRv
        /\ \A v \in Workers \ {w} : worker'[v] = worker[v]
    <3> DEFINE state == [Idle EXCEPT !.pc = "list", !.key = k, !.rv = listerRv]
    <3>1. state.pc = "list" /\ state.rv = listerRv
      BY DEF Idle
    <3>2. worker'[w] = state /\ \A v \in Workers \ {w} : worker'[v] = worker[v]
      BY <2>1, <2>3, WorkerStep DEF TypeOK
    <3> QED BY <3>1, <3>2
  <2> QED BY <1>1, <2>4, <2>5 DEF StartReconcile, RepairInv, throttle, pods, At, Live
<1>2. ASSUME \A w \in Workers : ~StartReconcile(w) PROVE RepairInv'
  <2>0. /\ ~ToReconcile
        /\ \A w \in Workers :
            /\ worker[w].pc \in {"list", "compare"} => worker[w].rv = listerRv
            /\ At(w, "compare") => worker[w].live = Live
        /\ \/ object[listerRv] = Used(Live)
           \/ \E w \in Workers : worker[w].pc \in {"list", "compare"}
    BY <1>2, StillToReconcile DEF RepairInv
  <2>1. ASSUME UNCHANGED <<worker, listerRv, Live>>, object'[listerRv] = object[listerRv]
        PROVE  RepairInv'
    BY <2>0, <2>1 DEF RepairInv, At
  <2>2. ASSUME NEW w \in Workers, NEW state \in Reconciles, Become(w, state),
               UNCHANGED <<listerRv, Live>>,
               state.pc = "compare" => At(w, "list") /\ state.rv = worker[w].rv /\ state.live = Live,
               state.pc # "list",
               \/ state.pc = "compare"
               \/ object'[listerRv] = Used(Live)
               \/ worker[w].pc \notin {"list", "compare"} /\ object'[listerRv] = object[listerRv]
        PROVE  RepairInv'
    <3>1. worker'[w] = state /\ \A v \in Workers \ {w} : worker'[v] = worker[v]
      BY <2>2, WorkerStep DEF TypeOK
    <3> QED BY <2>0, <2>2, <3>1 DEF RepairInv, At
  <2>3. ASSUME NEW w \in Workers, ListAffectedPods(w) PROVE RepairInv'
    <3>1. PICK terminated \in TerminatedPods(Live, Finished) :
            Become(w, [worker[w] EXCEPT !.pc = "compare", !.live = Live,
                                        !.todo = Live \cup terminated])
      BY <2>3 DEF ListAffectedPods
    <3>2. terminated \subseteq Pods /\ Live \subseteq Pods
      BY TerminatedPodsType DEF Finished, Live
    <3>3. [worker[w] EXCEPT !.pc = "compare", !.live = Live, !.todo = Live \cup terminated]
            \in Reconciles
      BY <3>2 DEF Reconciles
    <3> QED BY <2>2, <2>3, <3>1, <3>3 DEF ListAffectedPods, Reconciles, Live, pods, throttle
  <2>4. ASSUME NEW w \in Workers, StatusUnchanged(w) PROVE RepairInv'
    <3>1. [worker[w] EXCEPT !.pc = "unreserve", !.live = {}] \in Reconciles
      BY DEF Reconciles
    <3>2. object[listerRv] = Used(Live)
      BY <2>0, <2>4 DEF StatusUnchanged, NewUsed, At
    <3> QED BY <2>2, <2>4, <3>1, <3>2 DEF StatusUnchanged, Reconciles, Live, pods, throttle
  <2>5. ASSUME NEW w \in Workers, StatusChanged(w) PROVE RepairInv'
    <3>1. [worker[w] EXCEPT !.pc = "update"] \in Reconciles
      BY DEF Reconciles
    <3>2. object'[listerRv] = Used(Live)
      BY <2>0, <2>5 DEF StatusChanged, NewUsed, At, TypeOK
    <3> QED BY <2>2, <2>5, <3>1, <3>2 DEF StatusChanged, Reconciles, Live, pods
  <2>6. ASSUME NEW w \in Workers, UpdateSucceeds(w) PROVE RepairInv'
    <3>1. [worker[w] EXCEPT !.pc = "unreserve", !.live = {}] \in Reconciles
      BY DEF Reconciles
    <3>2. object[worker[w].rv] \in Totals
      BY <2>6, ElementOfSeq DEF UpdateSucceeds, TypeOK, At
    <3>3. object'[listerRv] = object[listerRv]
      BY <2>6, <3>2, AppendProperties DEF UpdateSucceeds, StoreStatus, TypeOK
    <3>4. worker[w].pc \notin {"list", "compare"}
      BY <2>6 DEF UpdateSucceeds, At
    <3> QED BY <2>2, <2>6, <3>1, <3>3, <3>4 DEF UpdateSucceeds, Reconciles, Live, pods
  <2>7. ASSUME NEW w \in Workers, UpdateConflicts(w) \/ UpdateFails(w) PROVE FALSE
    <3>1. worker[w].key \in queue'.waiting
      BY <2>7 DEF UpdateConflicts, UpdateFails, RetryLater, Done, AddRateLimited, Queues, TypeOK
    <3> QED BY <3>1 DEF ToReconcile
  <2>8. ASSUME NEW w \in Workers, UnreserveAffectedPod(w) PROVE RepairInv'
    <3>1. PICK p \in worker[w].todo : Become(w, [worker[w] EXCEPT !.todo = @ \ {p}])
      BY <2>8 DEF UnreserveAffectedPod
    <3>2. [worker[w] EXCEPT !.todo = @ \ {p}] \in Reconciles
      BY DEF Reconciles
    <3> QED BY <2>2, <2>8, <3>1, <3>2
            DEF UnreserveAffectedPod, Reconciles, At, Live, pods, throttle
  <2>9. ASSUME NEW w \in Workers, FinishReconcile(w) PROVE RepairInv'
    BY <2>2, <2>9, IdleType DEF FinishReconcile, At, Live, pods, throttle
  <2>10. CASE RetryExpires \/ HandleThrottle \/ Resync
    <3>1. queue'.dirty # {}
      BY <2>10 DEF RetryExpires, HandleThrottle, Resync, Expire, Enqueue, Queues
    <3> QED BY <3>1 DEF ToReconcile
  <2>11. CASE DeliverThrottle \/ Restart
    <3>1. handledRv' < listerRv'
      BY <2>11 DEF DeliverThrottle, Restart, HandlersLag, TypeOK
    <3> QED BY <3>1 DEF ToReconcile
  <2>12. ASSUME NEW p \in Pods, DeliverPod(p) PROVE RepairInv'
    <3>1. PICK e \in NextEvents(podLister[p], apiPod[p]) :
            podLister' = [podLister EXCEPT ![p] = @ \cup {e}]
      BY <2>12 DEF DeliverPod
    <3>2. podHandled'[p] # podLister'[p]
      BY <2>12, <3>1 DEF DeliverPod, NextEvents, CachesLag, TypeOK
    <3>3. ~IsScheduled(podLister'[p])
      BY <3>2 DEF ToReconcile, PodNews
    <3>4. ~IsLive(podLister[p]) /\ ~IsLive(podLister'[p])
      BY <3>1, <3>3 DEF IsLive, IsScheduled, TypeOK
    <3>5. Live' = Live
      BY <3>1, <3>4 DEF Live, TypeOK
    <3> QED BY <2>1, <2>12, <3>5 DEF DeliverPod, throttle
  <2>13. ASSUME NEW p \in Pods, HandlePod(p) PROVE RepairInv'
    BY <2>1, <2>13 DEF HandlePod, throttle, Live
  <2>14. ASSUME NEW p \in Pods,
                Bind(p) \/ PodFinishes(p) \/ PodDeleted(p) \/ BindAnswerLost(p)
         PROVE  RepairInv'
    BY <2>1, <2>14 DEF Bind, BindSucceeds, Unreserve, PodFinishes, PodDeleted, BindAnswerLost,
                       pods, throttle, Live
  <2>15. CASE Schedule \/ UNCHANGED vars
    BY <2>1, <2>15 DEF Schedule, PreFilter, ReadReserved, CheckThrottledFor, Reserve, Abandon,
                       pods, throttle, vars, Live
  <2>16. CASE EditThrottle
    <3>1. object'[listerRv] = object[listerRv]
      BY <2>16, AppendProperties DEF EditThrottle, TypeOK
    <3> QED BY <2>1, <2>16, <3>1 DEF EditThrottle, pods, Live
  <2> QED BY <1>2, <2>3, <2>4, <2>5, <2>6, <2>7, <2>8, <2>9, <2>10, <2>11, <2>12, <2>13,
             <2>14, <2>15, <2>16
          DEF Next, Reconcile, Inform, Environment
<1> QED BY <1>1, <1>2

(* While one worker at a time reconciles a throttle, a status that is not  *)
(* the sum of the pods in the lister is always about to be repaired,       *)
(* through every failure and restart.                                      *)
THEOREM NoRepairIsLost == ASSUME SingleReconciler PROVE Spec => []StatusRepairPending
<1>1. Init => RepairInv /\ OneWorkerPerKey
  <2>1. Init => handledRv < listerRv
    BY DEF Init
  <2> QED BY <2>1, LedgerInit DEF RepairInv, ToReconcile, LedgerInv
<1>2. ReservationInv /\ OneWorkerPerKey /\ HandlersLag /\ RepairInv /\ [Next]_vars => RepairInv'
  BY RepairStep
<1>3. ReservationInv => TypeOK
  BY DEF ReservationInv
<1>4. RepairInv => StatusRepairPending
  BY DEF RepairInv, StatusRepairPending, ToReconcile, PodNews, ReconcilePending, At
<1> QED BY <1>1, <1>2, <1>3, <1>4, WatchesInit, HandlersLagStep, ReservationInit, ReservationStep,
           OneWorkerStep, PTL DEF Spec

-----------------------------------------------------------------------------
(* No reservation is left over, where affectedPods returns every pod.      *)

LEMMA DrainStep ==
    ASSUME Clustered, ReservationInv, HandlersLag, DeletedLast, DrainInv, [Next]_vars
    PROVE  DrainInv'
<1>0. /\ TypeOK /\ CachesLag /\ BoundLast
      /\ queue \in Queues(Keys)
      /\ \A w \in Workers : worker[w] \in Reconciles
  BY DEF ReservationInv, TypeOK
<1> USE <1>0
<1>1. ASSUME NEW p \in reserved', IsScheduled(podLister'[p]), p \notin reserved PROVE FALSE
  <2>1. CASE Reserve
    BY <1>1, <2>1 DEF Reserve, BoundLast, CachesLag, IsScheduled, pods, TypeOK, Cycles
  <2>2. CASE ~Reserve
    <3>1. reserved' \subseteq reserved
      BY <2>2 DEF Next, vars, Reconcile, StartReconcile, ListAffectedPods, StatusUnchanged,
                  StatusChanged, UpdateSucceeds, UpdateConflicts, UpdateFails,
                  UnreserveAffectedPod, FinishReconcile, RetryExpires, Inform, DeliverPod,
                  HandlePod, DeliverThrottle, HandleThrottle, Resync, Schedule, PreFilter,
                  ReadReserved, CheckThrottledFor, Abandon, Bind, BindSucceeds, Unreserve,
                  PodFinishes, PodDeleted, BindAnswerLost, Environment, EditThrottle, Restart
    <3> QED BY <1>1, <3>1
  <2> QED BY <2>1, <2>2
<1>2. ASSUME NEW p \in reserved', IsScheduled(podLister'[p]), "deleted" \in podLister'[p]
      PROVE  podHandled'[p] # podLister'[p]
  <2>1. p \in reserved /\ p \in Pods
    BY <1>1, <1>2 DEF TypeOK
  <2>2. CASE UNCHANGED <<podLister, podHandled>>
    BY <1>2, <2>1, <2>2 DEF DrainInv
  <2>3. ASSUME NEW q \in Pods, DeliverPod(q) PROVE podHandled'[p] # podLister'[p]
    BY <1>2, <2>1, <2>3 DEF DeliverPod, NextEvents, CachesLag, DrainInv, TypeOK
  <2>4. ASSUME NEW q \in Pods, HandlePod(q) PROVE podHandled'[p] # podLister'[p]
    <3>1. PICK e \in NextEvents(podHandled[q], podLister[q]) :
            /\ podHandled' = [podHandled EXCEPT ![q] = @ \cup {e}]
            /\ IF e # "deleted"
               THEN queue' = Enqueue(queue, NameKey) /\ UNCHANGED reserved
               ELSE IF IsScheduled(podHandled[q])
               THEN queue' = Enqueue(queue, ObjectKey) /\ reserved' = reserved \ {q}
               ELSE UNCHANGED <<queue, reserved>>
      BY <2>4 DEF HandlePod
    <3>2. UNCHANGED podLister
      BY <2>4 DEF HandlePod
    <3>3. CASE q # p
      BY <1>2, <2>1, <3>1, <3>2, <3>3 DEF DrainInv, TypeOK
    <3>4. CASE q = p
      <4>1. e # "deleted"
        BY <1>2, <3>1, <3>2, <3>4 DEF NextEvents, IsScheduled
      <4>2. "deleted" \notin podHandled[p]
        BY <2>1, <3>1, <3>4 DEF DeletedLast, NextEvents
      <4> QED BY <1>2, <3>1, <3>2, <3>4, <4>1, <4>2 DEF TypeOK
    <3> QED BY <3>3, <3>4
  <2>5. CASE Restart
    BY <1>2, <2>5 DEF Restart
  <2>6. CASE /\ ~Restart
             /\ \A q \in Pods : ~DeliverPod(q) /\ ~HandlePod(q)
    BY <2>2, <2>6 DEF Next, vars, pods, Reconcile, StartReconcile, ListAffectedPods,
                StatusUnchanged, StatusChanged, UpdateSucceeds, UpdateConflicts, UpdateFails,
                UnreserveAffectedPod, FinishReconcile, RetryExpires, Inform, DeliverThrottle,
                HandleThrottle, Resync, Schedule, PreFilter, ReadReserved, CheckThrottledFor,
                Reserve, Abandon, Bind, BindSucceeds, Unreserve, PodFinishes, PodDeleted,
                BindAnswerLost, Environment, EditThrottle
  <2> QED BY <2>3, <2>4, <2>5, <2>6
<1>3. ASSUME NEW p \in reserved', IsScheduled(podLister'[p]), ~ToReconcile'
      PROVE  \E w \in Workers : At(w, "list")' \/ p \in worker'[w].todo
  <2>1. p \in reserved /\ p \in Pods
    BY <1>1, <1>3 DEF TypeOK
  <2>2. ASSUME NEW w \in Workers, StartReconcile(w) PROVE At(w, "list")'
    BY <2>2, IdleType DEF StartReconcile, Become, At, TypeOK, Idle
  <2>3. ASSUME \A w \in Workers : ~StartReconcile(w)
        PROVE  \E w \in Workers : At(w, "list")' \/ p \in worker'[w].todo
    <3>0. ~ToReconcile
      BY <1>3, <2>3, StillToReconcile
    <3>1. IsScheduled(podLister[p]) /\ podLister'[p] = podLister[p]
      <4>1. ASSUME NEW q \in Pods, DeliverPod(q), podLister'[p] # podLister[p] PROVE FALSE
        <5>1. podHandled'[p] # podLister'[p]
          BY <2>1, <4>1 DEF DeliverPod, NextEvents, CachesLag, TypeOK
        <5> QED BY <1>3, <2>1, <5>1 DEF ToReconcile, PodNews
      <4>2. CASE UNCHANGED podLister
        BY <1>3, <4>2
      <4>3. CASE Restart
        BY <1>3, <4>3 DEF Restart
      <4>4. CASE ~Restart /\ \A q \in Pods : ~DeliverPod(q)
        BY <4>2, <4>4 DEF Next, vars, pods, Reconcile, StartReconcile, ListAffectedPods,
                StatusUnchanged, StatusChanged, UpdateSucceeds, UpdateConflicts, UpdateFails,
                UnreserveAffectedPod, FinishReconcile, RetryExpires, Inform, HandlePod,
                DeliverThrottle, HandleThrottle, Resync, Schedule, PreFilter, ReadReserved,
                CheckThrottledFor, Reserve, Abandon, Bind, BindSucceeds, Unreserve, PodFinishes,
                PodDeleted, BindAnswerLost, Environment, EditThrottle
      <4> QED BY <1>3, <4>1, <4>3, <4>4
    <3>2. PICK w \in Workers : At(w, "list") \/ p \in worker[w].todo
      BY <2>1, <3>0, <3>1 DEF DrainInv
    <3>3. CASE UNCHANGED worker
      BY <3>2, <3>3 DEF At
    <3>4. ASSUME NEW v \in Workers, NEW state \in Reconciles, Become(v, state),
                 At(v, "list") \/ p \in worker[v].todo => p \in state.todo
          PROVE  p \in worker'[w].todo \/ At(w, "list")'
      <4>1. worker'[v] = state /\ \A u \in Workers \ {v} : worker'[u] = worker[u]
        BY <3>4, WorkerStep DEF TypeOK
      <4> QED BY <3>2, <3>4, <4>1 DEF At
    <3>5. ASSUME NEW v \in Workers, ListAffectedPods(v)
          PROVE  p \in worker'[w].todo \/ At(w, "list")'
      <4>1. PICK terminated \in TerminatedPods(Live, Finished) :
              Become(v, [worker[v] EXCEPT !.pc = "compare", !.live = Live,
                                          !.todo = Live \cup terminated])
        BY <3>5 DEF ListAffectedPods
      <4>2. terminated = Finished
        BY DEF TerminatedPods
      <4>3. "deleted" \notin podLister[p]
        BY <2>1, <3>0, <3>1 DEF DrainInv, ToReconcile, PodNews
      <4>4. p \in Live \cup Finished
        BY <2>1, <3>1, <4>3 DEF Live, Finished, IsLive, IsFinished, IsScheduled, PodEvents, TypeOK
      <4>5. [worker[v] EXCEPT !.pc = "compare", !.live = Live, !.todo = Live \cup terminated]
              \in Reconciles
        BY <4>2 DEF Reconciles, Live, Finished
      <4> QED BY <3>4, <4>1, <4>2, <4>4, <4>5 DEF Reconciles
    <3>6. ASSUME NEW v \in Workers, StatusUnchanged(v) \/ UpdateSucceeds(v)
          PROVE  p \in worker'[w].todo \/ At(w, "list")'
      <4>1. [worker[v] EXCEPT !.pc = "unreserve", !.live = {}] \in Reconciles
        BY DEF Reconciles
      <4> QED BY <3>4, <3>6, <4>1 DEF StatusUnchanged, UpdateSucceeds, At, Reconciles
    <3>7. ASSUME NEW v \in Workers, StatusChanged(v)
          PROVE  p \in worker'[w].todo \/ At(w, "list")'
      <4>1. [worker[v] EXCEPT !.pc = "update"] \in Reconciles
        BY DEF Reconciles
      <4> QED BY <3>4, <3>7, <4>1 DEF StatusChanged, At, Reconciles
    <3>8. ASSUME NEW v \in Workers, UpdateConflicts(v) \/ UpdateFails(v) PROVE FALSE
      <4>1. worker[v].key \in queue'.waiting
        BY <3>8 DEF UpdateConflicts, UpdateFails, RetryLater, Done, AddRateLimited, Queues
      <4> QED BY <1>3, <4>1 DEF ToReconcile
    <3>9. ASSUME NEW v \in Workers, UnreserveAffectedPod(v)
          PROVE  p \in worker'[w].todo \/ At(w, "list")'
      <4>1. PICK q \in worker[v].todo :
              /\ reserved' = reserved \ {q}
              /\ Become(v, [worker[v] EXCEPT !.todo = @ \ {q}])
        BY <3>9 DEF UnreserveAffectedPod
      <4>2. [worker[v] EXCEPT !.todo = @ \ {q}] \in Reconciles /\ p # q
        BY <1>3, <4>1 DEF Reconciles
      <4> QED BY <3>4, <3>9, <4>1, <4>2 DEF UnreserveAffectedPod, At, Reconciles
    <3>10. ASSUME NEW v \in Workers, FinishReconcile(v)
           PROVE  p \in worker'[w].todo \/ At(w, "list")'
      BY <3>4, <3>10, IdleType DEF FinishReconcile, At
    <3>11. CASE Restart
      BY <1>3, <3>11 DEF Restart
    <3>12. CASE /\ ~Restart
                /\ \A v \in Workers : ~Reconcile(v) /\ ~UpdateFails(v)
      BY <3>3, <3>12 DEF Next, vars, RetryExpires, Inform, DeliverPod, HandlePod,
                DeliverThrottle, HandleThrottle, Resync, Schedule, PreFilter, ReadReserved,
                CheckThrottledFor, Reserve, Abandon, Bind, BindSucceeds, Unreserve, PodFinishes,
                PodDeleted, BindAnswerLost, Environment, EditThrottle
    <3> QED BY <2>3, <3>5, <3>6, <3>7, <3>8, <3>9, <3>10, <3>11, <3>12 DEF Reconcile
  <2> QED BY <2>2, <2>3
<1> QED BY <1>2, <1>3 DEF DrainInv

(* For a ClusterThrottle, with any number of workers, a reservation that   *)
(* is left when the lister has its pod bound is always about to be         *)
(* removed; the Throttle's affectedPods loses terminated pods.             *)
THEOREM NoReservationIsLeft == ASSUME Clustered PROVE Spec => []ReservationsDrain
<1>1. Init => DrainInv
  BY DEF Init, DrainInv
<1>2. ReservationInv /\ HandlersLag /\ DeletedLast /\ DrainInv /\ [Next]_vars => DrainInv'
  BY DrainStep
<1>3. ReservationInv => TypeOK
  BY DEF ReservationInv
<1>4. DrainInv => ReservationsDrain
  BY DEF DrainInv, ReservationsDrain, ToReconcile, PodNews, ReconcilePending
<1> QED BY <1>1, <1>2, <1>3, <1>4, WatchesInit, HandlersLagStep, DeletedLastStep, ReservationInit,
           ReservationStep, PTL DEF Spec
=============================================================================

----------------------- MODULE SchedulingQueue_proofs -----------------------
(***************************************************************************)
(* Proofs about SchedulingQueue, for any number of pods and any limits.    *)
(***************************************************************************)
EXTENDS SchedulingQueue, FiniteSetTheorems, TLAPS

Phases == {"queued", "parked", "binding", "running", "gone"}

Types ==
    /\ phase \in [Pods -> Phases]
    /\ limit \in Limits /\ calculated \in Limits
    /\ used \subseteq Pods /\ reserved \subseteq Pods
    /\ worker.todo \subseteq Pods

QueueInv == Types /\ WokenWhenItPasses

(* PreFilter lets no pod pass that it refused when more is reserved.       *)
LEMMA MoreReserved ==
    ASSUME Types, Types', used' = used, calculated' = calculated, reserved \subseteq reserved'
    PROVE  Passes' => Passes
<1>1. IsFiniteSet(used) /\ IsFiniteSet(reserved) /\ IsFiniteSet(reserved')
  BY PodsAssumption, FS_Subset DEF Types
<1>2. Cardinality(reserved) <= Cardinality(reserved')
  BY <1>1, FS_Subset
<1>3. /\ Cardinality(used) \in Nat /\ Cardinality(reserved) \in Nat
      /\ Cardinality(reserved') \in Nat /\ calculated \in Nat
  BY <1>1, FS_CardinalityType, LimitsAssumption DEF Types
<1> QED BY <1>2, <1>3 DEF Passes, PassesWith

LEMMA WokenTypes ==
    ASSUME NEW kind, Types
    PROVE  Woken(kind) \in [Pods -> Phases]
BY DEF Woken, Types, Phases

LEMMA TypesStep == Types /\ [Next]_vars => Types'
<1> SUFFICES ASSUME Types, [Next]_vars PROVE Types'
  OBVIOUS
<1>1. ASSUME NEW p \in Pods, Schedule(p) PROVE Types'
  BY <1>1 DEF Schedule, Types, Phases
<1>2. ASSUME NEW p \in Pods, BindSucceeds(p) PROVE Types'
  BY <1>2 DEF BindSucceeds, Types, Phases
<1>3. ASSUME NEW p \in Pods, BindFails(p) PROVE Types'
  BY <1>3, WokenTypes DEF BindFails, Types, Phases
<1>4. ASSUME NEW p \in Pods, PodEnds(p) PROVE Types'
  BY <1>4 DEF PodEnds, Types, Phases
<1>5. ASSUME NEW p \in Pods, Flush(p) PROVE Types'
  BY <1>5 DEF Flush, Types, Phases
<1>6. ASSUME NEW p \in Pods, DeletionSeen(p) PROVE Types'
  BY <1>6, WokenTypes DEF DeletionSeen, Types
<1>7. ASSUME NEW p \in Pods, ListerSees(p) PROVE Types'
  BY <1>7 DEF ListerSees, Types
<1>8. ASSUME NEW p \in Pods, HandlePod(p) PROVE Types'
  BY <1>8 DEF HandlePod, Drop, Types
<1>9. CASE EditThreshold
  BY <1>9 DEF EditThreshold, Types
<1>10. CASE UpdateStatus
  BY <1>10 DEF UpdateStatus, Types, Listed
<1>11. CASE UnreserveAffectedPods
  BY <1>11 DEF UnreserveAffectedPods, Drop, Types
<1>12. CASE StatusSeen
  BY <1>12, WokenTypes DEF StatusSeen, Types
<1>13. CASE UNCHANGED vars
  BY <1>13 DEF vars, Types
<1> QED BY <1>1, <1>2, <1>3, <1>4, <1>5, <1>6, <1>7, <1>8, <1>9, <1>10, <1>11, <1>12, <1>13 DEF Next

(* An event that wakes the parked pods leaves none.                        *)
LEMMA NoneParked ==
    ASSUME Types, NEW kind \in EventsToRegister, NEW p \in Pods,
           NEW s \in Phases \ {"parked"},
           phase' = [Woken(kind) EXCEPT ![p] = s] \/ phase' = Woken(kind)
    PROVE  In("parked")' = {}
BY DEF Woken, Types, Phases, In

(* An un-reserve that makes room says so of the parked pods.               *)
LEMMA DropRemembers ==
    ASSUME NEW pods, Drop(pods), WokenWhenItPasses,
           UNCHANGED <<phase, used, calculated, announced>>
    PROVE  WokenWhenItPasses'
<1>1. In("parked")' = In("parked")
  BY DEF In
<1>2. Passes' <=> PassesWith(reserved \ pods)
  BY DEF Drop, Passes, PassesWith
<1>3. CASE Passes
  BY <1>1, <1>3 DEF Drop, WokenWhenItPasses
<1>4. CASE ~Passes
  BY <1>1, <1>2, <1>4 DEF Drop, WokenWhenItPasses
<1> QED BY <1>3, <1>4

LEMMA WokenStep == Types /\ WokenWhenItPasses /\ [Next]_vars => WokenWhenItPasses'
<1> SUFFICES ASSUME Types, WokenWhenItPasses, [Next]_vars PROVE WokenWhenItPasses'
  OBVIOUS
<1>0. Types'
  BY TypesStep
<1>1. ASSUME NEW p \in Pods, Schedule(p) PROVE WokenWhenItPasses'
  <2>1. CASE Passes
    <3>1. Passes' => Passes
      BY <1>0, <1>1, <2>1, MoreReserved DEF Schedule
    <3>2. In("parked")' \subseteq In("parked") \ {p}
      BY <1>1, <2>1 DEF Schedule, In, Types
    <3> QED BY <1>1, <3>1, <3>2 DEF Schedule, WokenWhenItPasses
  <2>2. CASE ~Passes
    <3>1. ~Passes'
      BY <1>1, <2>2 DEF Schedule, Passes, PassesWith
    <3> QED BY <3>1 DEF WokenWhenItPasses
  <2> QED BY <2>1, <2>2
<1>2. ASSUME NEW p \in Pods, BindSucceeds(p) PROVE WokenWhenItPasses'
  <2>1. In("parked")' \subseteq In("parked")
    BY <1>2 DEF BindSucceeds, In, Types
  <2> QED BY <1>2, <2>1 DEF BindSucceeds, WokenWhenItPasses, Passes, PassesWith
<1>3. ASSUME NEW p \in Pods, BindFails(p) \/ DeletionSeen(p) PROVE WokenWhenItPasses'
  <2>1. In("parked")' = {}
    BY <1>3, NoneParked DEF BindFails, DeletionSeen, EventsToRegister, Phases
  <2> QED BY <2>1 DEF WokenWhenItPasses
<1>4. ASSUME NEW p \in Pods, Flush(p) PROVE WokenWhenItPasses'
  <2>1. In("parked")' \subseteq In("parked")
    BY <1>4 DEF Flush, In, Types
  <2> QED BY <1>4, <2>1 DEF Flush, WokenWhenItPasses, Passes, PassesWith
<1>5. ASSUME NEW p \in Pods, PodEnds(p) PROVE WokenWhenItPasses'
  <2>1. In("parked")' \subseteq In("parked")
    BY <1>5 DEF PodEnds, In, Types
  <2> QED BY <1>5, <2>1 DEF PodEnds, WokenWhenItPasses, Passes, PassesWith
<1>6. ASSUME NEW p \in Pods, ListerSees(p) PROVE WokenWhenItPasses'
  BY <1>6 DEF ListerSees, WokenWhenItPasses, Passes, PassesWith, In
<1>7. ASSUME NEW p \in Pods, HandlePod(p) PROVE WokenWhenItPasses'
  <2>1. CASE Drop({p})
    BY <1>7, <2>1, DropRemembers DEF HandlePod
  <2>2. CASE UNCHANGED <<reserved, missed>>
    BY <1>7, <2>2 DEF HandlePod, WokenWhenItPasses, Passes, PassesWith, In
  <2> QED BY <1>7, <2>1, <2>2 DEF HandlePod
<1>8. CASE EditThreshold
  BY <1>8 DEF EditThreshold, WokenWhenItPasses
<1>9. CASE UpdateStatus
  <2>1. CASE announced'
    BY <2>1 DEF WokenWhenItPasses
  <2>2. CASE ~announced'
    BY <1>9, <2>2 DEF UpdateStatus, WokenWhenItPasses, Passes, PassesWith, In
  <2> QED BY <2>1, <2>2
<1>10. CASE UnreserveAffectedPods
  BY <1>10, DropRemembers DEF UnreserveAffectedPods
<1>11. CASE StatusSeen
  <2>1. In("parked")' = {}
    BY <1>11 DEF StatusSeen, Woken, In, EventsToRegister, Types
  <2> QED BY <2>1 DEF WokenWhenItPasses
<1>12. CASE UNCHANGED vars
  BY <1>12 DEF vars, WokenWhenItPasses, Passes, PassesWith, In
<1> QED BY <1>1, <1>2, <1>3, <1>4, <1>5, <1>6, <1>7, <1>8, <1>9, <1>10, <1>11, <1>12 DEF Next

-----------------------------------------------------------------------------
(* With any number of pods, no parked pod that would pass is forgotten,    *)
(* whichever informer is ahead, unless it waited for an un-reserve that no *)
(* event announces: by a reconcile after its status update, or by          *)
(* DeleteFunc after the scheduler had heard of the deletion.               *)
THEOREM NoPodIsForgotten == Spec => []WokenWhenItPasses
<1>1. Init => QueueInv
  BY DEF Init, QueueInv, Types, Phases, WokenWhenItPasses, In
<1>2. QueueInv /\ [Next]_vars => QueueInv'
  BY TypesStep, WokenStep DEF QueueInv
<1>3. QueueInv => WokenWhenItPasses
  BY DEF QueueInv
<1> QED BY <1>1, <1>2, <1>3, PTL DEF Spec
=============================================================================

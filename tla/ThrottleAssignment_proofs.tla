---------------------- MODULE ThrottleAssignment_proofs ----------------------
(***************************************************************************)
(* Proofs about ThrottleAssignment, for any pods, throttles of both kinds, *)
(* labels, selectors and number of changes.                                *)
(***************************************************************************)
EXTENDS AssignmentInvariants, Operators_proofs, SequenceTheorems

Versions == 0..(2 * MaxChanges)

Objects == [exists : BOOLEAN, responsible : BOOLEAN, rv : Versions,
            selector : UNION {{InitialSelector[t]} \cup EditedSelectors[t] : t \in Throttles}]

Works == [busy : BOOLEAN, rv : Versions, live : SUBSET Pods, terminated : SUBSET Pods]

Cycles == [pc : {"idle", "checked", "reserved", "failed"}, labels : PodLabels \cup {"none"}]

PodTypes ==
    /\ apiPod \in [Pods -> PodStates]
    /\ podLister \in [Pods -> PodStates]
    /\ told \in [Controllers -> [Pods -> PodStates]]
    /\ notices \in [Controllers -> [Pods -> Seq(PodStates)]]

ThrottleTypes ==
    /\ namespace \in NamespaceLabels
    /\ thr \in [Throttles -> Objects]
    /\ \A t \in Throttles : thr[t].selector \in {InitialSelector[t]} \cup EditedSelectors[t]
    /\ thrNotices \subseteq Throttles
    /\ changes \in 0..MaxChanges
    /\ disturbed \subseteq Controllers \X AllChanges

LedgerTypes ==
    /\ counted \in [Throttles -> SUBSET Pods]
    /\ reserved \in [Throttles -> SUBSET Pods]
    /\ queue \in Queues(Throttles)
    /\ worker \in [Throttles -> Works]
    /\ cycle \in [Pods -> [Incarnations -> Cycles]]

Types == PodTypes /\ ThrottleTypes /\ LedgerTypes

(* An object is edited at most twice for each change that is counted: away *)
(* from what it was and back.                                              *)
Away(object) ==
    (IF object.exists THEN 0 ELSE 1) + (IF object.responsible THEN 0 ELSE 1)
        + (IF IsValid(object.selector) THEN 0 ELSE 1)

EditsCounted == \A t \in Throttles : thr[t].rv + Away(thr[t]) <= 2 * changes

TypeInv == Types /\ EditsCounted

LEMMA KindsAreControllers ==
    ASSUME NEW t \in Throttles
    PROVE  Kind[t] \in Controllers /\ t \in Of(Kind[t])
BY DEF Controllers, Of

LEMMA TypeInvInit == Init => TypeInv
<1> SUFFICES ASSUME Init PROVE TypeInv
  OBVIOUS
<1>1. apiPod \in [Pods -> PodStates]
  BY IncarnationsAssumption, LabelsAssumption DEF Init, PodStates
<1>2. PodTypes
  BY <1>1 DEF Init, PodTypes
<1>3. 0 \in Versions /\ 0 \in 0..MaxChanges
  BY ChangesAssumption DEF Versions
<1>4. thr \in [Throttles -> Objects]
  <2>1. \A t \in Throttles : InitialSelector[t] \in
            UNION {{InitialSelector[u]} \cup EditedSelectors[u] : u \in Throttles}
    OBVIOUS
  <2> QED BY <1>3, <2>1 DEF Init, Objects
<1>5. ThrottleTypes
  BY <1>3, <1>4, LabelsAssumption DEF Init, ThrottleTypes
<1>6. LedgerTypes
  BY <1>3 DEF Init, LedgerTypes, Works, Cycles, NoReconcile, NoCycle, EmptyQueue, Queues
<1>7. \A t \in Throttles : thr[t].rv = 0 /\ Away(thr[t]) = 0
  BY SelectorsAssumption DEF Init, Away
<1>8. EditsCounted
  BY <1>7 DEF Init, EditsCounted
<1> QED BY <1>2, <1>5, <1>6, <1>8 DEF TypeInv, Types

(* What a change of a throttle's object does to its types and its version. *)
LEMMA PutThrottleTypes ==
    ASSUME TypeInv, NEW t \in Throttles, NEW object \in Objects, PutThrottle(t, object),
           object.selector \in {InitialSelector[t]} \cup EditedSelectors[t],
           object.rv = thr[t].rv,
           changes' \in 0..MaxChanges, disturbed' \subseteq Controllers \X AllChanges,
           changes <= changes', 1 + Away(object) + 2 * changes <= Away(thr[t]) + 2 * changes'
    PROVE  ThrottleTypes' /\ EditsCounted'
<1>1. PICK new : new = [object EXCEPT !.rv = @ + 1]
  OBVIOUS
<1>2. /\ new.exists = object.exists /\ new.responsible = object.responsible
      /\ new.selector = object.selector /\ new.rv = thr[t].rv + 1
  BY <1>1 DEF Objects
<1>3. thr' = [thr EXCEPT ![t] = new] /\ UNCHANGED namespace
  BY <1>1 DEF PutThrottle
<1>4. /\ thr \in [Throttles -> Objects] /\ \A u \in Throttles : thr[u].rv \in Nat
      /\ changes \in 0..MaxChanges /\ MaxChanges \in Nat
      /\ \A u \in Throttles : thr[u].rv + Away(thr[u]) <= 2 * changes
  BY ChangesAssumption DEF TypeInv, Types, ThrottleTypes, Objects, Versions, EditsCounted
<1>5. Away(new) = Away(object) /\ \A o : Away(o) \in 0..3
  BY <1>2 DEF Away
<1>6. new.rv + Away(new) <= 2 * changes'
  BY <1>2, <1>4, <1>5
<1>7. new \in Objects
  <2>1. new.rv \in Versions
    BY <1>2, <1>4, <1>5, <1>6 DEF Versions
  <2> QED BY <1>1, <1>2, <2>1 DEF Objects
<1>8. EditsCounted'
  <2> SUFFICES ASSUME NEW u \in Throttles
               PROVE  thr'[u].rv + Away(thr'[u]) <= 2 * changes'
    BY DEF EditsCounted, Away
  <2>1. CASE u = t
    BY <1>3, <1>4, <1>6, <2>1
  <2>2. CASE u # t
    <3>1. thr'[u] = thr[u]
      BY <1>3, <1>4, <2>2
    <3>2. thr[u].rv + Away(thr[u]) <= 2 * changes /\ Away(thr[u]) \in 0..3
      BY <1>4, <1>5
    <3> QED BY <1>4, <3>1, <3>2
  <2> QED BY <2>1, <2>2
<1>9. thr' \in [Throttles -> Objects]
  BY <1>3, <1>4, <1>7
<1>10. \A u \in Throttles : thr'[u].selector \in {InitialSelector[u]} \cup EditedSelectors[u]
  BY <1>2, <1>3, <1>4 DEF TypeInv, Types, ThrottleTypes
<1> QED BY <1>3, <1>8, <1>9, <1>10 DEF ThrottleTypes, PutThrottle, TypeInv, Types

LEMMA ChangeTypes ==
    ASSUME TypeInv, NEW kind, NEW controllers, controllers \subseteq Controllers,
           Change(kind, controllers)
    PROVE  /\ changes' \in 0..MaxChanges /\ changes \in Nat /\ changes' = changes + 1
           /\ disturbed' \subseteq Controllers \X AllChanges
<1>1. /\ changes \in 0..MaxChanges /\ MaxChanges \in Nat /\ Changes \subseteq AllChanges
      /\ disturbed \subseteq Controllers \X AllChanges
  BY ChangesAssumption DEF TypeInv, Types, ThrottleTypes
<1>2. /\ kind \in AllChanges /\ changes < MaxChanges /\ changes' = changes + 1
      /\ disturbed' = disturbed \cup (controllers \X {kind})
  BY <1>1 DEF Change
<1> QED BY <1>1, <1>2

\* The users' edits of a throttle.
EditThrottle(t) == EditSelector(t) \/ EditThrottlerName(t) \/ DeleteThrottle(t) \/ CreateThrottle(t)

LEMMA EditThrottleTypes ==
    ASSUME TypeInv, NEW t \in Throttles, EditThrottle(t)
    PROVE  ThrottleTypes' /\ EditsCounted'
<1>0. /\ thr[t] \in Objects /\ Kind[t] \in Controllers
      /\ thr[t].selector \in {InitialSelector[t]} \cup EditedSelectors[t]
      /\ changes \in 0..MaxChanges /\ MaxChanges \in Nat
      /\ disturbed \subseteq Controllers \X AllChanges
  BY ChangesAssumption, KindsAreControllers DEF TypeInv, Types, ThrottleTypes
<1>1. ASSUME NEW kind, Change(kind, {Kind[t]})
      PROVE  /\ changes' \in 0..MaxChanges /\ changes' = changes + 1
             /\ disturbed' \subseteq Controllers \X AllChanges
  BY <1>0, <1>1, ChangeTypes
<1>2. ASSUME ChangeBack
      PROVE  changes' = changes /\ disturbed' \subseteq Controllers \X AllChanges
  BY <1>0, <1>2 DEF ChangeBack
<1>3. CASE EditSelector(t)
  <2>1. PICK s \in EditedSelectors[t] \ {thr[t].selector} :
          /\ IF ~IsValid(s) THEN Change("breakSelector", {Kind[t]})
             ELSE IF ~IsValid(thr[t].selector) THEN ChangeBack
             ELSE Change("editSelector", {Kind[t]})
          /\ PutThrottle(t, [thr[t] EXCEPT !.selector = s])
    BY <1>3 DEF EditSelector
  <2> DEFINE object == [thr[t] EXCEPT !.selector = s]
  <2>2. /\ object.selector = s /\ object.exists = thr[t].exists
        /\ object.responsible = thr[t].responsible /\ object.rv = thr[t].rv
        /\ object \in Objects
    BY <1>0 DEF Objects
  <2> HIDE DEF object
  <2>3. CASE ~IsValid(s)
    <3>1. Away(object) <= 1 + Away(thr[t]) /\ Away(object) \in Nat /\ Away(thr[t]) \in Nat
      BY <2>2 DEF Away
    <3>2. Change("breakSelector", {Kind[t]})
      BY <2>1, <2>3
    <3>3. 1 + Away(object) + 2 * changes <= Away(thr[t]) + 2 * changes' /\ changes <= changes'
      BY <1>0, <1>1, <3>1, <3>2
    <3> QED BY <1>1, <2>1, <2>2, <3>2, <3>3, PutThrottleTypes DEF object
  <2>4. CASE IsValid(s) /\ ~IsValid(thr[t].selector)
    <3>1. 1 + Away(object) = Away(thr[t]) /\ Away(object) \in Nat
      BY <2>2, <2>4 DEF Away
    <3>2. ChangeBack
      BY <2>1, <2>4
    <3>3. 1 + Away(object) + 2 * changes <= Away(thr[t]) + 2 * changes' /\ changes <= changes'
      BY <1>0, <1>2, <3>1, <3>2
    <3> QED BY <1>0, <1>2, <2>1, <2>2, <3>2, <3>3, PutThrottleTypes DEF object
  <2>5. CASE IsValid(s) /\ IsValid(thr[t].selector)
    <3>1. Away(object) = Away(thr[t]) /\ Away(object) \in Nat
      BY <2>2, <2>5 DEF Away
    <3>2. Change("editSelector", {Kind[t]})
      BY <2>1, <2>5
    <3>3. 1 + Away(object) + 2 * changes <= Away(thr[t]) + 2 * changes' /\ changes <= changes'
      BY <1>0, <1>1, <3>1, <3>2
    <3> QED BY <1>1, <2>1, <2>2, <3>2, <3>3, PutThrottleTypes DEF object
  <2> QED BY <2>3, <2>4, <2>5
<1>4. CASE EditThrottlerName(t)
  <2> DEFINE object == [thr[t] EXCEPT !.responsible = ~@]
  <2>1. /\ IF thr[t].responsible THEN Change("editThrottlerName", {Kind[t]}) ELSE ChangeBack
        /\ PutThrottle(t, object)
    BY <1>4 DEF EditThrottlerName
  <2>2. /\ object.selector = thr[t].selector /\ object.exists = thr[t].exists
        /\ object.responsible = ~thr[t].responsible /\ object.rv = thr[t].rv
        /\ object \in Objects /\ thr[t].responsible \in BOOLEAN
    BY <1>0 DEF Objects
  <2> HIDE DEF object
  <2>3. /\ Away(object) \in Nat /\ Away(thr[t]) \in Nat
        /\ IF thr[t].responsible THEN Away(object) = 1 + Away(thr[t])
                                 ELSE 1 + Away(object) = Away(thr[t])
    <3>1. CASE thr[t].responsible
      <4>1. object.responsible = FALSE
        BY <2>2, <3>1
      <4> QED BY <2>2, <3>1, <4>1 DEF Away
    <3>2. CASE ~thr[t].responsible
      <4>1. object.responsible = TRUE
        BY <2>2, <3>2
      <4> QED BY <2>2, <3>2, <4>1 DEF Away
    <3> QED BY <3>1, <3>2
  <2>4. /\ 1 + Away(object) + 2 * changes <= Away(thr[t]) + 2 * changes' /\ changes <= changes'
        /\ changes' \in 0..MaxChanges /\ disturbed' \subseteq Controllers \X AllChanges
    BY <1>0, <1>1, <1>2, <2>1, <2>3
  <2> QED BY <1>0, <2>1, <2>2, <2>4, PutThrottleTypes
<1>5. CASE DeleteThrottle(t)
  <2> DEFINE object == [thr[t] EXCEPT !.exists = FALSE]
  <2>1. thr[t].exists /\ Change("deleteThrottle", {Kind[t]}) /\ PutThrottle(t, object)
    BY <1>5 DEF DeleteThrottle
  <2>2. /\ object.selector = thr[t].selector /\ object.exists = FALSE
        /\ object.responsible = thr[t].responsible /\ object.rv = thr[t].rv
        /\ object \in Objects
    BY <1>0 DEF Objects
  <2> HIDE DEF object
  <2>3. /\ Away(object) \in Nat /\ Away(thr[t]) \in Nat /\ Away(object) = 1 + Away(thr[t])
    BY <2>1, <2>2 DEF Away
  <2>4. 1 + Away(object) + 2 * changes <= Away(thr[t]) + 2 * changes' /\ changes <= changes'
    BY <1>0, <1>1, <2>1, <2>3
  <2> QED BY <1>0, <1>1, <2>1, <2>2, <2>4, PutThrottleTypes
<1>6. CASE CreateThrottle(t)
  <2> DEFINE object == [thr[t] EXCEPT !.exists = TRUE]
  <2>1. ~thr[t].exists /\ ChangeBack /\ PutThrottle(t, object)
    BY <1>6 DEF CreateThrottle
  <2>2. /\ object.selector = thr[t].selector /\ object.exists = TRUE
        /\ object.responsible = thr[t].responsible /\ object.rv = thr[t].rv
        /\ object \in Objects
    BY <1>0 DEF Objects
  <2> HIDE DEF object
  <2>3. Away(object) \in Nat /\ 1 + Away(object) = Away(thr[t])
    BY <2>1, <2>2 DEF Away
  <2>4. 1 + Away(object) + 2 * changes <= Away(thr[t]) + 2 * changes' /\ changes <= changes'
    BY <1>0, <1>2, <2>1, <2>3
  <2> QED BY <1>0, <1>2, <2>1, <2>2, <2>4, PutThrottleTypes
<1> QED BY <1>3, <1>4, <1>5, <1>6 DEF EditThrottle

(* What the handlers were told and will be told are states of pods.        *)
LEMMA ToldTypes ==
    ASSUME TypeInv, NEW c \in Controllers, NEW p \in Pods, Told(c, p)
    PROVE  /\ PodTypes' /\ Head(notices[c][p]) \in PodStates
           /\ notices[c][p] \in Seq(PodStates) /\ notices[c][p] # <<>>
           /\ told'[c][p] = Head(notices[c][p]) /\ notices'[c][p] = Tail(notices[c][p])
           /\ \A d \in Controllers, q \in Pods : d # c \/ q # p =>
                told'[d][q] = told[d][q] /\ notices'[d][q] = notices[d][q]
<1>1. /\ notices \in [Controllers -> [Pods -> Seq(PodStates)]]
      /\ told \in [Controllers -> [Pods -> PodStates]]
      /\ apiPod \in [Pods -> PodStates] /\ podLister \in [Pods -> PodStates]
  BY DEF TypeInv, Types, PodTypes
<1>2. /\ notices[c][p] # <<>> /\ UNCHANGED <<apiPod, podLister>>
      /\ told' = [told EXCEPT ![c][p] = Head(notices[c][p])]
      /\ notices' = [notices EXCEPT ![c][p] = Tail(notices[c][p])]
  BY DEF Told
<1>3. notices[c][p] \in Seq(PodStates)
  BY <1>1
<1>4. Head(notices[c][p]) \in PodStates /\ Tail(notices[c][p]) \in Seq(PodStates)
  BY <1>2, <1>3, HeadTailProperties
<1>5. told' \in [Controllers -> [Pods -> PodStates]]
  BY <1>1, <1>2, <1>4
<1>6. notices' \in [Controllers -> [Pods -> Seq(PodStates)]]
  BY <1>1, <1>2, <1>4
<1>7. told'[c][p] = Head(notices[c][p]) /\ notices'[c][p] = Tail(notices[c][p])
  BY <1>1, <1>2
<1>8. \A d \in Controllers, q \in Pods : d # c \/ q # p =>
        told'[d][q] = told[d][q] /\ notices'[d][q] = notices[d][q]
  BY <1>1, <1>2
<1> QED BY <1>1, <1>2, <1>3, <1>4, <1>5, <1>6, <1>7, <1>8 DEF PodTypes

LEMMA CycleTypes ==
    ASSUME TypeInv, NEW p \in Pods, NEW i \in Incarnations, NEW state \in Cycles,
           Cycle(p, i, state)
    PROVE  cycle' \in [Pods -> [Incarnations -> Cycles]]
BY DEF TypeInv, Types, LedgerTypes, Cycle

(* The operations of the work queue keep it a queue of keys.               *)
LEMMA QueueOperations ==
    ASSUME NEW Keys, NEW q \in Queues(Keys), NEW k \in Keys
    PROVE  /\ Enqueue(q, k) \in Queues(Keys) /\ Take(q, k) \in Queues(Keys)
           /\ Done(q, k) \in Queues(Keys) /\ AddRateLimited(q, k) \in Queues(Keys)
           /\ Expire(q, k) \in Queues(Keys)
<1>1. Enqueue(q, k) \in Queues(Keys)
  BY DEF Enqueue, Queues
<1>2. Take(q, k) \in Queues(Keys)
  BY DEF Take, Queues
<1>3. Done(q, k) \in Queues(Keys)
  BY DEF Done, Queues
<1>4. AddRateLimited(q, k) \in Queues(Keys)
  BY DEF AddRateLimited, Queues
<1>5. Expire(q, k) \in Queues(Keys)
  BY DEF Expire, Queues
<1> QED BY <1>1, <1>2, <1>3, <1>4, <1>5

LEMMA TypeInvStep == TypeInv /\ [Next]_vars => TypeInv'
<1> SUFFICES ASSUME TypeInv, [Next]_vars PROVE TypeInv'
  OBVIOUS
<1>0. PodTypes /\ ThrottleTypes /\ LedgerTypes /\ EditsCounted
  BY DEF TypeInv, Types
<1>1. ASSUME UNCHANGED <<thrVars, changes, disturbed>>, PodTypes', LedgerTypes'
      PROVE  TypeInv'
  BY <1>0, <1>1 DEF TypeInv, Types, ThrottleTypes, EditsCounted, Away, thrVars
<1>2. ASSUME UNCHANGED <<podVars, thrVars, changes, disturbed>>, LedgerTypes'
      PROVE  TypeInv'
  BY <1>0, <1>1, <1>2 DEF PodTypes, podVars
<1>3. ASSUME UNCHANGED <<counted, reserved, queue, worker, cycle>> PROVE LedgerTypes'
  BY <1>0, <1>3 DEF LedgerTypes
<1>4. NoCycle \in Cycles
  BY DEF NoCycle, Cycles
<1>5. ASSUME UNCHANGED <<counted, queue, worker>>, reserved' \in [Throttles -> SUBSET Pods],
             NEW p \in Pods, NEW i \in Incarnations, NEW state \in Cycles, Cycle(p, i, state)
      PROVE  LedgerTypes'
  BY <1>0, <1>5, CycleTypes DEF LedgerTypes
<1>6. ASSUME NEW p \in Pods, NEW throttles
      PROVE  /\ AddPod(p, throttles) \in [Throttles -> SUBSET Pods]
             /\ RemovePod(p, throttles) \in [Throttles -> SUBSET Pods]
  BY <1>0 DEF AddPod, RemovePod, LedgerTypes
<1>7. \A p \in Pods, i \in Incarnations :
        cycle[p][i] \in Cycles /\ cycle[p][i].labels \in PodLabels \cup {"none"}
  BY <1>0 DEF LedgerTypes, Cycles
<1>8. ASSUME NEW p \in Pods, PreFilter(p) PROVE TypeInv'
  <2>1. apiPod[p].labels \in PodLabels /\ apiPod[p].uid \in Incarnations
    BY <1>0 DEF PodTypes, PodStates
  <2>2. [pc |-> "checked", labels |-> apiPod[p].labels] \in Cycles
    BY <2>1 DEF Cycles
  <2>3. Cycle(p, apiPod[p].uid, [pc |-> "checked", labels |-> apiPod[p].labels])
    BY <1>8 DEF PreFilter
  <2>4. reserved' \in [Throttles -> SUBSET Pods]
    BY <1>0, <1>8 DEF PreFilter, LedgerTypes
  <2> QED BY <1>2, <1>5, <1>8, <2>1, <2>2, <2>3, <2>4 DEF PreFilter
<1>9. ASSUME NEW p \in Pods, NEW i \in Incarnations, Abandon(p, i) PROVE TypeInv'
  <2>1. reserved' \in [Throttles -> SUBSET Pods]
    BY <1>0, <1>9 DEF Abandon, LedgerTypes
  <2> QED BY <1>2, <1>4, <1>5, <1>9, <2>1 DEF Abandon
<1>10. ASSUME NEW p \in Pods, NEW i \in Incarnations, Reserve(p, i) PROVE TypeInv'
  <2>1. PICK pc \in {"reserved", "failed"} : Cycle(p, i, [cycle[p][i] EXCEPT !.pc = pc])
    BY <1>10 DEF Reserve
  <2>2. [cycle[p][i] EXCEPT !.pc = pc] \in Cycles
    BY <1>7 DEF Cycles
  <2>3. reserved' \in [Throttles -> SUBSET Pods]
    BY <1>6, <1>10 DEF Reserve
  <2> QED BY <1>2, <1>5, <1>10, <2>1, <2>2, <2>3 DEF Reserve
<1>11. ASSUME NEW p \in Pods, NEW i \in Incarnations, Unreserve(p, i) PROVE TypeInv'
  <2>1. reserved' \in [Throttles -> SUBSET Pods]
    BY <1>6, <1>11 DEF Unreserve
  <2> QED BY <1>2, <1>4, <1>5, <1>11, <2>1 DEF Unreserve
<1>12. ASSUME NEW p \in Pods, NEW i \in Incarnations, BindSucceeds(p, i) PROVE TypeInv'
  <2>1. [apiPod[p] EXCEPT !.stage = "bound"] \in PodStates
    BY <1>0 DEF PodTypes, PodStates
  <2>2. apiPod' \in [Pods -> PodStates]
    BY <1>0, <1>12, <2>1 DEF BindSucceeds, PodTypes
  <2>3. PodTypes'
    BY <1>0, <1>12, <2>2 DEF BindSucceeds, PodTypes
  <2>4. LedgerTypes'
    <3>1. reserved' \in [Throttles -> SUBSET Pods]
      BY <1>0, <1>12 DEF BindSucceeds, LedgerTypes
    <3> QED BY <1>4, <1>5, <1>12, <3>1 DEF BindSucceeds
  <2> QED BY <1>1, <1>12, <2>3, <2>4 DEF BindSucceeds
<1>13. ASSUME NEW p \in Pods, DeliverPod(p) PROVE TypeInv'
  <2>1. PICK next \in {[apiPod[p] EXCEPT !.deleted = FALSE], apiPod[p]} :
          /\ podLister' = [podLister EXCEPT ![p] = next]
          /\ notices' = [c \in Controllers |-> [notices[c] EXCEPT ![p] = Append(@, next)]]
    BY <1>13 DEF DeliverPod
  <2>2. next \in PodStates
    BY <1>0 DEF PodTypes, PodStates
  <2>3. \A c \in Controllers : Append(notices[c][p], next) \in Seq(PodStates)
    BY <1>0, <2>2 DEF PodTypes
  <2>4. notices' \in [Controllers -> [Pods -> Seq(PodStates)]]
    BY <1>0, <2>1, <2>3 DEF PodTypes
  <2>5. podLister' \in [Pods -> PodStates]
    BY <1>0, <2>1, <2>2 DEF PodTypes
  <2>6. UNCHANGED <<apiPod, told>>
    BY <1>13 DEF DeliverPod
  <2>7. PodTypes'
    BY <1>0, <2>4, <2>5, <2>6 DEF PodTypes
  <2> QED BY <1>1, <1>3, <1>13, <2>7 DEF DeliverPod
<1>14. ASSUME UNCHANGED <<counted, worker, cycle>>, reserved' \in [Throttles -> SUBSET Pods],
              queue' = queue \/ \E throttles \in SUBSET Throttles : queue' = EnqueueAll(throttles)
       PROVE  LedgerTypes'
  <2>1. queue' \in Queues(Throttles)
    BY <1>0, <1>14 DEF LedgerTypes, Queues, EnqueueAll
  <2> QED BY <1>0, <1>14, <2>1 DEF LedgerTypes
<1>15. \A c, labels : AffectedThrottles(c, labels) \in SUBSET Throttles
  BY DEF AffectedThrottles, Responsible, Of
<1>16. ASSUME NEW p \in Pods, NEW c \in Controllers, HandlePod(c, p) PROVE TypeInv'
  <2>1. Told(c, p)
    BY <1>16 DEF HandlePod, HandlePodAdded, HandlePodUpdated, HandlePodDeleted
  <2>2. PodTypes'
    BY <2>1, ToldTypes
  <2>3. reserved \in [Throttles -> SUBSET Pods]
    BY <1>0 DEF LedgerTypes
  <2>4. CASE HandlePodAdded(c, p)
    <3>1. LedgerTypes'
      BY <1>14, <1>15, <2>1, <2>3, <2>4 DEF HandlePodAdded, Told
    <3> QED BY <1>1, <2>1, <2>2, <3>1 DEF Told
  <2>5. CASE HandlePodUpdated(c, p)
    <3>1. reserved' \in [Throttles -> SUBSET Pods]
      BY <2>3, <2>5 DEF HandlePodUpdated
    <3>2. \A old, new : AffectedThrottles(c, old) \cup AffectedThrottles(c, new) \in SUBSET Throttles
      BY <1>15
    <3>3. queue' = queue \/ \E throttles \in SUBSET Throttles : queue' = EnqueueAll(throttles)
      BY <2>5, <3>2 DEF HandlePodUpdated
    <3>4. LedgerTypes'
      BY <1>14, <2>1, <3>1, <3>3 DEF Told
    <3> QED BY <1>1, <2>1, <2>2, <3>4 DEF Told
  <2>6. CASE HandlePodDeleted(c, p)
    <3>1. reserved' \in [Throttles -> SUBSET Pods]
      BY <1>6, <2>3, <2>6 DEF HandlePodDeleted
    <3>2. queue' = queue \/ \E throttles \in SUBSET Throttles : queue' = EnqueueAll(throttles)
      BY <1>15, <2>6 DEF HandlePodDeleted
    <3>3. LedgerTypes'
      BY <1>14, <2>1, <3>1, <3>2 DEF Told
    <3> QED BY <1>1, <2>1, <2>2, <3>3 DEF Told
  <2> QED BY <1>16, <2>4, <2>5, <2>6 DEF HandlePod
<1>17. ASSUME NEW t \in Throttles, HandleThrottle(t) PROVE TypeInv'
  <2>1. LedgerTypes'
    <3>1. Enqueue(queue, t) \in Queues(Throttles)
      BY <1>0, QueueOperations DEF LedgerTypes
    <3> QED BY <1>0, <1>17, <3>1 DEF HandleThrottle, LedgerTypes
  <2>2. PodTypes'
    BY <1>0, <1>17 DEF HandleThrottle, PodTypes, podVars
  <2>3. ThrottleTypes' /\ EditsCounted'
    BY <1>0, <1>17 DEF HandleThrottle, ThrottleTypes, EditsCounted, Away
  <2> QED BY <2>1, <2>2, <2>3 DEF TypeInv, Types
<1>18. ASSUME NEW t \in Throttles, Resync(t) \/ RetryExpires(t) PROVE TypeInv'
  <2>1. Enqueue(queue, t) \in Queues(Throttles) /\ Expire(queue, t) \in Queues(Throttles)
    BY <1>0, QueueOperations DEF LedgerTypes
  <2>2. LedgerTypes'
    BY <1>0, <1>18, <2>1 DEF Resync, RetryExpires, LedgerTypes
  <2> QED BY <1>2, <1>18, <2>2 DEF Resync, RetryExpires
<1>19. ASSUME NEW t \in Throttles, StartReconcile(t) PROVE TypeInv'
  <2>1. queue' \in Queues(Throttles)
    <3>1. Take(queue, t) \in Queues(Throttles)
      BY <1>0, QueueOperations DEF LedgerTypes
    <3>2. Done(Take(queue, t), t) \in Queues(Throttles)
      BY <3>1, QueueOperations
    <3>3. AddRateLimited(Done(Take(queue, t), t), t) \in Queues(Throttles)
      BY <3>2, QueueOperations
    <3> QED BY <1>19, <3>1, <3>2, <3>3 DEF StartReconcile
  <2>2. \A s : Counts(t, s) \subseteq Pods /\ \A e \in Terminated(t) : e \subseteq Pods
    BY DEF Counts, Countable, Terminated
  <2>3. worker' \in [Throttles -> Works]
    <3>1. thr[t].rv \in Versions /\ worker \in [Throttles -> Works]
      BY <1>0 DEF ThrottleTypes, LedgerTypes, Objects
    <3>2. \A terminated \in Terminated(t) :
            [busy |-> TRUE, rv |-> thr[t].rv, live |-> Counts(t, "bound"),
             terminated |-> terminated] \in Works
      BY <2>2, <3>1 DEF Works
    <3> QED BY <1>19, <3>1, <3>2 DEF StartReconcile
  <2>4. LedgerTypes'
    BY <1>0, <1>19, <2>1, <2>3 DEF LedgerTypes, StartReconcile
  <2> QED BY <1>2, <1>19, <2>4 DEF StartReconcile
<1>20. ASSUME NEW t \in Throttles, FinishReconcile(t) PROVE TypeInv'
  <2>1. queue' \in Queues(Throttles)
    <3>1. Done(queue, t) \in Queues(Throttles) /\ AddRateLimited(queue, t) \in Queues(Throttles)
      BY <1>0, QueueOperations DEF LedgerTypes
    <3>2. Done(AddRateLimited(queue, t), t) \in Queues(Throttles)
      BY <3>1, QueueOperations
    <3> QED BY <1>20, <3>1, <3>2 DEF FinishReconcile, Retry
  <2>2. worker' \in [Throttles -> Works]
    <3>1. NoReconcile \in Works
      BY ChangesAssumption DEF NoReconcile, Works, Versions
    <3> QED BY <1>0, <1>20, <3>1 DEF FinishReconcile, LedgerTypes
  <2>3. /\ counted' \in [Throttles -> SUBSET Pods] /\ reserved' \in [Throttles -> SUBSET Pods]
    <3>1. worker[t].live \subseteq Pods
      BY <1>0 DEF LedgerTypes, Works
    <3> QED BY <1>0, <1>20, <3>1 DEF FinishReconcile, LedgerTypes
  <2>4. LedgerTypes'
    BY <1>0, <1>20, <2>1, <2>2, <2>3 DEF LedgerTypes, FinishReconcile
  <2> QED BY <1>2, <1>20, <2>4 DEF FinishReconcile
<1>21. ASSUME NEW p \in Pods, NEW state \in PodStates, apiPod' = [apiPod EXCEPT ![p] = state],
              UNCHANGED <<podLister, told, notices>>
       PROVE  PodTypes'
  BY <1>0, <1>21 DEF PodTypes
<1>22. ASSUME NEW p \in Pods, PodFinishes(p) \/ PodDeleted(p) PROVE TypeInv'
  <2>1. PICK state \in PodStates : apiPod' = [apiPod EXCEPT ![p] = state]
    <3>1. /\ [apiPod[p] EXCEPT !.stage = "finished"] \in PodStates
          /\ [apiPod[p] EXCEPT !.deleted = TRUE] \in PodStates
      BY <1>0 DEF PodTypes, PodStates
    <3> QED BY <1>22, <3>1 DEF PodFinishes, PodDeleted
  <2> QED BY <1>1, <1>3, <1>21, <1>22, <2>1 DEF PodFinishes, PodDeleted
<1>23. ASSUME UNCHANGED thrVars, changes' \in 0..MaxChanges, changes' >= changes,
              disturbed' \subseteq Controllers \X AllChanges, PodTypes', LedgerTypes'
       PROVE  TypeInv'
  <2>1. ThrottleTypes'
    BY <1>0, <1>23 DEF ThrottleTypes, thrVars
  <2>2. EditsCounted'
    <3>1. \A t \in Throttles : thr[t].rv \in Nat /\ Away(thr[t]) \in Nat
      BY <1>0, ChangesAssumption DEF ThrottleTypes, Objects, Versions, Away
    <3>2. changes \in Nat /\ changes' \in Nat /\ thr' = thr
      BY <1>0, <1>23, ChangesAssumption DEF ThrottleTypes, thrVars
    <3>3. ASSUME NEW t \in Throttles PROVE thr[t].rv + Away(thr[t]) <= 2 * changes'
      BY <1>0, <1>23, <3>1, <3>2 DEF EditsCounted
    <3> QED BY <3>2, <3>3 DEF EditsCounted, Away
  <2> QED BY <1>23, <2>1, <2>2 DEF TypeInv, Types
<1>24. ASSUME NEW p \in Pods, Relabel(p) PROVE TypeInv'
  <2>1. PICK l \in PodLabels : apiPod' = [apiPod EXCEPT ![p].labels = l]
    BY <1>24 DEF Relabel
  <2>2. [apiPod[p] EXCEPT !.labels = l] \in PodStates
    BY <1>0 DEF PodTypes, PodStates
  <2>3. PodTypes'
    BY <1>21, <1>24, <2>1, <2>2 DEF Relabel
  <2>4. \E kind : \E controllers \in SUBSET Controllers : Change(kind, controllers)
    BY <1>24 DEF Relabel
  <2>5. /\ changes' \in 0..MaxChanges /\ changes' >= changes
        /\ disturbed' \subseteq Controllers \X AllChanges
    BY <2>4, ChangeTypes
  <2> QED BY <1>3, <1>23, <1>24, <2>3, <2>5 DEF Relabel
<1>25. ASSUME NEW p \in Pods, RecreatePod(p) PROVE TypeInv'
  <2>1. /\ apiPod' = [apiPod EXCEPT ![p] = [[[apiPod[p] EXCEPT !.stage = "pending"]
                        EXCEPT !.deleted = FALSE] EXCEPT !.uid = apiPod[p].uid + 1]]
        /\ apiPod[p].uid + 1 \in Incarnations
    BY <1>0, <1>25 DEF RecreatePod, PodTypes, PodStates
  <2>2. [[[apiPod[p] EXCEPT !.stage = "pending"]
            EXCEPT !.deleted = FALSE] EXCEPT !.uid = apiPod[p].uid + 1] \in PodStates
    BY <1>0, <2>1 DEF PodTypes, PodStates
  <2>3. PodTypes'
    BY <1>21, <1>25, <2>1, <2>2 DEF RecreatePod
  <2>4. /\ changes' \in 0..MaxChanges /\ changes' >= changes
        /\ disturbed' \subseteq Controllers \X AllChanges
    BY <1>25, ChangesAssumption DEF RecreatePod, AllChanges
  <2> QED BY <1>3, <1>23, <1>25, <2>3, <2>4 DEF RecreatePod
<1>26. CASE RelabelNamespace
  <2>1. PodTypes' /\ LedgerTypes'
    BY <1>0, <1>3, <1>26 DEF RelabelNamespace, PodTypes, podVars
  <2>2. /\ changes' \in 0..MaxChanges /\ changes' = changes + 1 /\ changes \in Nat
        /\ disturbed' \subseteq Controllers \X AllChanges
    BY <1>26, ChangeTypes DEF RelabelNamespace
  <2>3. ThrottleTypes'
    BY <1>0, <1>26, <2>2 DEF RelabelNamespace, ThrottleTypes
  <2>4. EditsCounted'
    <3>1. \A t \in Throttles : thr[t].rv \in Nat /\ Away(thr[t]) \in Nat
      BY <1>0, ChangesAssumption DEF ThrottleTypes, Objects, Versions, Away
    <3>2. thr' = thr
      BY <1>26 DEF RelabelNamespace
    <3>3. ASSUME NEW t \in Throttles PROVE thr[t].rv + Away(thr[t]) <= 2 * changes'
      BY <1>0, <2>2, <3>1 DEF EditsCounted
    <3> QED BY <3>2, <3>3 DEF EditsCounted, Away
  <2> QED BY <2>1, <2>3, <2>4 DEF TypeInv, Types
<1>27. ASSUME NEW t \in Throttles, EditThrottle(t) PROVE TypeInv'
  <2>1. /\ UNCHANGED <<podVars, queue, worker, reserved, cycle>>
        /\ counted' = counted \/ counted' = [counted EXCEPT ![t] = {}]
    BY <1>27 DEF EditThrottle, EditSelector, EditThrottlerName, DeleteThrottle, CreateThrottle,
                 PutThrottle
  <2>2. PodTypes' /\ LedgerTypes'
    BY <1>0, <2>1 DEF PodTypes, LedgerTypes, podVars
  <2> QED BY <1>27, <2>2, EditThrottleTypes DEF TypeInv, Types
<1>28. CASE UNCHANGED vars
  BY <1>2, <1>3, <1>28 DEF vars
<1>29. CASE Schedule
  BY <1>8, <1>9, <1>10, <1>11, <1>12, <1>29 DEF Schedule
<1>30. CASE Environment
  BY <1>22, <1>24, <1>25, <1>26, <1>27, <1>30 DEF Environment, EditThrottle
<1> QED BY <1>13, <1>16, <1>17, <1>18, <1>19, <1>20, <1>28, <1>29, <1>30 DEF Next, Reconcile

LEMMA TypeInvAlways == Spec => []TypeInv
BY TypeInvInit, TypeInvStep, PTL DEF Spec

(* The model is typed, and the edits of an object stay within the bound.   *)
THEOREM AssignmentTypeCorrect == Spec => []TypeOK
<1>1. ASSUME TypeInv PROVE TypeOK
  <2>1. /\ apiPod \in [Pods -> PodStates] /\ podLister \in [Pods -> PodStates]
        /\ told \in [Controllers -> [Pods -> PodStates]]
        /\ notices \in [Controllers -> [Pods -> Seq(PodStates)]]
    BY <1>1 DEF TypeInv, Types, PodTypes
  <2>2. \A c \in Controllers, p \in Pods : Range(notices[c][p]) \subseteq PodStates
    <3> SUFFICES ASSUME NEW c \in Controllers, NEW p \in Pods
                 PROVE  Range(notices[c][p]) \subseteq PodStates
      OBVIOUS
    <3>1. notices[c][p] \in Seq(PodStates)
      BY <2>1
    <3> QED BY <3>1 DEF Range
  <2>3. ThrottleTypes /\ LedgerTypes
    BY <1>1 DEF TypeInv, Types
  <2>4. ASSUME NEW t \in Throttles
        PROVE  /\ thr[t].exists \in BOOLEAN /\ thr[t].responsible \in BOOLEAN
               /\ thr[t].rv \in 0..(2 * MaxChanges)
               /\ thr[t].selector \in {InitialSelector[t]} \cup EditedSelectors[t]
               /\ worker[t] \in [busy : BOOLEAN, rv : 0..(2 * MaxChanges),
                                 live : SUBSET Pods, terminated : SUBSET Pods]
    BY <2>3 DEF ThrottleTypes, LedgerTypes, Objects, Works, Versions
  <2>5. /\ namespace \in NamespaceLabels /\ thrNotices \subseteq Throttles
        /\ counted \in [Throttles -> SUBSET Pods] /\ queue \in Queues(Throttles)
        /\ reserved \in [Throttles -> SUBSET Pods]
        /\ cycle \in [Pods -> [Incarnations -> Cycles]]
        /\ changes \in 0..MaxChanges /\ disturbed \subseteq Controllers \X AllChanges
    BY <2>3 DEF ThrottleTypes, LedgerTypes
  <2> QED BY <2>1, <2>2, <2>4, <2>5 DEF TypeOK, Cycles
<1> QED BY <1>1, TypeInvAlways, PTL

-----------------------------------------------------------------------------
(* Which throttles a pod concerns as long as a controller is undisturbed.  *)

(* Valid selectors answer yes or no.                                       *)
LEMMA ValidAnswers ==
    ASSUME NEW s \in TermSequences, IsValid(s), NEW labels, NEW ns
    PROVE  /\ MatchesToPod(s, labels) \in {"yes", "no"}
           /\ ClusterMatchesToPod(s, labels, ns) \in {"yes", "no"}
<1> DEFINE n == Len(s)
           pods == [i \in DOMAIN s |-> TermMatchesToPod(s[i], labels)]
           both == [i \in DOMAIN s |-> ClusterTermMatchesToPod(s[i], labels, ns)]
<1>1. n \in Nat /\ DOMAIN s = 1..n
  BY DEF TermSequences
<1>2. \A i \in 1..n : s[i].pods.valid
  BY <1>1 DEF IsValid
<1>3. pods \in [1..n -> {"yes", "no"}] /\ both \in [1..n -> {"yes", "no"}]
  BY <1>1, <1>2 DEF TermMatchesToPod, ClusterTermMatchesToPod, Matches
<1>4. ASSUME NEW answers \in [1..n -> {"yes", "no"}] PROVE Ored(answers) \in {"yes", "no"}
  <2> HIDE DEF n
  <2>1. answers \in [1..n -> Answers]
    BY <1>4 DEF Answers
  <2>2. \/ Ored(answers) = "no"
        \/ \E i \in 1..n : Ored(answers) = answers[i]
    BY <1>1, <2>1, OredDecides
  <2> QED BY <1>4, <2>2
<1>5. Ored(pods) \in {"yes", "no"} /\ Ored(both) \in {"yes", "no"}
  <2> HIDE DEF pods, both, n
  <2> QED BY <1>3, <1>4
<1> QED BY <1>5 DEF MatchesToPod, ClusterMatchesToPod

LEMMA FirstAnswers ==
    ASSUME NEW t \in Throttles, NEW labels
    PROVE  FirstAnswer(t, labels) \in {"yes", "no"}
BY SelectorsAssumption, ValidAnswers DEF FirstAnswer

LEMMA AnswersAsAtFirst ==
    ASSUME NEW c \in Controllers, AsAtFirst(c), NEW labels
    PROVE  /\ \A t \in Of(c) : Answer(t, labels) = FirstAnswer(t, labels)
           /\ ~AffectedFails(c, labels)
           /\ AffectedThrottles(c, labels) = {t \in Of(c) : Selects(t, labels)}
<1>1. ASSUME NEW t \in Of(c) PROVE Answer(t, labels) = FirstAnswer(t, labels)
  <2>1. t \in Throttles /\ Kind[t] = c /\ thr[t].selector = InitialSelector[t]
    BY <1>1 DEF Of, AsAtFirst
  <2> QED BY <2>1 DEF Answer, FirstAnswer, AsAtFirst
<1>2. Responsible(c) = Of(c)
  BY DEF Responsible, AsAtFirst
<1>3. \A t \in Of(c) : FirstAnswer(t, labels) \in {"yes", "no"}
  BY FirstAnswers DEF Of
<1> QED BY <1>1, <1>2, <1>3 DEF AffectedFails, AffectedThrottles, Selects

(* A reconcile lists the pods the selector says yes to.                    *)
LEMMA CountsSelected ==
    ASSUME NEW c \in Controllers, AsAtFirst(c), NEW t \in Of(c), NEW p \in Pods,
           ShouldCountIn(podLister[p]), ~podLister[p].deleted,
           Selects(t, podLister[p].labels)
    PROVE  p \in Counts(t, podLister[p].stage)
<1>1. Answer(t, podLister[p].labels) = "yes"
  BY AnswersAsAtFirst DEF Selects
<1>2. ASSUME Kind[t] = "ClusterThrottle"
      PROVE  ClusterMatchesToNamespace(thr[t].selector, namespace) = "yes"
  <2>1. ClusterMatchesToPod(thr[t].selector, podLister[p].labels, namespace) # "no"
    BY <1>1, <1>2 DEF Answer
  <2>2. thr[t].selector = InitialSelector[t] /\ t \in Throttles
    BY DEF AsAtFirst, Of
  <2>3. thr[t].selector \in TermSequences
    BY <2>2, SelectorsAssumption
  <2> QED BY <2>1, <2>3, NamespacesFirstLosesNothing DEF TermSequences
<1> QED BY <1>1, <1>2 DEF Counts, Countable

\* What AssignmentInv says of a controller.
Follows(c) ==
    /\ AsAtFirst(c) /\ PodsFollow(c) /\ CyclesFollow /\ ListsFollow(c)
    /\ KeptAccounted(c) /\ DrainsFollow(c)

LEMMA AssignmentInvIs == AssignmentInv <=> \A c \in Controllers : Undisturbed(c) => Follows(c)
BY DEF AssignmentInv, Follows

LEMMA AssignmentInvInit == Init => AssignmentInv
<1> SUFFICES ASSUME Init, NEW c \in Controllers PROVE Follows(c)
  BY AssignmentInvIs
<1>1. AsAtFirst(c)
  BY DEF Init, AsAtFirst, Of, NoReconcile
<1>2. PodsFollow(c)
  BY DEF Init, PodsFollow, PodFollows, Seen
<1>3. CyclesFollow
  BY DEF Init, CyclesFollow, NoCycle
<1>4. ListsFollow(c)
  BY DEF Init, ListsFollow, NoReconcile, Of
<1>5. \A p \in Pods : ~Holds(p)
  BY IncarnationsAssumption DEF Init, Holds, IsLive, NoCycle
<1>6. DrainsFollow(c)
  BY DEF Init, DrainsFollow, Of
<1> QED BY <1>1, <1>2, <1>3, <1>4, <1>5, <1>6 DEF Follows, KeptAccounted

-----------------------------------------------------------------------------
(* The steps, as a controller that stays undisturbed meets them.           *)

\* Nothing that AssignmentInv says of c changes.
Elsewhere(c) ==
    /\ UNCHANGED <<podVars, worker, reserved, cycle>>
    /\ \A t \in Of(c) : thr'[t] = thr[t] /\ counted'[t] = counted[t]
    /\ c = "ClusterThrottle" => namespace' = namespace
    /\ ToBegin \subseteq ToBegin'

\* What happens to a pod in the cluster: it finishes, is deleted or, bound, gets other labels.
PodChanges(p) == PodFinishes(p) \/ PodDeleted(p) \/ (Relabel(p) /\ apiPod[p].stage # "pending")

(* An edit disturbs its controller: only what was disturbed is edited back.*)
LEMMA EditsDisturb ==
    ASSUME TypeInv, NEW c \in Controllers, AsAtFirst(c), Undisturbed(c)',
           NEW t \in Throttles, EditThrottle(t)
    PROVE  Elsewhere(c)
<1>1. ASSUME NEW kind, Change(kind, {Kind[t]}) PROVE t \notin Of(c)
  <2>1. <<Kind[t], kind>> \in disturbed'
    BY <1>1 DEF Change
  <2> QED BY <2>1 DEF Undisturbed, Of
<1>2. t \notin Of(c)
  <2> SUFFICES ASSUME t \in Of(c) PROVE FALSE
    OBVIOUS
  <2>1. thr[t].exists /\ thr[t].responsible /\ IsValid(thr[t].selector)
    BY SelectorsAssumption DEF AsAtFirst
  <2>2. CASE EditSelector(t)
    <3>1. \E kind : Change(kind, {Kind[t]})
      BY <2>1, <2>2 DEF EditSelector
    <3> QED BY <1>1, <3>1
  <2>3. CASE EditThrottlerName(t)
    BY <1>1, <2>1, <2>3 DEF EditThrottlerName
  <2>4. CASE DeleteThrottle(t)
    BY <1>1, <2>4 DEF DeleteThrottle
  <2>5. CASE CreateThrottle(t)
    BY <2>1, <2>5 DEF CreateThrottle
  <2> QED BY <2>2, <2>3, <2>4, <2>5 DEF EditThrottle
<1>3. /\ UNCHANGED <<podVars, namespace, queue, worker, reserved, cycle>>
      /\ \E object : thr' = [thr EXCEPT ![t] = object]
      /\ counted' = counted \/ counted' = [counted EXCEPT ![t] = {}]
  BY DEF EditThrottle, EditSelector, EditThrottlerName, DeleteThrottle, CreateThrottle, PutThrottle
<1>4. \A u \in Of(c) : thr'[u] = thr[u] /\ counted'[u] = counted[u]
  BY <1>2, <1>3 DEF Of, TypeInv, Types, ThrottleTypes, LedgerTypes
<1>5. ToBegin' = ToBegin
  BY <1>3 DEF ToBegin
<1> QED BY <1>3, <1>4, <1>5 DEF Elsewhere

LEMMA StepsOf ==
    ASSUME TypeInv, [Next]_vars, NEW c \in Controllers, Undisturbed(c)', AsAtFirst(c)
    PROVE  \/ Elsewhere(c)
           \/ Schedule
           \/ \E p \in Pods : DeliverPod(p) \/ PodChanges(p) \/ \E d \in Controllers : HandlePod(d, p)
           \/ \E t \in Throttles : StartReconcile(t) \/ FinishReconcile(t)
<1>1. ASSUME NEW t \in Throttles, HandleThrottle(t) \/ Resync(t) \/ RetryExpires(t)
      PROVE  Elsewhere(c)
  <2>1. ToBegin \subseteq ToBegin'
    BY <1>1 DEF HandleThrottle, Resync, RetryExpires, Enqueue, Expire, ToBegin, TypeInv, Types,
                LedgerTypes, Queues
  <2> QED BY <1>1, <2>1 DEF HandleThrottle, Resync, RetryExpires, Elsewhere, thrVars
<1>2. CASE UNCHANGED vars
  BY <1>2 DEF vars, thrVars, Elsewhere, ToBegin
<1>3. ASSUME NEW kind, Change(kind, Controllers) PROVE FALSE
  <2>1. <<c, kind>> \in disturbed'
    BY <1>3 DEF Change
  <2> QED BY <2>1 DEF Undisturbed
<1>4. ASSUME NEW p \in Pods, Relabel(p) PROVE PodChanges(p)
  BY <1>3, <1>4 DEF Relabel, PodChanges
<1>5. ASSUME NEW p \in Pods, RecreatePod(p) PROVE FALSE
  <2>1. <<c, "recreatePod">> \in disturbed'
    BY <1>5 DEF RecreatePod
  <2> QED BY <2>1 DEF Undisturbed
<1>6. CASE RelabelNamespace
  <2>1. disturbed' = disturbed \cup (({"ClusterThrottle"} \cap Controllers) \X {"relabelNamespace"})
    BY <1>6 DEF RelabelNamespace, Change
  <2>2. c # "ClusterThrottle"
    <3> SUFFICES ASSUME c = "ClusterThrottle" PROVE FALSE
      OBVIOUS
    <3>1. <<c, "relabelNamespace">> \in disturbed'
      BY <2>1
    <3> QED BY <3>1 DEF Undisturbed
  <2> QED BY <1>6, <2>2 DEF RelabelNamespace, Elsewhere, ToBegin
<1>7. CASE Environment
  <2>1. ASSUME NEW p \in Pods, PodFinishes(p) \/ PodDeleted(p) \/ Relabel(p) \/ RecreatePod(p)
        PROVE  PodChanges(p)
    BY <1>4, <1>5, <2>1 DEF PodChanges
  <2>2. ASSUME NEW t \in Throttles, EditThrottle(t) PROVE Elsewhere(c)
    BY <2>2, EditsDisturb
  <2> QED BY <1>6, <1>7, <2>1, <2>2 DEF Environment, EditThrottle
<1>8. CASE Next
  BY <1>1, <1>7, <1>8 DEF Next, Reconcile
<1> QED BY <1>2, <1>8

LEMMA DisturbedOnlyGrows ==
    [Next]_vars => disturbed \subseteq disturbed' \/ \E p \in Pods : RecreatePod(p)
<1> SUFFICES ASSUME [Next]_vars
             PROVE  disturbed \subseteq disturbed' \/ \E p \in Pods : RecreatePod(p)
  OBVIOUS
<1>1. CASE Schedule
  BY <1>1 DEF Schedule, PreFilter, Abandon, Reserve, Unreserve, BindSucceeds
<1>2. ASSUME NEW p \in Pods, DeliverPod(p) PROVE disturbed' = disturbed
  BY <1>2 DEF DeliverPod
<1>3. ASSUME NEW p \in Pods, NEW d \in Controllers, HandlePod(d, p) PROVE disturbed' = disturbed
  BY <1>3 DEF HandlePod, HandlePodAdded, HandlePodUpdated, HandlePodDeleted, Told
<1>4. ASSUME NEW t \in Throttles,
             HandleThrottle(t) \/ Resync(t) \/ Reconcile(t) \/ RetryExpires(t)
      PROVE  disturbed' = disturbed
  BY <1>4 DEF HandleThrottle, Resync, Reconcile, StartReconcile, FinishReconcile, RetryExpires
<1>5. ASSUME NEW p \in Pods, PodFinishes(p) \/ PodDeleted(p) \/ Relabel(p)
      PROVE  disturbed \subseteq disturbed'
  BY <1>5 DEF PodFinishes, PodDeleted, Relabel, Change
<1>6. ASSUME RelabelNamespace PROVE disturbed \subseteq disturbed'
  BY <1>6 DEF RelabelNamespace, Change
<1>7. ASSUME NEW t \in Throttles, EditThrottle(t) PROVE disturbed \subseteq disturbed'
  BY <1>7 DEF EditThrottle, EditSelector, EditThrottlerName, DeleteThrottle, CreateThrottle,
              Change, ChangeBack
<1>8. CASE UNCHANGED vars
  BY <1>8 DEF vars
<1> QED BY <1>1, <1>2, <1>3, <1>4, <1>5, <1>6, <1>7, <1>8 DEF Next, Environment, EditThrottle

LEMMA DisturbedGrows ==
    ASSUME [Next]_vars, NEW c \in Controllers, Undisturbed(c)'
    PROVE  Undisturbed(c)
<1>1. ASSUME NEW p \in Pods, RecreatePod(p) PROVE FALSE
  <2>1. <<c, "recreatePod">> \in disturbed'
    BY <1>1 DEF RecreatePod
  <2> QED BY <2>1 DEF Undisturbed
<1> QED BY <1>1, DisturbedOnlyGrows DEF Undisturbed

\* Actions of the plugin and the pods, and what they leave alone.
LEMMA ScheduleFrame ==
    Schedule => UNCHANGED <<podLister, told, notices, namespace, thr, counted, worker>>
BY DEF Schedule, PreFilter, Abandon, Reserve, Unreserve, BindSucceeds, podVars, thrVars

LEMMA PodFrame ==
    ASSUME NEW p, DeliverPod(p) \/ PodChanges(p)
    PROVE  UNCHANGED <<told, namespace, thr, counted, worker, reserved, cycle>>
BY DEF DeliverPod, PodChanges, PodFinishes, PodDeleted, Relabel, thrVars

LEMMA HandleFrame ==
    ASSUME NEW c, NEW p, HandlePod(c, p)
    PROVE  Told(c, p) /\ UNCHANGED <<apiPod, podLister, namespace, thr, counted, worker, cycle>>
BY DEF HandlePod, HandlePodAdded, HandlePodUpdated, HandlePodDeleted, Told, thrVars

LEMMA ReconcileFrame ==
    ASSUME NEW t, StartReconcile(t) \/ FinishReconcile(t)
    PROVE  UNCHANGED <<apiPod, podLister, told, notices, namespace, thr, cycle>>
BY DEF StartReconcile, FinishReconcile, podVars, thrVars

-----------------------------------------------------------------------------
(* The handlers and the queue, whatever is changed.                        *)

LEMMA FirstNotice ==
    ASSUME NEW States, NEW pending \in Seq(States), pending # <<>>
    PROVE  /\ Len(pending) \in Nat \ {0} /\ DOMAIN pending = 1..Len(pending)
           /\ Head(pending) = pending[1] /\ Head(pending) \in States
           /\ Len(Tail(pending)) = Len(pending) - 1
           /\ DOMAIN Tail(pending) = 1..(Len(pending) - 1)
           /\ \A k \in 1..(Len(pending) - 1) : Tail(pending)[k] = pending[k + 1]
           /\ Tail(pending) = <<>> <=> Len(pending) = 1
<1> DEFINE n == Len(pending)
           rest == Tail(pending)
<1>1. /\ n \in Nat \ {0} /\ DOMAIN pending = 1..n /\ Head(pending) = pending[1]
      /\ Head(pending) \in States
      /\ rest \in Seq(States) /\ Len(rest) = n - 1 /\ DOMAIN rest = 1..(n - 1)
      /\ \A k \in 1..(n - 1) : rest[k] = pending[k + 1]
  OBVIOUS
<1>2. rest = <<>> <=> n = 1
  <2> HIDE DEF n, rest
  <2>1. rest = <<>> <=> Len(rest) = 0
    BY <1>1, EmptySeq
  <2> QED BY <1>1, <2>1
<1> QED BY <1>1, <1>2

LEMMA ListerNotices ==
    ASSUME NEW States, NEW listed, NEW known, NEW pending \in Seq(States),
           NoticeFollows(listed, known, pending), NEW next \in States,
           next.deleted => next = [listed EXCEPT !.deleted = TRUE]
    PROVE  NoticeFollows(next, known, Append(pending, next))
<1> DEFINE n == Len(pending)
           all == Append(pending, next)
<1>1. /\ n \in Nat /\ DOMAIN pending = 1..n /\ all # <<>>
      /\ DOMAIN all = 1..(n + 1) /\ Len(all) = n + 1 /\ all[n + 1] = next
      /\ \A k \in 1..n : all[k] = pending[k]
  OBVIOUS
<1>2. pending = <<>> <=> n = 0
  BY EmptySeq
<1>3. listed = IF n = 0 THEN known ELSE pending[n]
  BY <1>2 DEF NoticeFollows
<1>4. ASSUME NEW k \in 1..(n + 1), all[k].deleted
      PROVE  all[k] = [(IF k = 1 THEN known ELSE all[k - 1]) EXCEPT !.deleted = TRUE]
  <2>1. CASE k \in 1..n
    <3>1. /\ pending[k].deleted /\ k \in DOMAIN pending
          /\ k # 1 => k - 1 \in 1..n
      BY <1>1, <1>4, <2>1
    <3>2. pending[k] = [(IF k = 1 THEN known ELSE pending[k - 1]) EXCEPT !.deleted = TRUE]
      BY <3>1 DEF NoticeFollows
    <3> HIDE DEF all, n
    <3> QED BY <1>1, <2>1, <3>1, <3>2
  <2>2. CASE k = n + 1
    <3>1. all[k] = [listed EXCEPT !.deleted = TRUE]
      BY <1>1, <1>4, <2>2
    <3>2. (k = 1 <=> n = 0) /\ k - 1 = n /\ (n # 0 => n \in 1..n)
      BY <1>1, <2>2
    <3> HIDE DEF all, n
    <3> QED BY <1>1, <1>3, <3>1, <3>2
  <2> HIDE DEF all, n
  <2> QED BY <1>1, <2>1, <2>2
<1> HIDE DEF all, n
<1>5. NoticeFollows(next, known, all)
  BY <1>1, <1>4 DEF NoticeFollows
<1> QED BY <1>5 DEF all

LEMMA HandlersNotices ==
    ASSUME NEW States, NEW listed, NEW known, NEW pending \in Seq(States),
           NoticeFollows(listed, known, pending), pending # <<>>
    PROVE  NoticeFollows(listed, Head(pending), Tail(pending))
<1> DEFINE n == Len(pending)
           rest == Tail(pending)
           head == Head(pending)
<1>1. /\ n \in Nat \ {0} /\ DOMAIN pending = 1..n /\ head = pending[1]
      /\ Len(rest) = n - 1 /\ DOMAIN rest = 1..(n - 1)
      /\ \A k \in 1..(n - 1) : rest[k] = pending[k + 1]
      /\ rest = <<>> <=> n = 1
  BY FirstNotice
<1>2. listed = pending[n]
  BY DEF NoticeFollows
<1>3. \A k \in 1..n : pending[k].deleted =>
            pending[k] = [(IF k = 1 THEN known ELSE pending[k - 1]) EXCEPT !.deleted = TRUE]
  BY <1>1 DEF NoticeFollows
<1> HIDE DEF n, rest, head
<1>4. listed = IF rest = <<>> THEN head ELSE rest[Len(rest)]
  <2>1. CASE n = 1
    BY <1>1, <1>2, <2>1
  <2>2. CASE n # 1
    <3>1. n - 1 \in 1..(n - 1) /\ (n - 1) + 1 = n
      BY <1>1, <2>2
    <3>2. rest[n - 1] = pending[n]
      BY <1>1, <3>1
    <3> QED BY <1>1, <1>2, <2>2, <3>2
  <2> QED BY <2>1, <2>2
<1>5. ASSUME NEW k \in 1..(n - 1), rest[k].deleted
      PROVE  rest[k] = [(IF k = 1 THEN head ELSE rest[k - 1]) EXCEPT !.deleted = TRUE]
  <2>1. /\ rest[k] = pending[k + 1] /\ k + 1 \in 1..n /\ k + 1 # 1 /\ (k + 1) - 1 = k
    BY <1>1
  <2>2. pending[k + 1] = [pending[k] EXCEPT !.deleted = TRUE]
    BY <1>3, <1>5, <2>1
  <2>3. pending[k] = IF k = 1 THEN head ELSE rest[k - 1]
    <3>1. k # 1 => k - 1 \in 1..(n - 1) /\ (k - 1) + 1 = k
      BY <1>1
    <3> QED BY <1>1, <3>1
  <2> QED BY <2>1, <2>2, <2>3
<1>6. NoticeFollows(listed, head, rest)
  BY <1>1, <1>4, <1>5 DEF NoticeFollows
<1> QED BY <1>6 DEF head, rest

(* What a handler is told next, and what is left to tell.                  *)
LEMMA ToldStep ==
    ASSUME PodTypes, NEW c \in Controllers, NEW p \in Pods, Told(c, p)
    PROVE  /\ notices[c][p] \in Seq(PodStates) /\ notices[c][p] # <<>>
           /\ told'[c][p] = Head(notices[c][p]) /\ notices'[c][p] = Tail(notices[c][p])
           /\ \A d \in Controllers, q \in Pods : d # c \/ q # p =>
                told'[d][q] = told[d][q] /\ notices'[d][q] = notices[d][q]
BY DEF PodTypes, Told

(* What the lister hands on.                                               *)
LEMMA DeliverStep ==
    ASSUME PodTypes, NEW p \in Pods, DeliverPod(p)
    PROVE  \E next \in PodStates :
            /\ podLister[p] # apiPod[p]
            /\ next.stage = apiPod[p].stage /\ next.labels = apiPod[p].labels
            /\ next.deleted => next = apiPod[p] /\ next = [podLister[p] EXCEPT !.deleted = TRUE]
            /\ podLister'[p] = next
            /\ \A q \in Pods \ {p} : podLister'[q] = podLister[q]
            /\ \A c \in Controllers, q \in Pods :
                notices'[c][q] = IF q = p THEN Append(notices[c][p], next) ELSE notices[c][q]
<1>1. apiPod[p] \in PodStates /\ podLister[p] \in PodStates
  BY DEF PodTypes
<1>2. PICK undeleted : undeleted = [apiPod[p] EXCEPT !.deleted = FALSE]
  OBVIOUS
<1>3. /\ undeleted \in PodStates /\ ~undeleted.deleted
      /\ undeleted.stage = apiPod[p].stage /\ undeleted.labels = apiPod[p].labels
      /\ apiPod[p].deleted /\ podLister[p] = undeleted
            => apiPod[p] = [podLister[p] EXCEPT !.deleted = TRUE]
  BY <1>1, <1>2 DEF PodStates
<1>4. PICK next : next = IF apiPod[p].deleted /\ podLister[p] # undeleted
                         THEN undeleted ELSE apiPod[p]
  OBVIOUS
<1>5. /\ podLister[p] # apiPod[p]
      /\ podLister' = [podLister EXCEPT ![p] = next]
      /\ notices' = [c \in Controllers |-> [notices[c] EXCEPT ![p] = Append(@, next)]]
  BY <1>2, <1>4 DEF DeliverPod
<1>6. /\ next \in PodStates
      /\ next.stage = apiPod[p].stage /\ next.labels = apiPod[p].labels
      /\ next.deleted => next = apiPod[p] /\ next = [podLister[p] EXCEPT !.deleted = TRUE]
  BY <1>1, <1>3, <1>4
<1>7. /\ podLister'[p] = next /\ \A q \in Pods \ {p} : podLister'[q] = podLister[q]
      /\ \A c \in Controllers, q \in Pods :
            notices'[c][q] = IF q = p THEN Append(notices[c][p], next) ELSE notices[c][q]
  BY <1>5 DEF PodTypes
<1> QED BY <1>5, <1>6, <1>7

LEMMA OnlyInformersTell ==
    ASSUME [Next]_vars
    PROVE  \/ UNCHANGED <<podLister, told, notices>>
           \/ \E p \in Pods : DeliverPod(p) \/ \E c \in Controllers : HandlePod(c, p)
<1>1. ASSUME NEW t \in Throttles, EditThrottle(t) PROVE UNCHANGED podVars
  BY <1>1 DEF EditThrottle, EditSelector, EditThrottlerName, DeleteThrottle, CreateThrottle,
              PutThrottle
<1>2. ASSUME NEW p \in Pods, PodFinishes(p) \/ PodDeleted(p) \/ Relabel(p) \/ RecreatePod(p)
      PROVE  UNCHANGED <<podLister, told, notices>>
  BY <1>2 DEF PodFinishes, PodDeleted, Relabel, RecreatePod
<1>3. CASE Environment
  BY <1>1, <1>2, <1>3 DEF Environment, EditThrottle, RelabelNamespace, podVars
<1>4. ASSUME NEW t \in Throttles,
             HandleThrottle(t) \/ Resync(t) \/ Reconcile(t) \/ RetryExpires(t)
      PROVE  UNCHANGED <<podLister, told, notices>>
  BY <1>4 DEF HandleThrottle, Resync, Reconcile, StartReconcile, FinishReconcile, RetryExpires,
              podVars
<1> QED BY <1>3, <1>4, ScheduleFrame DEF Next, vars, podVars

LEMMA NoticesFollowStep ==
    ASSUME TypeInv, NoticesFollow, [Next]_vars
    PROVE  NoticesFollow'
<1>0. PodTypes
  BY DEF TypeInv, Types
<1>1. CASE UNCHANGED <<podLister, told, notices>>
  BY <1>1 DEF NoticesFollow, Controllers
<1>2. ASSUME NEW p \in Pods, DeliverPod(p), NEW c \in Controllers, NEW q \in Pods
      PROVE  NoticeFollows(podLister'[q], told'[c][q], notices'[c][q])
  <2>1. PICK next \in PodStates :
            /\ next.deleted => next = [podLister[p] EXCEPT !.deleted = TRUE]
            /\ podLister'[p] = next /\ \A r \in Pods \ {p} : podLister'[r] = podLister[r]
            /\ notices'[c][q] = IF q = p THEN Append(notices[c][p], next) ELSE notices[c][q]
    BY <1>0, <1>2, DeliverStep
  <2>2. told' = told /\ notices[c][q] \in Seq(PodStates)
    BY <1>0, <1>2 DEF DeliverPod, PodTypes
  <2>3. NoticeFollows(podLister[q], told[c][q], notices[c][q])
    BY DEF NoticesFollow
  <2>4. CASE q = p
    BY <2>1, <2>2, <2>3, <2>4, ListerNotices
  <2>5. CASE q # p
    BY <2>1, <2>2, <2>3, <2>5
  <2> QED BY <2>4, <2>5
<1>3. ASSUME NEW d \in Controllers, NEW p \in Pods, HandlePod(d, p),
             NEW c \in Controllers, NEW q \in Pods
      PROVE  NoticeFollows(podLister'[q], told'[c][q], notices'[c][q])
  <2>1. Told(d, p) /\ podLister' = podLister
    BY <1>3, HandleFrame
  <2>2. NoticeFollows(podLister[q], told[c][q], notices[c][q])
    BY DEF NoticesFollow
  <2>3. CASE c # d \/ q # p
    BY <1>0, <2>1, <2>2, <2>3, ToldStep
  <2>4. CASE c = d /\ q = p
    <3>1. /\ notices[c][q] \in Seq(PodStates) /\ notices[c][q] # <<>>
          /\ told'[c][q] = Head(notices[c][q]) /\ notices'[c][q] = Tail(notices[c][q])
      BY <1>0, <2>1, <2>4, ToldStep
    <3>2. NoticeFollows(podLister[q], Head(notices[c][q]), Tail(notices[c][q]))
      BY <2>2, <3>1, HandlersNotices
    <3> QED BY <2>1, <3>1, <3>2
  <2> QED BY <2>3, <2>4
<1>4. ASSUME NEW p \in Pods, DeliverPod(p) \/ \E d \in Controllers : HandlePod(d, p)
      PROVE  NoticesFollow'
  <2>1. ASSUME NEW c \in Controllers, NEW q \in Pods
        PROVE  NoticeFollows(podLister'[q], told'[c][q], notices'[c][q])
    BY <1>2, <1>3, <1>4
  <2> QED BY <2>1 DEF NoticesFollow, Controllers
<1> QED BY <1>1, <1>4, OnlyInformersTell

LEMMA BusyIsProcessingStep ==
    ASSUME TypeInv, BusyIsProcessing, [Next]_vars
    PROVE  BusyIsProcessing'
<1>0. LedgerTypes
  BY DEF TypeInv, Types
<1>1. ASSUME worker' = worker, queue.processing \subseteq queue'.processing
      PROVE  BusyIsProcessing'
  BY <1>1 DEF BusyIsProcessing
<1>2. ASSUME NEW t \in Throttles, StartReconcile(t) PROVE BusyIsProcessing'
  <2>1. t \notin queue.processing /\ queue \in Queues(Throttles) /\ worker \in [Throttles -> Works]
    BY <1>0, <1>2 DEF StartReconcile, Ready, LedgerTypes
  <2>2. CASE /\ worker' = worker
             /\ queue' \in {Done(Take(queue, t), t), AddRateLimited(Done(Take(queue, t), t), t)}
    <3>1. Done(Take(queue, t), t).processing = queue.processing
      BY <2>1 DEF Take, Done, Queues
    <3>2. AddRateLimited(Done(Take(queue, t), t), t).processing = queue.processing
      BY <2>1, <3>1 DEF Take, Done, AddRateLimited, Queues
    <3>3. queue'.processing = queue.processing
      BY <2>2, <3>1, <3>2
    <3> QED BY <1>1, <2>2, <3>3
  <2>3. CASE queue' = Take(queue, t) /\ \A u \in Throttles \ {t} : worker'[u] = worker[u]
    BY <2>1, <2>3 DEF Take, Queues, BusyIsProcessing
  <2> QED BY <1>2, <2>1, <2>2, <2>3 DEF StartReconcile
<1>3. ASSUME NEW t \in Throttles, FinishReconcile(t) PROVE BusyIsProcessing'
  <2>1. /\ queue'.processing = queue.processing \ {t}
        /\ ~worker'[t].busy /\ \A u \in Throttles \ {t} : worker'[u] = worker[u]
    BY <1>0, <1>3 DEF FinishReconcile, Retry, Done, AddRateLimited, NoReconcile, LedgerTypes, Queues
  <2> QED BY <2>1 DEF BusyIsProcessing
<1>4. ASSUME NEW t \in Throttles, HandleThrottle(t) \/ Resync(t) \/ RetryExpires(t)
      PROVE  BusyIsProcessing'
  <2>1. queue'.processing = queue.processing /\ worker' = worker
    BY <1>0, <1>4 DEF HandleThrottle, Resync, RetryExpires, Enqueue, Expire, LedgerTypes, Queues
  <2> QED BY <1>1, <2>1
<1>5. ASSUME NEW c \in Controllers, NEW p \in Pods, HandlePod(c, p) PROVE BusyIsProcessing'
  <2>1. worker' = worker
    BY <1>5, HandleFrame
  <2>2. queue'.processing = queue.processing
    BY <1>0, <1>5 DEF HandlePod, HandlePodAdded, HandlePodUpdated, HandlePodDeleted, EnqueueAll,
                      LedgerTypes, Queues
  <2> QED BY <1>1, <2>1, <2>2
<1>6. ASSUME UNCHANGED <<queue, worker>> PROVE BusyIsProcessing'
  BY <1>1, <1>6
<1>7. CASE Schedule
  BY <1>6, <1>7 DEF Schedule, PreFilter, Abandon, Reserve, Unreserve, BindSucceeds
<1>8. CASE Environment
  <2>1. ASSUME NEW t \in Throttles, EditThrottle(t) PROVE UNCHANGED <<queue, worker>>
    BY <2>1 DEF EditThrottle, EditSelector, EditThrottlerName, DeleteThrottle, CreateThrottle,
                PutThrottle
  <2>2. ASSUME NEW p \in Pods, PodFinishes(p) \/ PodDeleted(p) \/ Relabel(p) \/ RecreatePod(p)
        PROVE  UNCHANGED <<queue, worker>>
    BY <2>2 DEF PodFinishes, PodDeleted, Relabel, RecreatePod
  <2> QED BY <1>6, <1>8, <2>1, <2>2 DEF Environment, EditThrottle, RelabelNamespace
<1>9. ASSUME NEW p \in Pods, DeliverPod(p) PROVE UNCHANGED <<queue, worker>>
  BY <1>9 DEF DeliverPod
<1>10. CASE UNCHANGED vars
  BY <1>6, <1>10 DEF vars
<1> QED BY <1>2, <1>3, <1>4, <1>5, <1>6, <1>7, <1>8, <1>9, <1>10 DEF Next, Reconcile

LEMMA ChangesCountedStep ==
    ASSUME TypeInv, ChangesCounted, [Next]_vars
    PROVE  ChangesCounted'
<1>0. changes \in Nat
  BY ChangesAssumption DEF TypeInv, Types, ThrottleTypes
<1>1. ASSUME NEW kind, NEW controllers, Change(kind, controllers) PROVE ChangesCounted'
  BY <1>0, <1>1 DEF Change, ChangesCounted
<1>2. ASSUME UNCHANGED <<changes, disturbed>> PROVE ChangesCounted'
  BY <1>2 DEF ChangesCounted
<1>3. ASSUME NEW p \in Pods, RecreatePod(p) PROVE ChangesCounted'
  BY <1>3 DEF RecreatePod, ChangesCounted
<1>4. ASSUME NEW p \in Pods, PodFinishes(p) \/ PodDeleted(p) PROVE ChangesCounted'
  BY <1>2, <1>4 DEF PodFinishes, PodDeleted
<1>5. ASSUME NEW p \in Pods, Relabel(p) PROVE ChangesCounted'
  BY <1>1, <1>5 DEF Relabel
<1>6. ASSUME RelabelNamespace PROVE ChangesCounted'
  BY <1>1, <1>6 DEF RelabelNamespace
<1>7. ASSUME NEW t \in Throttles, EditThrottle(t) PROVE ChangesCounted'
  BY <1>1, <1>2, <1>7 DEF EditThrottle, EditSelector, EditThrottlerName, DeleteThrottle,
                          CreateThrottle, ChangeBack
<1>8. CASE Environment
  BY <1>3, <1>4, <1>5, <1>6, <1>7, <1>8 DEF Environment, EditThrottle
<1>9. CASE Schedule
  BY <1>2, <1>9 DEF Schedule, PreFilter, Abandon, Reserve, Unreserve, BindSucceeds
<1>10. ASSUME NEW p \in Pods, DeliverPod(p) \/ \E c \in Controllers : HandlePod(c, p)
       PROVE  ChangesCounted'
  BY <1>2, <1>10 DEF DeliverPod, HandlePod, HandlePodAdded, HandlePodUpdated, HandlePodDeleted, Told
<1>11. ASSUME NEW t \in Throttles,
              HandleThrottle(t) \/ Resync(t) \/ Reconcile(t) \/ RetryExpires(t)
       PROVE  ChangesCounted'
  BY <1>2, <1>11 DEF HandleThrottle, Resync, Reconcile, StartReconcile, FinishReconcile,
                     RetryExpires
<1>12. CASE UNCHANGED vars
  BY <1>2, <1>12 DEF vars
<1> QED BY <1>8, <1>9, <1>10, <1>11, <1>12 DEF Next

LEMMA HandlingInvAlways == Spec => []HandlingInv
<1>1. Init => HandlingInv
  BY DEF Init, HandlingInv, NoticesFollow, NoticeFollows, BusyIsProcessing, NoReconcile,
         ChangesCounted
<1>2. TypeInv /\ HandlingInv /\ [Next]_vars => HandlingInv'
  BY NoticesFollowStep, BusyIsProcessingStep, ChangesCountedStep DEF HandlingInv
<1> QED BY <1>1, <1>2, TypeInvAlways, PTL DEF Spec

-----------------------------------------------------------------------------
(* The ledgers of a controller that stays undisturbed.                     *)

(* Without a change the throttles stay as they are, and so does the        *)
(* version a reconcile goes by.                                            *)
LEMMA AsAtFirstStep ==
    ASSUME TypeInv, [Next]_vars, NEW c \in Controllers, Undisturbed(c)', AsAtFirst(c)
    PROVE  AsAtFirst(c)'
<1>1. ASSUME UNCHANGED <<namespace, thr, worker>> PROVE AsAtFirst(c)'
  BY <1>1 DEF AsAtFirst, Of
<1>2. ASSUME NEW t \in Throttles, StartReconcile(t) \/ FinishReconcile(t) PROVE AsAtFirst(c)'
  <2>1. UNCHANGED <<namespace, thr>>
    BY <1>2, ReconcileFrame
  <2>2. /\ \A u \in Throttles : worker'[u] = worker[u] \/ u = t
        /\ worker'[t].rv \in {worker[t].rv, thr[t].rv, 0}
    BY <1>2 DEF StartReconcile, FinishReconcile, NoReconcile, TypeInv, Types, LedgerTypes
  <2>3. \A u \in Of(c) : worker'[u].rv = 0
    BY <2>2 DEF AsAtFirst, Of
  <2> QED BY <2>1, <2>3 DEF AsAtFirst, Of
<1>3. CASE Elsewhere(c)
  BY <1>3 DEF Elsewhere, AsAtFirst, Of
<1> QED BY <1>1, <1>2, <1>3, StepsOf, ScheduleFrame, PodFrame, HandleFrame

(* The pods' side: the lister follows the API server, the notices the      *)
(* lister, and the handlers the notices.                                   *)

\* What the API server may make of a pod whose lister stays behind.
LEMMA LastMoves ==
    ASSUME NEW last, NEW listed, NEW known, NEW pending, NEW first,
           PodFollows(last, listed, known, pending, first), ~last.deleted,
           NEW next, next.uid = last.uid,
           next.stage = "pending" => last.stage = "pending" /\ next.labels = last.labels,
           listed.stage = "finished" => next.stage = "finished"
    PROVE  PodFollows(next, listed, known, pending, first)
BY DEF PodFollows, Seen

LEMMA ListerMoves ==
    ASSUME NEW States, NEW last, NEW listed, NEW known, NEW pending \in Seq(States), NEW first,
           PodFollows(last, listed, known, pending, first),
           NoticeFollows(listed, known, pending), listed # last,
           NEW next \in States, next.stage = last.stage, next.labels = last.labels,
           next.deleted => next = last
    PROVE  PodFollows(last, next, known, Append(pending, next), first)
<1> DEFINE n == Len(pending)
           all == Append(pending, next)
<1>1. /\ n \in Nat /\ DOMAIN pending = 1..n /\ all # <<>>
      /\ DOMAIN all = 1..(n + 1) /\ Len(all) = n + 1 /\ all[n + 1] = next
      /\ \A k \in 1..n : all[k] = pending[k]
  OBVIOUS
<1>2. next.stage = "pending" => listed.stage = "pending"
  BY DEF PodFollows
<1>3. ASSUME NEW pod, Seen(pod, last, listed, first) PROVE Seen(pod, last, next, first)
  BY <1>2, <1>3 DEF Seen
<1>4. Seen(next, last, next, first)
  BY DEF PodFollows, Seen
<1>5. ASSUME NEW k \in DOMAIN all PROVE Seen(all[k], last, next, first)
  <2>1. CASE k \in 1..n
    <3>1. Seen(pending[k], last, listed, first)
      BY <1>1, <2>1 DEF PodFollows
    <3> QED BY <1>1, <1>3, <2>1, <3>1
  <2>2. CASE k = n + 1
    BY <1>1, <1>4, <2>2
  <2> HIDE DEF all, n
  <2> QED BY <1>1, <2>1, <2>2
<1>6. ~listed.deleted /\ ~known.deleted
  BY DEF PodFollows, NoticeFollows
<1>7. ASSUME NEW k \in 1..n PROVE ~pending[k].deleted
  <2> SUFFICES ASSUME pending[k].deleted PROVE FALSE
    OBVIOUS
  <2>1. k = n
    BY <1>1 DEF PodFollows, n
  <2>2. pending # <<>>
    BY <1>1
  <2> QED BY <1>6, <2>1, <2>2 DEF NoticeFollows, n
<1> HIDE DEF all, n
<1>8. PodFollows(last, next, known, all, first)
  BY <1>1, <1>3, <1>4, <1>5, <1>6, <1>7 DEF PodFollows
<1> QED BY <1>8 DEF all

LEMMA HandlersMove ==
    ASSUME NEW States, NEW last, NEW listed, NEW known, NEW pending \in Seq(States), NEW first,
           PodFollows(last, listed, known, pending, first), pending # <<>>
    PROVE  PodFollows(last, listed, Head(pending), Tail(pending), first)
<1> DEFINE n == Len(pending)
           rest == Tail(pending)
           head == Head(pending)
<1>1. /\ n \in Nat \ {0} /\ DOMAIN pending = 1..n /\ head = pending[1]
      /\ Len(rest) = n - 1 /\ DOMAIN rest = 1..(n - 1)
      /\ \A k \in 1..(n - 1) : rest[k] = pending[k + 1]
      /\ rest = <<>> <=> n = 1
  BY FirstNotice
<1> HIDE DEF n, rest, head
<1>2. Seen(head, last, listed, first) /\ (head.deleted => rest = <<>>)
  BY <1>1 DEF PodFollows, n
<1>3. ASSUME NEW k \in DOMAIN rest
      PROVE  Seen(rest[k], last, listed, first) /\ (rest[k].deleted => k = Len(rest))
  <2>1. k + 1 \in DOMAIN pending /\ rest[k] = pending[k + 1]
    BY <1>1
  <2>2. Seen(pending[k + 1], last, listed, first) /\ (pending[k + 1].deleted => k + 1 = n)
    BY <2>1 DEF PodFollows, n
  <2> QED BY <1>1, <2>1, <2>2
<1>4. PodFollows(last, listed, head, rest, first)
  BY <1>2, <1>3 DEF PodFollows
<1> QED BY <1>4 DEF head, rest

LEMMA PodsFollowStep ==
    ASSUME TypeInv, NoticesFollow, [Next]_vars, NEW c \in Controllers, Undisturbed(c)', Follows(c)
    PROVE  PodsFollow(c)'
<1>0. PodTypes /\ PodsFollow(c) /\ AsAtFirst(c)
  BY DEF TypeInv, Types, Follows
<1>1. ASSUME UNCHANGED <<apiPod, podLister, told[c], notices[c]>> PROVE PodsFollow(c)'
  BY <1>0, <1>1 DEF PodsFollow
<1>2. CASE Elsewhere(c)
  BY <1>1, <1>2 DEF Elsewhere, podVars
<1>3. ASSUME NEW p \in Pods, NEW state, apiPod' = [apiPod EXCEPT ![p] = state],
             UNCHANGED <<podLister, told, notices>>, state.uid = apiPod[p].uid,
             state.stage = "pending" =>
                apiPod[p].stage = "pending" /\ state.labels = apiPod[p].labels,
             podLister[p].stage = "finished" => state.stage = "finished",
             ~apiPod[p].deleted
      PROVE  PodsFollow(c)'
  <2>1. \A q \in Pods : apiPod'[q] = IF q = p THEN state ELSE apiPod[q]
    BY <1>0, <1>3 DEF PodTypes
  <2>2. PodFollows(state, podLister[p], told[c][p], notices[c][p], InitialLabels[p])
    <3>1. PodFollows(apiPod[p], podLister[p], told[c][p], notices[c][p], InitialLabels[p])
      BY <1>0 DEF PodsFollow
    <3> QED BY <1>3, <3>1, LastMoves
  <2> QED BY <1>0, <1>3, <2>1, <2>2 DEF PodsFollow
<1>4. ASSUME NEW p \in Pods
      PROVE  /\ apiPod[p] \in PodStates
             /\ podLister[p].stage = "finished" => apiPod[p].stage = "finished"
  BY <1>0 DEF PodTypes, PodsFollow, PodFollows
<1>5. ASSUME NEW p \in Pods, NEW i \in Incarnations, BindSucceeds(p, i) PROVE PodsFollow(c)'
  <2>1. PICK state : state = [apiPod[p] EXCEPT !.stage = "bound"]
    OBVIOUS
  <2>2. state.uid = apiPod[p].uid /\ state.stage = "bound"
    BY <1>4, <2>1 DEF PodStates
  <2>3. /\ apiPod' = [apiPod EXCEPT ![p] = state] /\ UNCHANGED <<podLister, told, notices>>
        /\ apiPod[p].stage = "pending" /\ ~apiPod[p].deleted
    BY <1>5, <2>1 DEF BindSucceeds
  <2> QED BY <1>3, <1>4, <2>2, <2>3
<1>6. CASE Schedule
  <2>1. ASSUME NEW p \in Pods, NEW i \in Incarnations,
               PreFilter(p) \/ Abandon(p, i) \/ Reserve(p, i) \/ Unreserve(p, i)
        PROVE  PodsFollow(c)'
    BY <1>1, <2>1 DEF PreFilter, Abandon, Reserve, Unreserve, podVars
  <2> QED BY <1>5, <1>6, <2>1, IncarnationsAssumption DEF Schedule
<1>7. ASSUME NEW p \in Pods, PodChanges(p) PROVE PodsFollow(c)'
  <2>1. UNCHANGED <<podLister, told, notices>>
    BY <1>7 DEF PodChanges, PodFinishes, PodDeleted, Relabel
  <2>2. CASE PodFinishes(p)
    <3>1. PICK state : state = [apiPod[p] EXCEPT !.stage = "finished"]
      OBVIOUS
    <3>2. state.uid = apiPod[p].uid /\ state.stage = "finished"
      BY <1>4, <3>1 DEF PodStates
    <3>3. apiPod' = [apiPod EXCEPT ![p] = state] /\ ~apiPod[p].deleted
      BY <2>2, <3>1 DEF PodFinishes, IsLive
    <3> QED BY <1>3, <2>1, <3>2, <3>3
  <2>3. CASE PodDeleted(p)
    <3>1. PICK state : state = [apiPod[p] EXCEPT !.deleted = TRUE]
      OBVIOUS
    <3>2. /\ state.uid = apiPod[p].uid /\ state.stage = apiPod[p].stage
          /\ state.labels = apiPod[p].labels
      BY <1>4, <3>1 DEF PodStates
    <3>3. apiPod' = [apiPod EXCEPT ![p] = state] /\ ~apiPod[p].deleted
      BY <2>3, <3>1 DEF PodDeleted
    <3> QED BY <1>3, <1>4, <2>1, <3>2, <3>3
  <2>4. CASE Relabel(p) /\ apiPod[p].stage # "pending"
    <3>1. PICK l : apiPod' = [apiPod EXCEPT ![p].labels = l]
      BY <2>4 DEF Relabel
    <3>2. PICK state : state = [apiPod[p] EXCEPT !.labels = l]
      OBVIOUS
    <3>3. state.uid = apiPod[p].uid /\ state.stage = apiPod[p].stage
      BY <1>4, <3>2 DEF PodStates
    <3>4. apiPod' = [apiPod EXCEPT ![p] = state] /\ ~apiPod[p].deleted
      BY <2>4, <3>1, <3>2 DEF Relabel
    <3> QED BY <1>3, <1>4, <2>1, <2>4, <3>3, <3>4
  <2> QED BY <1>7, <2>2, <2>3, <2>4 DEF PodChanges
<1>8. ASSUME NEW p \in Pods, DeliverPod(p) PROVE PodsFollow(c)'
  <2>1. PICK next \in PodStates :
          /\ podLister[p] # apiPod[p]
          /\ next.stage = apiPod[p].stage /\ next.labels = apiPod[p].labels
          /\ next.deleted => next = apiPod[p]
          /\ podLister'[p] = next /\ \A q \in Pods \ {p} : podLister'[q] = podLister[q]
          /\ \A q \in Pods :
               notices'[c][q] = IF q = p THEN Append(notices[c][p], next) ELSE notices[c][q]
    BY <1>0, <1>8, DeliverStep
  <2>2. UNCHANGED <<apiPod, told>>
    BY <1>8 DEF DeliverPod
  <2>3. PodFollows(apiPod[p], next, told[c][p], Append(notices[c][p], next), InitialLabels[p])
    <3>1. /\ PodFollows(apiPod[p], podLister[p], told[c][p], notices[c][p], InitialLabels[p])
          /\ NoticeFollows(podLister[p], told[c][p], notices[c][p])
      BY <1>0 DEF PodsFollow, NoticesFollow
    <3>2. notices[c][p] \in Seq(PodStates)
      BY <1>0 DEF PodTypes
    <3> QED BY <2>1, <3>1, <3>2, ListerMoves
  <2>4. ASSUME NEW q \in Pods
        PROVE  PodFollows(apiPod'[q], podLister'[q], told'[c][q], notices'[c][q],
                          InitialLabels[q])
    BY <1>0, <2>1, <2>2, <2>3 DEF PodsFollow
  <2> QED BY <2>4 DEF PodsFollow
<1>9. ASSUME NEW p \in Pods, NEW d \in Controllers, HandlePod(d, p) PROVE PodsFollow(c)'
  <2>1. Told(d, p) /\ UNCHANGED <<apiPod, podLister>>
    BY <1>9, HandleFrame
  <2>2. CASE d # c
    BY <1>0, <1>1, <2>1, <2>2 DEF Told, PodTypes
  <2>3. CASE d = c
    <3>1. notices[c][p] \in Seq(PodStates) /\ notices[c][p] # <<>>
      BY <1>0, <2>1, <2>3, ToldStep
    <3>2. /\ told'[c][p] = Head(notices[c][p]) /\ notices'[c][p] = Tail(notices[c][p])
          /\ \A q \in Pods \ {p} : told'[c][q] = told[c][q] /\ notices'[c][q] = notices[c][q]
      BY <1>0, <2>1, <2>3, ToldStep
    <3>3. PodFollows(apiPod[p], podLister[p], Head(notices[c][p]), Tail(notices[c][p]),
                     InitialLabels[p])
      <4>1. PodFollows(apiPod[p], podLister[p], told[c][p], notices[c][p], InitialLabels[p])
        BY <1>0 DEF PodsFollow
      <4> QED BY <3>1, <4>1, HandlersMove
    <3>4. ASSUME NEW q \in Pods
          PROVE  PodFollows(apiPod[q], podLister[q], told'[c][q], notices'[c][q],
                            InitialLabels[q])
      BY <1>0, <3>2, <3>3 DEF PodsFollow
    <3> QED BY <2>1, <3>4 DEF PodsFollow
  <2> QED BY <2>2, <2>3
<1>10. ASSUME NEW t \in Throttles, StartReconcile(t) \/ FinishReconcile(t) PROVE PodsFollow(c)'
  BY <1>1, <1>10, ReconcileFrame
<1> QED BY <1>0, <1>2, <1>6, <1>7, <1>8, <1>9, <1>10, StepsOf

(* A cycle is of a pod that is pending, with the labels it had at first.   *)
LEMMA CyclesFollowStep ==
    ASSUME TypeInv, [Next]_vars, NEW c \in Controllers, Undisturbed(c)', Follows(c)
    PROVE  CyclesFollow'
<1>0. PodTypes /\ LedgerTypes /\ AsAtFirst(c) /\ PodsFollow(c) /\ CyclesFollow
  BY DEF TypeInv, Types, Follows
<1>1. ASSUME UNCHANGED <<apiPod, cycle>> PROVE CyclesFollow'
  BY <1>0, <1>1 DEF CyclesFollow
<1>2. ASSUME NEW p \in Pods, NEW i \in Incarnations, NEW state, Cycle(p, i, state)
      PROVE  \A q \in Pods, j \in Incarnations :
                cycle'[q][j] = IF q = p /\ j = i THEN state ELSE cycle[q][j]
  BY <1>0, <1>2 DEF Cycle, LedgerTypes
<1>3. ASSUME NEW p \in Pods, PreFilter(p) PROVE CyclesFollow'
  <2>1. /\ apiPod[p].uid = 1 /\ apiPod[p].stage = "pending" /\ apiPod' = apiPod
        /\ apiPod[p].labels = InitialLabels[p]
        /\ Cycle(p, apiPod[p].uid, [pc |-> "checked", labels |-> apiPod[p].labels])
    BY <1>0, <1>3 DEF PreFilter, PodsFollow, PodFollows, podVars
  <2>2. \A q \in Pods, j \in Incarnations :
            cycle'[q][j] = IF q = p /\ j = 1
                           THEN [pc |-> "checked", labels |-> apiPod[p].labels] ELSE cycle[q][j]
    BY <1>2, <2>1, IncarnationsAssumption
  <2> QED BY <1>0, <2>1, <2>2 DEF CyclesFollow
<1>4. ASSUME NEW p \in Pods, NEW i \in Incarnations, Cycle(p, i, NoCycle),
             \/ apiPod' = apiPod
             \/ \E state : apiPod' = [apiPod EXCEPT ![p] = state]
                           /\ i = 1
      PROVE  CyclesFollow'
  <2>1. \A q \in Pods, j \in Incarnations :
            cycle'[q][j] = IF q = p /\ j = i THEN NoCycle ELSE cycle[q][j]
    BY <1>2, <1>4
  <2>2. \A q \in Pods : apiPod'[q] = apiPod[q] \/ (q = p /\ i = 1)
    BY <1>0, <1>4 DEF PodTypes
  <2>3. ASSUME NEW q \in Pods, NEW j \in Incarnations, cycle'[q][j].pc # "idle"
        PROVE  /\ cycle'[q][j] = cycle[q][j] /\ apiPod'[q] = apiPod[q] /\ j = 1
    BY <1>0, <2>1, <2>2, <2>3 DEF NoCycle, CyclesFollow
  <2> QED BY <1>0, <2>3 DEF CyclesFollow
<1>5. ASSUME NEW p \in Pods, NEW i \in Incarnations, Reserve(p, i) PROVE CyclesFollow'
  <2>1. PICK state : Cycle(p, i, state) /\ \E pc : state = [cycle[p][i] EXCEPT !.pc = pc]
    BY <1>5 DEF Reserve
  <2>2. /\ cycle[p][i].pc # "idle" /\ apiPod' = apiPod
        /\ state.labels = cycle[p][i].labels
    BY <1>0, <1>5, <2>1 DEF Reserve, podVars, LedgerTypes, Cycles
  <2>3. \A q \in Pods, j \in Incarnations :
            cycle'[q][j] = IF q = p /\ j = i THEN state ELSE cycle[q][j]
    BY <1>2, <2>1
  <2> QED BY <1>0, <2>2, <2>3 DEF CyclesFollow
<1>6. CASE Schedule
  <2>1. ASSUME NEW p \in Pods, NEW i \in Incarnations, Abandon(p, i) \/ Unreserve(p, i)
        PROVE  CyclesFollow'
    BY <1>4, <2>1 DEF Abandon, Unreserve, podVars
  <2>2. ASSUME NEW p \in Pods, NEW i \in Incarnations, BindSucceeds(p, i)
        PROVE  CyclesFollow'
    <3>1. i = 1
      BY <1>0, <2>2 DEF BindSucceeds, PodsFollow, PodFollows
    <3>2. Cycle(p, i, NoCycle) /\ \E state : apiPod' = [apiPod EXCEPT ![p] = state]
      BY <2>2 DEF BindSucceeds
    <3> QED BY <1>4, <3>1, <3>2
  <2> QED BY <1>3, <1>5, <1>6, <2>1, <2>2 DEF Schedule
<1>7. ASSUME NEW p \in Pods, PodChanges(p) PROVE CyclesFollow'
  <2>1. cycle' = cycle
    BY <1>7, PodFrame
  <2>2. apiPod[p].stage = "pending" => apiPod'[p].stage = "pending"
    BY <1>0, <1>7 DEF PodChanges, PodFinishes, PodDeleted, IsLive, PodTypes, PodStates
  <2>3. \A q \in Pods : q # p => apiPod'[q] = apiPod[q]
    BY <1>0, <1>7 DEF PodChanges, PodFinishes, PodDeleted, Relabel, PodTypes
  <2> QED BY <1>0, <2>1, <2>2, <2>3 DEF CyclesFollow
<1>8. ASSUME NEW p \in Pods, DeliverPod(p) PROVE CyclesFollow'
  BY <1>1, <1>8 DEF DeliverPod
<1>9. ASSUME NEW p \in Pods, NEW d \in Controllers, HandlePod(d, p) PROVE CyclesFollow'
  BY <1>1, <1>9, HandleFrame
<1>10. ASSUME NEW t \in Throttles, StartReconcile(t) \/ FinishReconcile(t) PROVE CyclesFollow'
  BY <1>1, <1>10, ReconcileFrame
<1>11. CASE Elsewhere(c)
  BY <1>1, <1>11 DEF Elsewhere, podVars
<1> QED BY <1>0, <1>6, <1>7, <1>8, <1>9, <1>10, <1>11, StepsOf

LEMMA ListsFollowStep ==
    ASSUME TypeInv, [Next]_vars, NEW c \in Controllers, Undisturbed(c)', Follows(c)
    PROVE  ListsFollow(c)'
<1>0. PodTypes /\ LedgerTypes /\ AsAtFirst(c) /\ PodsFollow(c) /\ ListsFollow(c)
  BY DEF TypeInv, Types, Follows
<1>1. ASSUME UNCHANGED <<podLister, worker>> PROVE ListsFollow(c)'
  BY <1>0, <1>1 DEF ListsFollow, Of
<1>2. ASSUME NEW p \in Pods, DeliverPod(p) PROVE ListsFollow(c)'
  <2>1. worker' = worker
    BY <1>2 DEF DeliverPod
  <2>2. /\ podLister'[p].stage = apiPod[p].stage
        /\ \A q \in Pods \ {p} : podLister'[q] = podLister[q]
    BY <1>0, <1>2 DEF DeliverPod, PodTypes, PodStates
  <2>3. /\ apiPod[p].stage = "pending" => podLister[p].stage = "pending"
        /\ podLister[p].stage = "finished" => apiPod[p].stage = "finished"
    BY <1>0 DEF PodsFollow, PodFollows
  <2> QED BY <1>0, <2>1, <2>2, <2>3 DEF ListsFollow, Of
<1>3. ASSUME NEW t \in Throttles, StartReconcile(t) PROVE ListsFollow(c)'
  <2>1. podLister' = podLister
    BY <1>3, ReconcileFrame
  <2>2. \A u \in Throttles : u # t => worker'[u] = worker[u]
    BY <1>0, <1>3 DEF StartReconcile, LedgerTypes
  <2>3. \/ worker'[t] = worker[t]
        \/ /\ worker'[t].live = Counts(t, "bound")
           /\ worker'[t].terminated \in Terminated(t)
    BY <1>0, <1>3 DEF StartReconcile, LedgerTypes
  <2>4. /\ \A p \in Counts(t, "bound") : podLister[p].stage = "bound"
        /\ \A listed \in Terminated(t) : \A p \in listed : podLister[p].stage = "finished"
    BY DEF Counts, Terminated
  <2> QED BY <1>0, <2>1, <2>2, <2>3, <2>4 DEF ListsFollow, Of
<1>4. ASSUME NEW t \in Throttles, FinishReconcile(t) PROVE ListsFollow(c)'
  <2>1. podLister' = podLister
    BY <1>4, ReconcileFrame
  <2>2. \A u \in Throttles : worker'[u] = worker[u] \/ worker'[u] = NoReconcile
    BY <1>0, <1>4 DEF FinishReconcile, LedgerTypes
  <2> QED BY <1>0, <2>1, <2>2 DEF ListsFollow, NoReconcile, Of
<1>5. CASE Schedule
  BY <1>1, <1>5, ScheduleFrame
<1>6. ASSUME NEW p \in Pods, PodChanges(p) PROVE ListsFollow(c)'
  BY <1>1, <1>6 DEF PodChanges, PodFinishes, PodDeleted, Relabel
<1>7. ASSUME NEW p \in Pods, NEW d \in Controllers, HandlePod(d, p) PROVE ListsFollow(c)'
  BY <1>1, <1>7, HandleFrame
<1>8. CASE Elsewhere(c)
  BY <1>1, <1>8 DEF Elsewhere, podVars
<1> QED BY <1>0, <1>2, <1>3, <1>4, <1>5, <1>6, <1>7, <1>8, StepsOf

(* What a pod is accounted by, when the steps of its cycle, of its handler *)
(* and of a reconcile are not at issue.                                    *)
LEMMA KeptAccountedStays ==
    ASSUME NEW c \in Controllers, KeptAccounted(c),
           UNCHANGED <<podLister, told[c], notices[c]>>,
           \A t \in Of(c) : counted'[t] = counted[t] /\ worker'[t] = worker[t],
           \A p \in Pods : Holds(p)' =>
              Holds(p) /\ \A t \in Of(c) : p \in reserved[t] => p \in reserved'[t]
    PROVE  KeptAccounted(c)'
<1> SUFFICES ASSUME NEW t \in Of(c), NEW p \in Pods, Holds(p)'
             PROVE  /\ podLister[p].stage = "pending" /\ Selects(t, InitialLabels[p]) =>
                        p \in reserved'[t]
                    /\ SelectedThroughout(c, t, p) =>
                        /\ p \in counted[t] \cup reserved'[t]
                        /\ worker[t].busy => p \in worker[t].live \cup reserved'[t]
  BY DEF KeptAccounted, SelectedThroughout, Of, Holds, IsLive, Selects, FirstAnswer
<1> QED BY DEF KeptAccounted

(* A pod the lister has still pending is known to the handlers with its    *)
(* first labels.                                                           *)
LEMMA KnownAtFirst ==
    ASSUME NEW c \in Controllers, PodsFollow(c), NEW p \in Pods,
           podLister[p].stage = "pending"
    PROVE  /\ told[c][p].stage = "pending" /\ told[c][p].labels = InitialLabels[p]
           /\ \A k \in DOMAIN notices[c][p] : notices[c][p][k].stage = "pending"
                                              /\ notices[c][p][k].labels = InitialLabels[p]
BY DEF PodsFollow, PodFollows, Seen

(* A pod that holds its place is not deleted, for the lister and handlers  *)
(* too, and has not finished.                                              *)
LEMMA HoldersKnown ==
    ASSUME NEW c \in Controllers, PodsFollow(c), CyclesFollow, NEW p \in Pods, Holds(p)
    PROVE  /\ ~apiPod[p].deleted /\ ~podLister[p].deleted /\ ~told[c][p].deleted
           /\ \A k \in DOMAIN notices[c][p] : ~notices[c][p][k].deleted
           /\ podLister[p].stage # "finished"
<1>1. ~apiPod[p].deleted /\ apiPod[p].stage # "finished"
  <2>1. apiPod[p].uid = 1
    BY DEF PodsFollow, PodFollows
  <2> QED BY <2>1, IncarnationsAssumption DEF Holds, IsLive, CyclesFollow
<1> QED BY <1>1 DEF PodsFollow, PodFollows, Seen

LEMMA ReserveAccounts ==
    ASSUME TypeInv, NEW c \in Controllers, Follows(c), NEW p \in Pods, NEW i \in Incarnations,
           Reserve(p, i)
    PROVE  KeptAccounted(c)'
<1>0. /\ PodTypes /\ LedgerTypes /\ AsAtFirst(c) /\ PodsFollow(c) /\ CyclesFollow
      /\ KeptAccounted(c)
  BY DEF TypeInv, Types, Follows
<1> DEFINE labels == cycle[p][i].labels
<1>1. UNCHANGED <<podVars, counted, worker>>
  BY DEF Reserve
<1>2. labels = InitialLabels[p] /\ apiPod[p].stage = "pending"
  BY <1>0 DEF Reserve, CyclesFollow
<1>3. \A t \in Of(c) : Selects(t, InitialLabels[p]) => p \in reserved'[t]
  <2>1. /\ ~AffectedFails(c, labels)
        /\ AffectedThrottles(c, labels) = {t \in Of(c) : Selects(t, labels)}
    BY <1>0, AnswersAsAtFirst
  <2>2. PICK throttles :
            /\ throttles = UNION {AffectedThrottles(d, labels) :
                                    d \in Controllers \ {d \in Controllers : AffectedFails(d, labels)}}
            /\ reserved' = AddPod(p, throttles)
    BY DEF Reserve
  <2>3. AffectedThrottles(c, labels) \subseteq throttles
    BY <2>1, <2>2
  <2> QED BY <1>2, <2>1, <2>2, <2>3 DEF AddPod, Of
<1>4. \A t \in Throttles : reserved[t] \subseteq reserved'[t]
  BY DEF Reserve, AddPod
<1>5. \A q \in Pods : q # p => (Holds(q)' <=> Holds(q))
  BY <1>0, <1>1 DEF Reserve, Cycle, Holds, IsLive, LedgerTypes, podVars
<1>6. podLister[p].stage = "pending"
  BY <1>0, <1>2 DEF PodsFollow, PodFollows
<1> SUFFICES ASSUME NEW t \in Of(c), NEW q \in Pods, Holds(q)'
             PROVE  /\ podLister[q].stage = "pending" /\ Selects(t, InitialLabels[q]) =>
                        q \in reserved'[t]
                    /\ SelectedThroughout(c, t, q) =>
                        /\ q \in counted[t] \cup reserved'[t]
                        /\ worker[t].busy => q \in worker[t].live \cup reserved'[t]
  BY <1>1 DEF KeptAccounted, SelectedThroughout, Of, Selects, FirstAnswer, podVars
<1>7. CASE q = p
  BY <1>0, <1>3, <1>6, <1>7, KnownAtFirst DEF SelectedThroughout
<1>8. CASE q # p
  BY <1>0, <1>4, <1>5, <1>8 DEF KeptAccounted, Of
<1> QED BY <1>7, <1>8

LEMMA HandlePodAccounts ==
    ASSUME TypeInv, NEW c \in Controllers, Follows(c), NEW p \in Pods, NEW d \in Controllers,
           HandlePod(d, p)
    PROVE  KeptAccounted(c)'
<1>0. /\ PodTypes /\ LedgerTypes /\ AsAtFirst(c) /\ PodsFollow(c) /\ CyclesFollow
      /\ KeptAccounted(c)
  BY DEF TypeInv, Types, Follows
<1>1. Told(d, p) /\ UNCHANGED <<apiPod, podLister, counted, worker, cycle>>
  BY HandleFrame
<1>2. \A q \in Pods : Holds(q)' <=> Holds(q)
  BY <1>1 DEF Holds, IsLive
<1>3. CASE d # c
  <2>1. told'[c] = told[c] /\ notices'[c] = notices[c]
    BY <1>0, <1>1, <1>3 DEF Told, PodTypes
  <2>2. \A e, labels : AffectedThrottles(e, labels) \subseteq Of(e)
    BY DEF AffectedThrottles, Responsible
  <2>3. \A t \in Of(c) : t \notin Of(d)
    BY <1>3 DEF Of
  <2>4. \A t \in Of(c) : reserved'[t] = reserved[t]
    BY <2>2, <2>3 DEF HandlePod, HandlePodAdded, HandlePodUpdated, HandlePodDeleted, RemovePod, Of
  <2> QED BY <1>0, <1>1, <1>2, <2>1, <2>4, KeptAccountedStays
<1>4. CASE d = c
  <2> DEFINE old == told[c][p]
             new == Head(notices[c][p])
  <2>1. /\ notices[c][p] \in Seq(PodStates) /\ notices[c][p] # <<>>
    BY <1>0, <1>1, <1>4 DEF PodTypes, Told
  <2>2. /\ told'[c][p] = new /\ notices'[c][p] = Tail(notices[c][p])
        /\ \A q \in Pods \ {p} : told'[c][q] = told[c][q] /\ notices'[c][q] = notices[c][q]
    BY <1>0, <1>1, <1>4 DEF PodTypes, Told
  <2>3. /\ 1 \in DOMAIN notices[c][p] /\ new = notices[c][p][1]
        /\ \A k \in DOMAIN notices[c][p] : k # 1 =>
              k - 1 \in DOMAIN Tail(notices[c][p])
              /\ notices[c][p][k] = Tail(notices[c][p])[k - 1]
    <3>1. /\ Len(notices[c][p]) \in Nat \ {0} /\ DOMAIN notices[c][p] = 1..Len(notices[c][p])
      BY <2>1
    <3> QED BY <2>1, <3>1
  <2>4. \A q \in Pods \ {p}, t \in Of(c) : q \in reserved'[t] <=> q \in reserved[t]
    BY <1>0, <1>4 DEF HandlePod, HandlePodAdded, HandlePodUpdated, HandlePodDeleted, RemovePod,
                      LedgerTypes, Of
  <2>5. ASSUME NEW q \in Pods, q # p, NEW t \in Of(c), Holds(q)
        PROVE  /\ podLister[q].stage = "pending" /\ Selects(t, InitialLabels[q]) =>
                    q \in reserved'[t]
               /\ SelectedThroughout(c, t, q)' =>
                    /\ q \in counted[t] \cup reserved'[t]
                    /\ worker[t].busy => q \in worker[t].live \cup reserved'[t]
    <3>1. SelectedThroughout(c, t, q)' => SelectedThroughout(c, t, q)
      BY <2>2, <2>5 DEF SelectedThroughout, Selects, FirstAnswer
    <3> QED BY <1>0, <2>4, <2>5, <3>1 DEF KeptAccounted
  <2>6. ASSUME NEW t \in Of(c), Holds(p)
        PROVE  /\ podLister[p].stage = "pending" /\ Selects(t, InitialLabels[p]) =>
                    p \in reserved'[t]
               /\ SelectedThroughout(c, t, p)' =>
                    /\ p \in counted[t] \cup reserved'[t]
                    /\ worker[t].busy => p \in worker[t].live \cup reserved'[t]
    <3>1. ~old.deleted /\ ~new.deleted
      BY <1>0, <2>3, <2>6, HoldersKnown
    <3>2. HandlePodUpdated(c, p)
      BY <1>4, <3>1 DEF HandlePod, HandlePodAdded, HandlePodDeleted
    <3> DEFINE forOld == AffectedThrottles(c, old.labels)
               forNew == AffectedThrottles(c, new.labels)
    <3>3. /\ ~AffectedFails(c, old.labels) /\ ~AffectedFails(c, new.labels)
          /\ forOld = {u \in Of(c) : Selects(u, old.labels)}
          /\ forNew = {u \in Of(c) : Selects(u, new.labels)}
      BY <1>0, AnswersAsAtFirst
    <3>4. CASE ~ShouldCountIn(old) /\ ~ShouldCountIn(new)
      <4>1. reserved' = reserved
        BY <3>2, <3>4 DEF HandlePodUpdated
      <4>2. old.labels = InitialLabels[p] /\ new.labels = InitialLabels[p]
        <5>1. old \in PodStates /\ new \in PodStates
          BY <1>0, <2>1, <2>3 DEF PodTypes
        <5>2. old.stage = "pending" /\ new.stage = "pending"
          BY <3>4, <5>1 DEF ShouldCountIn, PodStates
        <5> QED BY <1>0, <2>3, <5>2 DEF PodsFollow, PodFollows, Seen
      <4>3. SelectedThroughout(c, t, p)' => SelectedThroughout(c, t, p)
        <5> SUFFICES ASSUME SelectedThroughout(c, t, p)' PROVE SelectedThroughout(c, t, p)
          OBVIOUS
        <5>1. /\ Selects(t, new.labels)
              /\ \A k \in DOMAIN Tail(notices[c][p]) :
                    Selects(t, Tail(notices[c][p])[k].labels)
          BY <2>2 DEF SelectedThroughout, Selects, FirstAnswer
        <5> QED BY <2>3, <4>2, <5>1 DEF SelectedThroughout
      <4> QED BY <1>0, <2>6, <4>1, <4>3 DEF KeptAccounted
    <3>5. CASE ShouldCountIn(old) \/ ShouldCountIn(new)
      <4>1. reserved' = [u \in Throttles |->
                            IF u \in forOld \ forNew THEN reserved[u] \ {p}
                            ELSE IF u \in forNew \ forOld THEN reserved[u] \cup {p}
                            ELSE reserved[u]]
        BY <3>2, <3>3, <3>5 DEF HandlePodUpdated
      <4>2. podLister[p].stage # "pending"
        <5> SUFFICES ASSUME podLister[p].stage = "pending" PROVE FALSE
          OBVIOUS
        <5> QED BY <1>0, <2>3, <3>5, KnownAtFirst DEF ShouldCountIn
      <4>3. ASSUME SelectedThroughout(c, t, p)'
            PROVE  /\ p \in counted[t] \cup reserved'[t]
                   /\ worker[t].busy => p \in worker[t].live \cup reserved'[t]
        <5>1. /\ Selects(t, new.labels)
              /\ \A k \in DOMAIN Tail(notices[c][p]) :
                    Selects(t, Tail(notices[c][p])[k].labels)
          BY <2>2, <4>3 DEF SelectedThroughout, Selects, FirstAnswer
        <5>2. t \in forNew /\ t \in Throttles
          BY <3>3, <5>1 DEF Of
        <5>3. CASE t \in forOld
          <6>1. SelectedThroughout(c, t, p)
            BY <2>3, <3>3, <5>1, <5>3 DEF SelectedThroughout
          <6>2. reserved'[t] = reserved[t]
            BY <4>1, <5>2, <5>3
          <6> QED BY <1>0, <2>6, <6>1, <6>2 DEF KeptAccounted
        <5>4. CASE t \notin forOld
          <6>1. p \in reserved'[t]
            BY <4>1, <5>2, <5>4
          <6> QED BY <6>1
        <5> QED BY <5>3, <5>4
      <4> QED BY <4>2, <4>3
    <3> QED BY <3>4, <3>5
  <2>7. ASSUME NEW q \in Pods, NEW t \in Of(c), Holds(q)
        PROVE  /\ podLister[q].stage = "pending" /\ Selects(t, InitialLabels[q]) =>
                    q \in reserved'[t]
               /\ SelectedThroughout(c, t, q)' =>
                    /\ q \in counted[t] \cup reserved'[t]
                    /\ worker[t].busy => q \in worker[t].live \cup reserved'[t]
    <3>1. CASE q = p
      BY <2>6, <2>7, <3>1
    <3>2. CASE q # p
      BY <2>5, <2>7, <3>2
    <3> QED BY <3>1, <3>2
  <2> HIDE DEF old, new
  <2> QED BY <1>1, <1>2, <2>7 DEF KeptAccounted, Of, Selects, FirstAnswer
<1> QED BY <1>3, <1>4

LEMMA ReconcileAccounts ==
    ASSUME TypeInv, NoticesFollow, NEW c \in Controllers, Follows(c), NEW u \in Throttles,
           StartReconcile(u) \/ FinishReconcile(u)
    PROVE  KeptAccounted(c)'
<1>0. /\ PodTypes /\ LedgerTypes /\ AsAtFirst(c) /\ PodsFollow(c) /\ CyclesFollow
      /\ ListsFollow(c) /\ KeptAccounted(c)
  BY DEF TypeInv, Types, Follows
<1>1. UNCHANGED <<apiPod, podLister, told, notices, cycle>>
  BY ReconcileFrame
<1> SUFFICES ASSUME NEW t \in Of(c), NEW p \in Pods, Holds(p)
             PROVE  /\ podLister[p].stage = "pending" /\ Selects(t, InitialLabels[p]) =>
                        p \in reserved'[t]
                    /\ SelectedThroughout(c, t, p) =>
                        /\ p \in counted'[t] \cup reserved'[t]
                        /\ worker'[t].busy => p \in worker'[t].live \cup reserved'[t]
  BY <1>1 DEF KeptAccounted, SelectedThroughout, Of, Selects, FirstAnswer, Holds, IsLive
<1>2. t \in Throttles
  BY DEF Of
<1>3. ASSUME counted'[t] = counted[t], reserved'[t] = reserved[t], worker'[t] = worker[t]
      PROVE  /\ podLister[p].stage = "pending" /\ Selects(t, InitialLabels[p]) =>
                p \in reserved'[t]
             /\ SelectedThroughout(c, t, p) =>
                /\ p \in counted'[t] \cup reserved'[t]
                /\ worker'[t].busy => p \in worker'[t].live \cup reserved'[t]
  BY <1>0, <1>3 DEF KeptAccounted
<1>4. CASE t # u
  <2>1. counted'[t] = counted[t] /\ reserved'[t] = reserved[t] /\ worker'[t] = worker[t]
    BY <1>0, <1>2, <1>4 DEF StartReconcile, FinishReconcile, LedgerTypes
  <2> QED BY <1>3, <2>1
<1>5. CASE t = u /\ StartReconcile(u)
  <2>1. UNCHANGED <<counted, reserved>>
    BY <1>5 DEF StartReconcile
  <2>2. \/ worker' = worker
        \/ worker'[t].live = Counts(t, "bound")
    BY <1>0, <1>2, <1>5 DEF StartReconcile, LedgerTypes
  <2>3. ASSUME SelectedThroughout(c, t, p) PROVE p \in Counts(t, "bound") \cup reserved[t]
    <3>1. ~podLister[p].deleted /\ podLister[p].stage # "finished"
      BY <1>0, HoldersKnown
    <3>2. Selects(t, podLister[p].labels)
      <4>1. podLister[p] = IF notices[c][p] = <<>> THEN told[c][p]
                           ELSE notices[c][p][Len(notices[c][p])]
        BY DEF NoticesFollow, NoticeFollows
      <4>2. notices[c][p] \in Seq(PodStates)
        BY <1>0 DEF PodTypes
      <4>3. notices[c][p] # <<>> => Len(notices[c][p]) \in DOMAIN notices[c][p]
        BY <4>2
      <4> QED BY <2>3, <4>1, <4>3 DEF SelectedThroughout
    <3>3. CASE podLister[p].stage = "pending"
      <4>1. told[c][p].labels = InitialLabels[p]
        BY <1>0, <3>3, KnownAtFirst
      <4> QED BY <1>0, <2>3, <3>3, <4>1 DEF KeptAccounted, SelectedThroughout
    <3>4. CASE podLister[p].stage # "pending"
      <4>1. podLister[p].stage = "bound"
        BY <1>0, <3>1, <3>4 DEF PodTypes, PodStates
      <4> QED BY <1>0, <3>1, <3>2, <4>1, CountsSelected DEF ShouldCountIn
    <3> QED BY <3>3, <3>4
  <2> QED BY <1>0, <2>1, <2>2, <2>3 DEF KeptAccounted
<1>6. CASE t = u /\ FinishReconcile(u)
  <2> DEFINE w == worker[t]
  <2>1. thr[t].exists /\ thr[t].rv = w.rv /\ w.busy
    BY <1>0, <1>6 DEF AsAtFirst, FinishReconcile
  <2>2. /\ worker'[t] = NoReconcile /\ counted'[t] = w.live
        /\ reserved'[t] = reserved[t] \ (w.live \cup w.terminated)
    BY <1>0, <1>2, <1>6, <2>1 DEF FinishReconcile, LedgerTypes
  <2>3. ~worker'[t].busy
    BY <2>2 DEF NoReconcile
  <2>4. /\ podLister[p].stage = "pending" => p \notin w.live \cup w.terminated
        /\ p \notin w.terminated
    BY <1>0, HoldersKnown DEF ListsFollow
  <2> QED BY <1>0, <2>1, <2>2, <2>3, <2>4 DEF KeptAccounted
<1> QED BY <1>4, <1>5, <1>6

LEMMA KeptAccountedStep ==
    ASSUME TypeInv, NoticesFollow, [Next]_vars, NEW c \in Controllers, Undisturbed(c)', Follows(c)
    PROVE  KeptAccounted(c)'
<1>0. /\ PodTypes /\ LedgerTypes /\ AsAtFirst(c) /\ PodsFollow(c) /\ CyclesFollow
      /\ KeptAccounted(c)
  BY DEF TypeInv, Types, Follows
<1>1. ASSUME NEW p \in Pods, NEW i \in Incarnations, Cycle(p, i, NoCycle)
      PROVE  \A q \in Pods, j \in Incarnations :
                cycle'[q][j] = IF q = p /\ j = i THEN NoCycle ELSE cycle[q][j]
  BY <1>0, <1>1 DEF Cycle, LedgerTypes
<1>2. ASSUME NEW p \in Pods, PreFilter(p) PROVE KeptAccounted(c)'
  <2>1. \A q \in Pods, j \in Incarnations :
            cycle'[q][j].pc = "reserved" => cycle[q][j].pc = "reserved"
    <3>1. apiPod[p].uid \in Incarnations
      BY <1>0 DEF PodTypes, PodStates
    <3> QED BY <1>0, <1>2, <3>1 DEF PreFilter, Cycle, LedgerTypes
  <2>2. \A q \in Pods : apiPod[q].uid \in Incarnations
    BY <1>0 DEF PodTypes, PodStates
  <2>3. UNCHANGED <<podVars, counted, worker, reserved>>
    BY <1>2 DEF PreFilter
  <2>4. \A q \in Pods : Holds(q)' => Holds(q)
    BY <2>1, <2>2, <2>3 DEF Holds, IsLive, podVars
  <2> QED BY <1>0, <2>3, <2>4, KeptAccountedStays DEF podVars
<1>3. ASSUME NEW p \in Pods, NEW i \in Incarnations, Abandon(p, i) PROVE KeptAccounted(c)'
  <2>1. /\ \A q \in Pods, j \in Incarnations :
            cycle'[q][j].pc = "reserved" => cycle[q][j].pc = "reserved"
        /\ UNCHANGED <<podVars, counted, worker, reserved>>
    BY <1>1, <1>3 DEF Abandon, NoCycle
  <2>2. \A q \in Pods : apiPod[q].uid \in Incarnations
    BY <1>0 DEF PodTypes, PodStates
  <2>3. \A q \in Pods : Holds(q)' => Holds(q)
    BY <2>1, <2>2 DEF Holds, IsLive, podVars
  <2> QED BY <1>0, <2>1, <2>3, KeptAccountedStays DEF podVars
<1>4. ASSUME NEW p \in Pods, NEW i \in Incarnations, Unreserve(p, i) PROVE KeptAccounted(c)'
  <2>1. i = 1 /\ apiPod[p].stage = "pending"
    BY <1>0, <1>4 DEF Unreserve, CyclesFollow
  <2>2. \A q \in Pods : apiPod[q].uid = 1
    BY <1>0 DEF PodsFollow, PodFollows
  <2>3. /\ \A q \in Pods, j \in Incarnations :
                cycle'[q][j] = IF q = p /\ j = i THEN NoCycle ELSE cycle[q][j]
        /\ UNCHANGED <<podVars, counted, worker>>
    BY <1>1, <1>4 DEF Unreserve
  <2>4. ~Holds(p)'
    BY <2>1, <2>2, <2>3 DEF Holds, IsLive, NoCycle, podVars
  <2>5. \A q \in Pods : q # p => (Holds(q)' <=> Holds(q))
    BY <2>2, <2>3, IncarnationsAssumption DEF Holds, IsLive, podVars
  <2>6. \A q \in Pods, t \in Throttles : q # p /\ q \in reserved[t] => q \in reserved'[t]
    BY <1>4 DEF Unreserve, RemovePod
  <2> QED BY <1>0, <2>3, <2>4, <2>5, <2>6, KeptAccountedStays DEF podVars, Of
<1>5. ASSUME NEW p \in Pods, NEW i \in Incarnations, BindSucceeds(p, i) PROVE KeptAccounted(c)'
  <2>1. /\ i = apiPod[p].uid /\ cycle[p][i].pc = "reserved" /\ ~apiPod[p].deleted
        /\ UNCHANGED <<podLister, told, notices, counted, worker, reserved>>
    BY <1>5 DEF BindSucceeds
  <2>2. \A q \in Pods : q # p => apiPod'[q] = apiPod[q] /\ cycle'[q] = cycle[q]
    BY <1>0, <1>5 DEF BindSucceeds, Cycle, PodTypes, LedgerTypes
  <2>3. \A q \in Pods : Holds(q)' => Holds(q)
    BY <2>1, <2>2 DEF Holds, IsLive
  <2> QED BY <1>0, <2>1, <2>3, KeptAccountedStays
<1>6. CASE Schedule
  BY <1>0, <1>2, <1>3, <1>4, <1>5, <1>6, ReserveAccounts DEF Schedule
<1>7. ASSUME NEW p \in Pods, PodChanges(p) PROVE KeptAccounted(c)'
  <2>1. UNCHANGED <<podLister, told, notices, counted, worker, reserved, cycle>>
    BY <1>7 DEF PodChanges, PodFinishes, PodDeleted, Relabel
  <2>2. \A q \in Pods : /\ apiPod'[q].uid = apiPod[q].uid
                        /\ IsLive(apiPod'[q]) => IsLive(apiPod[q])
                        /\ ~apiPod'[q].deleted => ~apiPod[q].deleted
    <3>1. \A q \in Pods : apiPod[q] \in PodStates
      BY <1>0 DEF PodTypes
    <3>2. CASE PodFinishes(p)
      BY <1>0, <3>1, <3>2 DEF PodFinishes, PodTypes, PodStates, IsLive
    <3>3. CASE PodDeleted(p)
      BY <1>0, <3>1, <3>3 DEF PodDeleted, PodTypes, PodStates, IsLive
    <3>4. CASE Relabel(p)
      BY <1>0, <3>1, <3>4 DEF Relabel, PodTypes, PodStates, IsLive
    <3> QED BY <1>7, <3>2, <3>3, <3>4 DEF PodChanges
  <2>3. \A q \in Pods : Holds(q)' => Holds(q)
    BY <2>1, <2>2 DEF Holds
  <2> QED BY <1>0, <2>1, <2>3, KeptAccountedStays
<1>8. ASSUME NEW p \in Pods, DeliverPod(p) PROVE KeptAccounted(c)'
  <2>1. UNCHANGED <<apiPod, told, counted, worker, reserved, cycle>>
    BY <1>8 DEF DeliverPod
  <2>2. /\ podLister'[p].stage = apiPod[p].stage
        /\ \A q \in Pods : q # p => podLister'[q] = podLister[q]
    BY <1>0, <1>8 DEF DeliverPod, PodTypes, PodStates
  <2>3. apiPod[p].stage = "pending" => podLister[p].stage = "pending"
    BY <1>0 DEF PodsFollow, PodFollows
  <2>4. ASSUME NEW q \in Pods
        PROVE  /\ DOMAIN notices[c][q] \subseteq DOMAIN notices'[c][q]
               /\ \A k \in DOMAIN notices[c][q] : notices'[c][q][k] = notices[c][q][k]
    <3>1. PICK next : notices' = [d \in Controllers |-> [notices[d] EXCEPT ![p] = Append(@, next)]]
      BY <1>8 DEF DeliverPod
    <3>2. notices[c][q] \in Seq(PodStates) /\ notices[c] \in [Pods -> Seq(PodStates)]
      BY <1>0 DEF PodTypes
    <3>3. notices'[c][q] = IF q = p THEN Append(notices[c][q], next) ELSE notices[c][q]
      BY <3>1, <3>2
    <3>4. \A k \in DOMAIN notices[c][q] : k \in DOMAIN Append(notices[c][q], next)
                                    /\ Append(notices[c][q], next)[k] = notices[c][q][k]
      BY <3>2
    <3> QED BY <3>3, <3>4
  <2>5. \A q \in Pods : Holds(q)' <=> Holds(q)
    BY <2>1 DEF Holds, IsLive
  <2>6. ASSUME NEW q \in Pods, NEW t \in Of(c), SelectedThroughout(c, t, q)'
        PROVE  SelectedThroughout(c, t, q)
    BY <2>1, <2>4, <2>6 DEF SelectedThroughout, Selects, FirstAnswer
  <2>7. ASSUME NEW q \in Pods, NEW t \in Of(c), Holds(q)
        PROVE  /\ podLister'[q].stage = "pending" /\ Selects(t, InitialLabels[q]) =>
                    q \in reserved[t]
               /\ SelectedThroughout(c, t, q)' =>
                    /\ q \in counted[t] \cup reserved[t]
                    /\ worker[t].busy => q \in worker[t].live \cup reserved[t]
    <3>1. podLister'[q].stage = "pending" => podLister[q].stage = "pending"
      BY <2>2, <2>3
    <3> QED BY <1>0, <2>6, <2>7, <3>1 DEF KeptAccounted
  <2> QED BY <2>1, <2>5, <2>7 DEF KeptAccounted, Of, Selects, FirstAnswer
<1>9. CASE Elsewhere(c)
  <2>1. /\ UNCHANGED <<podVars, worker, reserved, cycle>>
        /\ \A t \in Of(c) : counted'[t] = counted[t]
    BY <1>9 DEF Elsewhere
  <2>2. \A q \in Pods : Holds(q)' => Holds(q)
    BY <2>1 DEF Holds, IsLive, podVars
  <2> QED BY <1>0, <2>1, <2>2, KeptAccountedStays DEF podVars
<1> QED BY <1>0, <1>6, <1>7, <1>8, <1>9, StepsOf, HandlePodAccounts, ReconcileAccounts

-----------------------------------------------------------------------------
(* Reservations are removed.                                               *)

\* What DrainsFollow says of one pod.
Drains(c, t, p) ==
    p \in reserved[t] =>
        /\ Selects(t, told[c][p].labels)
        /\ apiPod[p].stage = "pending" => cycle[p][1].pc \in {"reserved", "failed"}
        /\ told[c][p].stage # "pending" =>
            /\ ~told[c][p].deleted
            /\ \/ notices[c][p] # <<>> \/ apiPod[p].deleted
               \/ t \in ToBegin
               \/ worker[t].busy /\ p \in worker[t].live \cup worker[t].terminated
               \/ p \in Lost(c)

LEMMA DrainsFollowIs ==
    ASSUME NEW c \in Controllers
    PROVE  /\ DrainsFollow(c) <=> \A t \in Of(c), p \in Pods : Drains(c, t, p)
           /\ DrainsFollow(c)' <=> \A t \in Of(c), p \in Pods : Drains(c, t, p)'
BY DEF DrainsFollow, Drains, Of

(* Whoever is still to remove a reservation is still to do so when nothing *)
(* happens to the pod.                                                     *)
LEMMA DrainsStays ==
    ASSUME NEW c \in Controllers, NEW t \in Of(c), NEW p \in Pods, Drains(c, t, p),
           told'[c][p] = told[c][p], apiPod'[p] = apiPod[p],
           notices'[c][p] = notices[c][p], cycle'[p] = cycle[p],
           p \in reserved'[t] => p \in reserved[t],
           t \in ToBegin => t \in ToBegin', worker'[t] = worker[t]
    PROVE  Drains(c, t, p)'
BY DEF Drains, Lost, Selects, FirstAnswer

(* A pod the API server has pending is pending for lister and handlers.    *)
LEMMA PendingKnown ==
    ASSUME NEW c \in Controllers, PodsFollow(c), NEW p \in Pods, apiPod[p].stage = "pending"
    PROVE  /\ podLister[p].stage = "pending"
           /\ told[c][p].stage = "pending" /\ told[c][p].labels = InitialLabels[p]
<1>1. podLister[p].stage = "pending"
  BY DEF PodsFollow, PodFollows
<1> QED BY <1>1, KnownAtFirst

LEMMA ScheduleDrains ==
    ASSUME TypeInv, NEW c \in Controllers, Follows(c), Schedule
    PROVE  DrainsFollow(c)'
<1>0. /\ PodTypes /\ LedgerTypes /\ AsAtFirst(c) /\ PodsFollow(c) /\ CyclesFollow
      /\ \A t \in Of(c), p \in Pods : Drains(c, t, p)
  BY DrainsFollowIs DEF TypeInv, Types, Follows
<1>1. UNCHANGED <<told, notices, worker, queue>>
  BY DEF Schedule, PreFilter, Abandon, Reserve, Unreserve, BindSucceeds, podVars
<1>2. ASSUME NEW p \in Pods, NEW i \in Incarnations, NEW state, Cycle(p, i, state), i = 1,
             \A q \in Pods \ {p} : apiPod'[q] = apiPod[q],
             \A q \in Pods \ {p}, t \in Of(c) : q \in reserved'[t] => q \in reserved[t],
             \A t \in Of(c) : Drains(c, t, p)'
      PROVE  DrainsFollow(c)'
  <2>1. \A q \in Pods \ {p} : cycle'[q] = cycle[q]
    BY <1>0, <1>2 DEF Cycle, LedgerTypes
  <2>2. ASSUME NEW t \in Of(c), NEW q \in Pods PROVE Drains(c, t, q)'
    <3>1. CASE q = p
      BY <1>2, <3>1
    <3>2. CASE q # p
      BY <1>0, <1>1, <1>2, <2>1, <3>2, DrainsStays DEF ToBegin
    <3> QED BY <3>1, <3>2
  <2> QED BY <2>2, DrainsFollowIs
<1>3. ASSUME NEW p \in Pods, apiPod[p].stage = "pending",
             cycle[p][1].pc \in {"idle", "checked"}, NEW t \in Of(c)
      PROVE  p \notin reserved[t]
  BY <1>0, <1>3 DEF Drains
<1>4. ASSUME NEW p \in Pods, PreFilter(p) PROVE DrainsFollow(c)'
  <2>1. /\ apiPod[p].uid = 1 /\ apiPod[p].stage = "pending" /\ cycle[p][1].pc = "idle"
        /\ UNCHANGED <<apiPod, reserved>> /\ \E state : Cycle(p, 1, state)
    BY <1>0, <1>4 DEF PreFilter, PodsFollow, PodFollows, podVars
  <2>2. \A t \in Of(c) : Drains(c, t, p)'
    BY <1>3, <2>1 DEF Drains
  <2> QED BY <1>2, <2>1, <2>2, IncarnationsAssumption
<1>5. ASSUME NEW p \in Pods, NEW i \in Incarnations, Abandon(p, i) PROVE DrainsFollow(c)'
  <2>1. /\ i = 1 /\ apiPod[p].stage = "pending" /\ cycle[p][1].pc = "checked"
        /\ UNCHANGED <<apiPod, reserved>> /\ Cycle(p, i, NoCycle)
    BY <1>0, <1>5 DEF Abandon, CyclesFollow, podVars
  <2>2. \A t \in Of(c) : Drains(c, t, p)'
    BY <1>3, <2>1 DEF Drains
  <2> QED BY <1>2, <2>1, <2>2
<1>6. ASSUME NEW p \in Pods, NEW i \in Incarnations, Reserve(p, i) PROVE DrainsFollow(c)'
  <2>1. /\ i = 1 /\ apiPod[p].stage = "pending" /\ cycle[p][1].pc = "checked"
        /\ cycle[p][1].labels = InitialLabels[p] /\ apiPod' = apiPod
    BY <1>0, <1>6 DEF Reserve, CyclesFollow, podVars
  <2>2. PICK state : Cycle(p, 1, state) /\ state.pc \in {"reserved", "failed"}
    <3>1. cycle[p][1] \in Cycles
      BY <1>0, <2>1 DEF LedgerTypes
    <3>2. PICK pc \in {"reserved", "failed"} : Cycle(p, 1, [cycle[p][1] EXCEPT !.pc = pc])
      BY <1>6, <2>1 DEF Reserve
    <3> QED BY <3>1, <3>2 DEF Cycles
  <2>3. cycle'[p][1].pc \in {"reserved", "failed"}
    BY <1>0, <2>1, <2>2 DEF Cycle, LedgerTypes
  <2>4. ASSUME NEW t \in Of(c), p \in reserved'[t] PROVE Selects(t, InitialLabels[p])
    <3>1. p \notin reserved[t] /\ t \in Throttles
      BY <1>3, <2>1 DEF Of
    <3>2. \E d \in Controllers : t \in AffectedThrottles(d, InitialLabels[p])
      BY <1>6, <2>1, <2>4, <3>1 DEF Reserve, AddPod
    <3>3. t \in AffectedThrottles(c, InitialLabels[p])
      BY <3>2 DEF AffectedThrottles, Responsible, Of
    <3> QED BY <1>0, <3>3, AnswersAsAtFirst
  <2>5. told[c][p].stage = "pending" /\ told[c][p].labels = InitialLabels[p]
    BY <1>0, <2>1, PendingKnown
  <2>6. ASSUME NEW t \in Of(c) PROVE Drains(c, t, p)'
    BY <1>1, <2>3, <2>4, <2>5 DEF Drains, Selects, FirstAnswer
  <2>7. \A q \in Pods \ {p}, t \in Of(c) : q \in reserved'[t] => q \in reserved[t]
    BY <1>6 DEF Reserve, AddPod, Of
  <2> QED BY <1>2, <2>1, <2>2, <2>6, <2>7
<1>7. ASSUME NEW p \in Pods, NEW i \in Incarnations, Unreserve(p, i) PROVE DrainsFollow(c)'
  <2>1. /\ i = 1 /\ apiPod[p].stage = "pending" /\ apiPod' = apiPod /\ Cycle(p, i, NoCycle)
        /\ cycle[p][1].labels = InitialLabels[p]
    BY <1>0, <1>7 DEF Unreserve, CyclesFollow, podVars
  <2>2. PICK throttles :
            /\ throttles = UNION {AffectedThrottles(d, InitialLabels[p]) : d \in Controllers
                                    \ {d \in Controllers : AffectedFails(d, InitialLabels[p])}}
            /\ reserved' = RemovePod(p, throttles)
    BY <1>7, <2>1 DEF Unreserve
  <2>3. ASSUME NEW t \in Of(c) PROVE p \notin reserved'[t]
    <3>1. /\ ~AffectedFails(c, InitialLabels[p]) /\ t \in Throttles
          /\ AffectedThrottles(c, InitialLabels[p]) = {u \in Of(c) : Selects(u, InitialLabels[p])}
      BY <1>0, AnswersAsAtFirst DEF Of
    <3>2. told[c][p].labels = InitialLabels[p]
      BY <1>0, <2>1, PendingKnown
    <3>3. p \in reserved[t] => t \in throttles
      BY <1>0, <2>2, <3>1, <3>2 DEF Drains
    <3> QED BY <2>2, <3>1, <3>3 DEF RemovePod
  <2>4. \A t \in Of(c) : Drains(c, t, p)'
    BY <2>3 DEF Drains
  <2>5. \A q \in Pods \ {p}, t \in Of(c) : q \in reserved'[t] => q \in reserved[t]
    BY <2>2 DEF RemovePod, Of
  <2> QED BY <1>2, <2>1, <2>4, <2>5
<1>8. ASSUME NEW p \in Pods, NEW i \in Incarnations, BindSucceeds(p, i) PROVE DrainsFollow(c)'
  <2>1. /\ i = 1 /\ apiPod[p].stage = "pending" /\ reserved' = reserved /\ Cycle(p, i, NoCycle)
    BY <1>0, <1>8 DEF BindSucceeds, CyclesFollow
  <2>2. apiPod'[p].stage = "bound" /\ \A q \in Pods \ {p} : apiPod'[q] = apiPod[q]
    BY <1>0, <1>8 DEF BindSucceeds, PodTypes, PodStates
  <2>3. told[c][p].stage = "pending"
    BY <1>0, <2>1, PendingKnown
  <2>4. ASSUME NEW t \in Of(c) PROVE Drains(c, t, p)'
    BY <1>0, <1>1, <2>1, <2>2, <2>3 DEF Drains, Selects, FirstAnswer
  <2> QED BY <1>2, <2>1, <2>2, <2>4
<1> QED BY <1>4, <1>5, <1>6, <1>7, <1>8 DEF Schedule

LEMMA PodDrains ==
    ASSUME TypeInv, NEW c \in Controllers, Follows(c), NEW p \in Pods,
           DeliverPod(p) \/ PodChanges(p)
    PROVE  DrainsFollow(c)'
<1>0. /\ PodTypes /\ \A t \in Of(c), q \in Pods : Drains(c, t, q)
  BY DrainsFollowIs DEF TypeInv, Types, Follows
<1>1. UNCHANGED <<told, worker, reserved, cycle, queue>>
  BY DEF DeliverPod, PodChanges, PodFinishes, PodDeleted, Relabel
<1>2. \A q \in Pods \ {p} : apiPod'[q] = apiPod[q] /\ notices'[c][q] = notices[c][q]
  BY <1>0 DEF DeliverPod, PodChanges, PodFinishes, PodDeleted, Relabel, PodTypes
<1>3. /\ apiPod'[p].stage = "pending" => apiPod[p].stage = "pending"
      /\ apiPod[p].deleted => apiPod'[p].deleted
      /\ apiPod[p].stage = "finished" =>
            apiPod'[p].stage = "finished" /\ (apiPod'[p] = apiPod[p] \/ apiPod'[p].deleted
                                              \/ apiPod'[p].deleted = apiPod[p].deleted)
  <2>1. apiPod[p] \in PodStates
    BY <1>0 DEF PodTypes
  <2>2. CASE DeliverPod(p)
    BY <2>2 DEF DeliverPod
  <2>3. CASE PodFinishes(p)
    BY <1>0, <2>1, <2>3 DEF PodFinishes, IsLive, PodTypes, PodStates
  <2>4. CASE PodDeleted(p)
    BY <1>0, <2>1, <2>4 DEF PodDeleted, PodTypes, PodStates
  <2>5. CASE Relabel(p)
    BY <1>0, <2>1, <2>5 DEF Relabel, PodTypes, PodStates
  <2> QED BY <2>2, <2>3, <2>4, <2>5 DEF PodChanges
<1>4. notices[c][p] # <<>> => notices'[c][p] # <<>>
  <2>1. CASE DeliverPod(p)
    <3>1. PICK next \in PodStates : notices'[c][p] = Append(notices[c][p], next)
      BY <1>0, <2>1, DeliverStep
    <3>2. notices[c][p] \in Seq(PodStates)
      BY <1>0 DEF PodTypes
    <3> QED BY <3>1, <3>2, AppendProperties
  <2>2. CASE PodChanges(p)
    BY <2>2 DEF PodChanges, PodFinishes, PodDeleted, Relabel
  <2> QED BY <2>1, <2>2
<1>5. ASSUME NEW t \in Of(c) PROVE Drains(c, t, p)'
  <2>1. p \in Lost(c) => p \in Lost(c)' \/ apiPod'[p].deleted
    BY <1>3 DEF Lost
  <2>2. Drains(c, t, p)
    BY <1>0
  <2> QED BY <1>1, <1>3, <1>4, <2>1, <2>2 DEF Drains, Selects, FirstAnswer, ToBegin
<1>6. ASSUME NEW t \in Of(c), NEW q \in Pods, q # p PROVE Drains(c, t, q)'
  BY <1>0, <1>1, <1>2, <1>6, DrainsStays DEF ToBegin
<1>7. \A t \in Of(c), q \in Pods : Drains(c, t, q)'
  BY <1>5, <1>6
<1> QED BY <1>7, DrainsFollowIs

LEMMA HandlePodDrains ==
    ASSUME TypeInv, NoticesFollow, NEW c \in Controllers, Follows(c), NEW p \in Pods,
           NEW d \in Controllers, HandlePod(d, p)
    PROVE  DrainsFollow(c)'
<1>0. /\ PodTypes /\ LedgerTypes /\ AsAtFirst(c) /\ PodsFollow(c)
      /\ \A t \in Of(c), q \in Pods : Drains(c, t, q)
  BY DrainsFollowIs DEF TypeInv, Types, Follows
<1>1. Told(d, p) /\ UNCHANGED <<apiPod, worker, cycle>>
  BY HandleFrame
<1>2. ToBegin \subseteq ToBegin'
  BY <1>0 DEF HandlePod, HandlePodAdded, HandlePodUpdated, HandlePodDeleted, EnqueueAll, ToBegin,
              LedgerTypes, Queues
<1>3. /\ \A q \in Pods \ {p}, t \in Of(c) : q \in reserved'[t] => q \in reserved[t]
      /\ d # c => \A t \in Of(c) : reserved'[t] = reserved[t]
  <2>1. \A labels : AffectedThrottles(d, labels) \subseteq Of(d)
    BY DEF AffectedThrottles, Responsible
  <2> QED BY <1>0, <2>1 DEF HandlePod, HandlePodAdded, HandlePodUpdated, HandlePodDeleted,
                            RemovePod, LedgerTypes, Of
<1>4. ASSUME NEW t \in Of(c), NEW q \in Pods, q # p \/ d # c PROVE Drains(c, t, q)'
  <2>1. told'[c][q] = told[c][q] /\ notices'[c][q] = notices[c][q]
    BY <1>0, <1>1, <1>4, ToldStep
  <2> QED BY <1>0, <1>1, <1>2, <1>3, <1>4, <2>1, DrainsStays
<1>5. ASSUME NEW t \in Of(c), d = c PROVE Drains(c, t, p)'
  <2> DEFINE old == told[c][p]
             new == Head(notices[c][p])
  <2>1. /\ notices[c][p] # <<>> /\ told'[c][p] = new
        /\ 1 \in DOMAIN notices[c][p] /\ new = notices[c][p][1]
        /\ old \in PodStates /\ new \in PodStates
    <3>1. /\ notices[c][p] \in Seq(PodStates) /\ notices[c][p] # <<>>
          /\ told'[c][p] = new
      BY <1>0, <1>1, <1>5, ToldStep
    <3>2. old \in PodStates
      BY <1>0 DEF PodTypes
    <3> QED BY <3>1, <3>2, FirstNotice
  <2>2. /\ ~old.deleted
        /\ new.stage = "pending" => new.labels = InitialLabels[p]
        /\ old.stage = "pending" => old.labels = InitialLabels[p]
        /\ apiPod[p].stage = "pending" => new.stage = "pending" /\ old.stage = "pending"
    BY <1>0, <2>1 DEF PodsFollow, PodFollows, Seen
  <2>3. \A labels : /\ ~AffectedFails(c, labels)
                    /\ AffectedThrottles(c, labels) = {u \in Of(c) : Selects(u, labels)}
    BY <1>0, AnswersAsAtFirst
  <2>4. t \in Throttles /\ Drains(c, t, p)
    BY <1>0 DEF Of
  <2>5. CASE new.deleted
    <3>1. HandlePodDeleted(c, p)
      BY <1>5, <2>2, <2>5 DEF HandlePod, HandlePodAdded, HandlePodUpdated
    <3>2. new = [old EXCEPT !.deleted = TRUE]
      <4>1. NoticeFollows(podLister[p], old, notices[c][p])
        BY DEF NoticesFollow
      <4> HIDE DEF old, new
      <4> QED BY <2>1, <2>5, <4>1 DEF NoticeFollows
    <3>3. new.labels = old.labels /\ new.stage = old.stage
      BY <2>1, <3>2 DEF PodStates
    <3>4. CASE ShouldCountIn(new)
      <4>1. reserved' = RemovePod(p, {u \in Of(c) : Selects(u, old.labels)})
        BY <2>3, <3>1, <3>3, <3>4 DEF HandlePodDeleted
      <4>2. p \notin reserved'[t]
        BY <2>4, <4>1 DEF RemovePod, Drains
      <4> QED BY <4>2 DEF Drains
    <3>5. CASE ~ShouldCountIn(new)
      <4>1. reserved' = reserved /\ new.stage = "pending"
        BY <2>1, <3>1, <3>5 DEF HandlePodDeleted, ShouldCountIn, PodStates
      <4> HIDE DEF old, new
      <4> QED BY <1>1, <2>1, <2>4, <3>3, <4>1 DEF Drains, Selects, FirstAnswer, old
    <3> QED BY <3>4, <3>5
  <2>6. CASE ~new.deleted
    <3> DEFINE forOld == AffectedThrottles(c, old.labels)
               forNew == AffectedThrottles(c, new.labels)
    <3>1. HandlePodUpdated(c, p)
      BY <1>5, <2>2, <2>6 DEF HandlePod, HandlePodAdded, HandlePodDeleted
    <3>2. CASE ~ShouldCountIn(old) /\ ~ShouldCountIn(new)
      <4>1. reserved' = reserved
        BY <3>1, <3>2 DEF HandlePodUpdated
      <4>2. old.stage = "pending" /\ new.stage = "pending" /\ new.labels = old.labels
        BY <2>1, <2>2, <3>2 DEF ShouldCountIn, PodStates
      <4> HIDE DEF old, new
      <4> QED BY <1>1, <2>1, <2>4, <4>1, <4>2 DEF Drains, Selects, FirstAnswer, old
    <3>3. CASE ShouldCountIn(old) \/ ShouldCountIn(new)
      <4>1. /\ queue' = EnqueueAll(forOld \cup forNew)
            /\ reserved' = [u \in Throttles |->
                                IF u \in forOld \ forNew THEN reserved[u] \ {p}
                                ELSE IF u \in forNew \ forOld THEN reserved[u] \cup {p}
                                ELSE reserved[u]]
        BY <2>3, <3>1, <3>3 DEF HandlePodUpdated
      <4>2. ASSUME p \in reserved'[t] PROVE t \in forNew
        <5>1. p \in reserved[t] => t \in forOld
          BY <2>3, <2>4 DEF Drains
        <5> HIDE DEF forOld, forNew
        <5> QED BY <2>4, <4>1, <4>2, <5>1
      <4>3. t \in forNew => t \in ToBegin' /\ Selects(t, new.labels)
        BY <1>0, <2>3, <4>1 DEF EnqueueAll, ToBegin, LedgerTypes, Queues
      <4>4. apiPod[p].stage # "pending"
        BY <2>2, <3>3 DEF ShouldCountIn
      <4> HIDE DEF old, new, forNew, forOld
      <4> QED BY <1>1, <2>1, <2>6, <4>2, <4>3, <4>4 DEF Drains, Selects, FirstAnswer
    <3> QED BY <3>2, <3>3
  <2> QED BY <2>5, <2>6
<1>6. \A t \in Of(c), q \in Pods : Drains(c, t, q)'
  BY <1>4, <1>5
<1> QED BY <1>6, DrainsFollowIs

LEMMA ReconcileQueue ==
    ASSUME NEW q \in Queues(Throttles), NEW u \in Throttles
    PROVE  /\ Take(q, u) \in Queues(Throttles) /\ Done(q, u) \in Queues(Throttles)
           /\ AddRateLimited(q, u) \in Queues(Throttles)
           /\ Take(q, u).dirty = q.dirty \ {u} /\ Take(q, u).waiting = q.waiting
           /\ Done(q, u).dirty = q.dirty /\ Done(q, u).waiting = q.waiting
           /\ AddRateLimited(q, u).dirty = q.dirty
           /\ AddRateLimited(q, u).waiting = q.waiting \cup {u}
BY DEF Take, Done, AddRateLimited, Queues

(* A reconcile leaves the other throttles in the queue where they are.     *)
LEMMA OthersToBegin ==
    ASSUME LedgerTypes, NEW u \in Throttles, StartReconcile(u) \/ FinishReconcile(u)
    PROVE  \A t \in Throttles \ {u} : t \in ToBegin <=> t \in ToBegin'
<1>0. queue \in Queues(Throttles)
  BY DEF LedgerTypes
<1>1. \/ queue' \in {Take(queue, u), Done(Take(queue, u), u),
                     AddRateLimited(Done(Take(queue, u), u), u)}
      \/ queue' \in {Done(queue, u), Done(AddRateLimited(queue, u), u)}
  BY DEF StartReconcile, FinishReconcile, Retry
<1>2. PICK taken, done, again, added, retried :
        /\ taken = Take(queue, u) /\ done = Done(taken, u) /\ again = AddRateLimited(done, u)
        /\ added = AddRateLimited(queue, u) /\ retried = Done(added, u)
  OBVIOUS
<1>3. /\ taken.dirty = queue.dirty \ {u} /\ taken.waiting = queue.waiting
      /\ done.dirty = queue.dirty \ {u} /\ done.waiting = queue.waiting
      /\ again.dirty = queue.dirty \ {u} /\ again.waiting = queue.waiting \cup {u}
  <2>1. taken \in Queues(Throttles) /\ taken.dirty = queue.dirty \ {u} /\ taken.waiting = queue.waiting
    BY <1>0, <1>2, ReconcileQueue
  <2>2. done \in Queues(Throttles) /\ done.dirty = taken.dirty /\ done.waiting = taken.waiting
    BY <1>2, <2>1, ReconcileQueue
  <2> QED BY <1>2, <2>1, <2>2, ReconcileQueue
<1>4. retried.dirty = queue.dirty /\ retried.waiting = queue.waiting \cup {u}
  <2>1. added \in Queues(Throttles) /\ added.dirty = queue.dirty
        /\ added.waiting = queue.waiting \cup {u}
    BY <1>0, <1>2, ReconcileQueue
  <2> QED BY <1>2, <2>1, ReconcileQueue
<1>5. Done(queue, u).dirty = queue.dirty /\ Done(queue, u).waiting = queue.waiting
  BY <1>0, ReconcileQueue
<1>6. queue' \in {taken, done, again, retried, Done(queue, u)}
  BY <1>1, <1>2
<1>7. \A t \in Throttles \ {u} : t \in queue.dirty \cup queue.waiting
                                    <=> t \in queue'.dirty \cup queue'.waiting
  BY <1>3, <1>4, <1>5, <1>6
<1> QED BY <1>7 DEF ToBegin

LEMMA ReconcileDrains ==
    ASSUME TypeInv, NoticesFollow, NEW c \in Controllers, Follows(c), NEW u \in Throttles,
           StartReconcile(u) \/ FinishReconcile(u)
    PROVE  DrainsFollow(c)'
<1>0. /\ PodTypes /\ LedgerTypes /\ AsAtFirst(c) /\ PodsFollow(c)
      /\ \A t \in Of(c), q \in Pods : Drains(c, t, q)
  BY DrainsFollowIs DEF TypeInv, Types, Follows
<1>1. UNCHANGED <<apiPod, podLister, told, notices, cycle>>
  BY ReconcileFrame
<1>2. \A t \in Throttles \ {u} :
        /\ worker'[t] = worker[t] /\ reserved'[t] = reserved[t]
        /\ t \in ToBegin => t \in ToBegin'
  <2>1. \A t \in Throttles \ {u} : worker'[t] = worker[t] /\ reserved'[t] = reserved[t]
    BY <1>0 DEF StartReconcile, FinishReconcile, LedgerTypes
  <2> QED BY <1>0, <2>1, OthersToBegin
<1>3. ASSUME NEW t \in Of(c), NEW p \in Pods PROVE Drains(c, t, p)'
  <2>1. t \in Throttles /\ Drains(c, t, p)
    BY <1>0 DEF Of
  <2>2. CASE t # u
    BY <1>1, <1>2, <2>1, <2>2, DrainsStays
  <2>3. CASE t = u /\ StartReconcile(u)
    <3>1. reserved' = reserved
      BY <2>3 DEF StartReconcile
    <3>2. thr[t].exists /\ \A labels : Answer(t, labels) # "error"
      <4>1. \A labels : Answer(t, labels) = FirstAnswer(t, labels)
                        /\ FirstAnswer(t, labels) \in {"yes", "no"}
        BY <1>0, <2>1, AnswersAsAtFirst, FirstAnswers
      <4> QED BY <1>0, <4>1 DEF AsAtFirst
    <3>3. PICK terminated \in Terminated(t) :
            worker' = [worker EXCEPT ![t] = [busy |-> TRUE, rv |-> thr[t].rv,
                            live |-> Counts(t, "bound"), terminated |-> terminated]]
      BY <2>3, <3>2 DEF StartReconcile
    <3>4. /\ worker'[t].busy /\ worker'[t].live = Counts(t, "bound")
          /\ worker'[t].terminated = terminated
      BY <1>0, <2>1, <3>3 DEF LedgerTypes
    <3>5. ASSUME p \in reserved[t], told[c][p].stage # "pending",
                 notices[c][p] = <<>>, ~apiPod[p].deleted
          PROVE  p \in worker'[t].live \cup worker'[t].terminated \/ p \in Lost(c)
      <4>1. /\ podLister[p] = told[c][p] /\ Selects(t, told[c][p].labels)
            /\ ~told[c][p].deleted /\ podLister[p] \in PodStates
        BY <1>0, <2>1, <3>5 DEF NoticesFollow, NoticeFollows, Drains, PodTypes
      <4>2. podLister[p].stage \in {"bound", "finished"}
        BY <3>5, <4>1 DEF PodStates
      <4>3. p \in Counts(t, podLister[p].stage)
        BY <1>0, <4>1, <4>2, CountsSelected DEF ShouldCountIn
      <4>4. CASE podLister[p].stage = "bound"
        BY <3>4, <4>3, <4>4
      <4>5. CASE podLister[p].stage = "finished" /\ c = "ClusterThrottle"
        <5>1. terminated = Counts(t, "finished")
          BY <4>5 DEF Terminated, Of
        <5> QED BY <3>4, <4>3, <4>5, <5>1
      <4>6. CASE podLister[p].stage = "finished" /\ c # "ClusterThrottle"
        <5>1. apiPod[p].stage = "finished"
          BY <1>0, <4>6 DEF PodsFollow, PodFollows
        <5> QED BY <3>5, <4>6, <5>1 DEF Lost
      <4> QED BY <4>2, <4>4, <4>5, <4>6
    <3> QED BY <1>1, <2>1, <3>1, <3>4, <3>5 DEF Drains, Selects, FirstAnswer, Lost
  <2>4. CASE t = u /\ FinishReconcile(u)
    <3>1. thr[t].exists /\ thr[t].rv = worker[t].rv /\ worker[t].busy
      BY <1>0, <2>4 DEF AsAtFirst, FinishReconcile
    <3>2. /\ reserved'[t] = reserved[t] \ (worker[t].live \cup worker[t].terminated)
          /\ ToBegin' = ToBegin
      BY <1>0, <2>1, <2>4, <3>1 DEF FinishReconcile, Done, ToBegin, LedgerTypes, Queues
    <3> QED BY <1>1, <2>1, <3>2 DEF Drains, Selects, FirstAnswer, Lost
  <2> QED BY <2>2, <2>3, <2>4
<1> QED BY <1>3, DrainsFollowIs

LEMMA DrainsFollowStep ==
    ASSUME TypeInv, NoticesFollow, [Next]_vars, NEW c \in Controllers, Undisturbed(c)', Follows(c)
    PROVE  DrainsFollow(c)'
<1>0. /\ AsAtFirst(c) /\ \A t \in Of(c), p \in Pods : Drains(c, t, p)
  BY DrainsFollowIs DEF Follows
<1>1. CASE Elsewhere(c)
  <2>1. ASSUME NEW t \in Of(c), NEW p \in Pods PROVE Drains(c, t, p)'
    BY <1>0, <1>1, DrainsStays DEF Elsewhere, podVars, Of
  <2> QED BY <2>1, DrainsFollowIs
<1> QED BY <1>0, <1>1, StepsOf, ScheduleDrains, PodDrains, HandlePodDrains, ReconcileDrains

-----------------------------------------------------------------------------
LEMMA AssignmentInvStep ==
    TypeInv /\ HandlingInv /\ AssignmentInv /\ [Next]_vars => AssignmentInv'
<1> SUFFICES ASSUME TypeInv, HandlingInv, AssignmentInv, [Next]_vars PROVE AssignmentInv'
  OBVIOUS
<1>1. ASSUME NEW c \in Controllers, Undisturbed(c)' PROVE Follows(c)'
  <2>1. Follows(c) /\ NoticesFollow
    BY <1>1, DisturbedGrows, AssignmentInvIs DEF HandlingInv
  <2>2. AsAtFirst(c)'
    BY <1>1, <2>1, AsAtFirstStep DEF Follows
  <2>3. PodsFollow(c)'
    BY <1>1, <2>1, PodsFollowStep
  <2>4. CyclesFollow'
    BY <1>1, <2>1, CyclesFollowStep
  <2>5. ListsFollow(c)'
    BY <1>1, <2>1, ListsFollowStep
  <2>6. KeptAccounted(c)'
    BY <1>1, <2>1, KeptAccountedStep
  <2>7. DrainsFollow(c)'
    BY <1>1, <2>1, DrainsFollowStep
  <2> QED BY <2>2, <2>3, <2>4, <2>5, <2>6, <2>7 DEF Follows
<1>2. \A c \in Controllers : Undisturbed(c)' => Follows(c)'
  BY <1>1
<1> QED BY <1>2 DEF AssignmentInv, Follows, Controllers

LEMMA AssignmentInvAlways == Spec => []AssignmentInv
<1>1. Init => AssignmentInv
  BY AssignmentInvInit
<1>2. TypeInv /\ HandlingInv /\ AssignmentInv /\ [Next]_vars => AssignmentInv'
  BY AssignmentInvStep
<1> QED BY <1>1, <1>2, TypeInvAlways, HandlingInvAlways, PTL DEF Spec

(* A pod that holds its place, in the scheduler or in the cluster, is in   *)
(* the status or in the reservation cache of every throttle that selects   *)
(* it, through relabelling, reconciles and failures of others, until a     *)
(* change concerns its controller.                                         *)
THEOREM AlwaysAccountedFor == Spec => []Accounted
<1>1. ASSUME HandlingInv, AssignmentInv PROVE Accounted
  <2> SUFFICES ASSUME NEW c \in Controllers, NEW p \in Pods,
                      Undisturbed(c), Holds(p), notices[c][p] = <<>>,
                      NEW t \in AffectedThrottles(c, podLister[p].labels)
               PROVE  p \in counted[t] \cup reserved[t]
    BY DEF Accounted
  <2>1. Follows(c)
    BY <1>1, AssignmentInvIs
  <2>2. t \in Of(c) /\ Selects(t, podLister[p].labels)
    BY <2>1, AnswersAsAtFirst DEF Follows
  <2>3. podLister[p] = told[c][p]
    BY <1>1 DEF HandlingInv, NoticesFollow, NoticeFollows
  <2>4. SelectedThroughout(c, t, p)
    BY <2>2, <2>3 DEF SelectedThroughout
  <2> QED BY <2>1, <2>2, <2>4 DEF Follows, KeptAccounted
<1> QED BY <1>1, HandlingInvAlways, AssignmentInvAlways, PTL

(* Once an undisturbed controller has caught up it has no reservation left *)
(* (Unreserve, the handlers and reconcile have removed their own), but for *)
(* the terminated pods the Throttle's affectedPods loses.                  *)
THEOREM ReservationsAllDrain == Spec => []DrainedWhenQuiet
<1>1. ASSUME TypeInv, HandlingInv, AssignmentInv PROVE DrainedWhenQuiet
  <2> SUFFICES ASSUME NEW c \in Controllers, Undisturbed(c), Quiet(c), NEW t \in Of(c),
                      NEW p \in reserved[t]
               PROVE  p \in Lost(c)
    BY DEF DrainedWhenQuiet
  <2>0. t \in Throttles /\ p \in Pods
    BY <1>1 DEF TypeInv, Types, LedgerTypes, Of
  <2>1. Drains(c, t, p) /\ t \in Throttles
    BY <1>1, <2>0, AssignmentInvIs, DrainsFollowIs DEF Follows
  <2>2. /\ podLister = apiPod /\ notices[c][p] = <<>> /\ cycle[p][1] = NoCycle
        /\ t \notin ToBegin /\ ~worker[t].busy
    BY <1>1, <2>0, <2>1, IncarnationsAssumption DEF Quiet, ToBegin, HandlingInv, BusyIsProcessing
  <2>3. told[c][p] = apiPod[p]
    <3>1. NoticeFollows(podLister[p], told[c][p], notices[c][p])
      BY <1>1, <2>0 DEF HandlingInv, NoticesFollow
    <3> QED BY <2>2, <3>1 DEF NoticeFollows
  <2> QED BY <2>1, <2>2, <2>3 DEF Drains, NoCycle
<1> QED BY <1>1, TypeInvAlways, HandlingInvAlways, AssignmentInvAlways, PTL

-----------------------------------------------------------------------------
(* Statuses are put right.                                                 *)

\* What CountsFollow says of one throttle.
CountsAre(c, t) ==
    t \notin thrNotices \cup ToBegin =>
        /\ worker[t].busy => worker[t].rv = thr[t].rv
        /\ \A p \in Pods : Settled(c, t, p) =>
            (CountsIn(t, told[c][p])
                <=> p \in IF worker[t].busy THEN worker[t].live ELSE counted[t])

AllValid(c) == \A t \in Of(c) : IsValid(thr[t].selector)

LEMMA CountInvIs ==
    /\ CountInv <=> \A c \in Controllers : Heard(c) =>
                        AllValid(c) /\ \A t \in Responsible(c) : CountsAre(c, t)
    /\ CountInv' <=> \A c \in Controllers : Heard(c)' =>
                        AllValid(c)' /\ \A t \in Of(c) : t \in Responsible(c)' => CountsAre(c, t)'
<1>1. \A c \in Controllers :
        /\ CountsFollow(c) <=> \A t \in Responsible(c) : CountsAre(c, t)
        /\ CountsFollow(c)' <=> \A t \in Of(c) : t \in Responsible(c)' => CountsAre(c, t)'
  BY DEF CountsFollow, CountsAre, Responsible, Of
<1> QED BY <1>1 DEF CountInv, AllValid, Controllers, Of

LEMMA NeverFails ==
    ASSUME TypeInv, NEW c \in Controllers, AllValid(c), NEW labels
    PROVE  /\ \A t \in Of(c) : Answer(t, labels) # "error"
           /\ ~AffectedFails(c, labels)
<1>1. ASSUME NEW t \in Of(c) PROVE Answer(t, labels) # "error"
  <2>1. thr[t].selector \in TermSequences /\ IsValid(thr[t].selector)
    BY SelectorsAssumption DEF AllValid, TypeInv, Types, ThrottleTypes, Of
  <2> QED BY <2>1, ValidAnswers DEF Answer
<1> QED BY <1>1 DEF AffectedFails, Responsible

(* A reconcile lists the pods that its status should count.                *)
LEMMA ListedAreCounted ==
    ASSUME TypeInv, NEW t \in Throttles, NEW p \in Pods
    PROVE  p \in Counts(t, "bound") <=> CountsIn(t, podLister[p])
<1>1. thr[t].selector \in TermSequences
  BY SelectorsAssumption DEF TypeInv, Types, ThrottleTypes
<1>2. ASSUME Kind[t] = "ClusterThrottle", Answer(t, podLister[p].labels) = "yes"
      PROVE  ClusterMatchesToNamespace(thr[t].selector, namespace) = "yes"
  <2>1. ClusterMatchesToPod(thr[t].selector, podLister[p].labels, namespace) # "no"
    BY <1>2 DEF Answer
  <2> QED BY <1>1, <2>1, NamespacesFirstLosesNothing DEF TermSequences
<1> QED BY <1>2 DEF Counts, Countable, CountsIn, IsLive, ShouldCountIn

\* Nothing changes that a status of c goes by.
Calm(c) ==
    /\ UNCHANGED <<told, notices, thr, worker, counted>>
    /\ c = "ClusterThrottle" => namespace' = namespace
    /\ thrNotices \cup ToBegin \subseteq thrNotices' \cup ToBegin'

LEMMA StepsHeard ==
    ASSUME TypeInv, [Next]_vars, NEW c \in Controllers, Heard(c)'
    PROVE  \/ Calm(c)
           \/ \E p \in Pods : DeliverPod(p) \/ \E d \in Controllers : HandlePod(d, p)
           \/ \E t \in Throttles : StartReconcile(t) \/ FinishReconcile(t) \/ EditThrottle(t)
<1>0. LedgerTypes
  BY DEF TypeInv, Types
<1>1. CASE Schedule
  BY <1>1 DEF Schedule, PreFilter, Abandon, Reserve, Unreserve, BindSucceeds, podVars, thrVars,
              Calm, ToBegin
<1>2. ASSUME NEW t \in Throttles, HandleThrottle(t) \/ Resync(t) \/ RetryExpires(t)
      PROVE  Calm(c)
  <2>1. thrNotices \cup ToBegin \subseteq thrNotices' \cup ToBegin'
    BY <1>0, <1>2 DEF HandleThrottle, Resync, RetryExpires, Enqueue, Expire, ToBegin, LedgerTypes,
                      Queues, thrVars
  <2> QED BY <1>2, <2>1 DEF HandleThrottle, Resync, RetryExpires, Calm, podVars, thrVars
<1>3. ASSUME NEW p \in Pods, PodFinishes(p) \/ PodDeleted(p) \/ Relabel(p) \/ RecreatePod(p)
      PROVE  Calm(c)
  BY <1>3 DEF PodFinishes, PodDeleted, Relabel, RecreatePod, thrVars, Calm, ToBegin
<1>4. CASE RelabelNamespace
  <2>1. disturbed' = disturbed \cup (({"ClusterThrottle"} \cap Controllers) \X {"relabelNamespace"})
    BY <1>4 DEF RelabelNamespace, Change
  <2>2. c # "ClusterThrottle"
    <3> SUFFICES ASSUME c = "ClusterThrottle" PROVE FALSE
      OBVIOUS
    <3>1. <<c, "relabelNamespace">> \in disturbed'
      BY <2>1
    <3> QED BY <3>1 DEF Heard
  <2> QED BY <1>4, <2>2 DEF RelabelNamespace, podVars, Calm, ToBegin
<1>5. CASE UNCHANGED vars
  BY <1>5 DEF vars, podVars, thrVars, Calm, ToBegin
<1> QED BY <1>1, <1>2, <1>3, <1>4, <1>5 DEF Next, Reconcile, Environment, EditThrottle

LEMMA HeardGrows ==
    ASSUME ChangesCounted, [Next]_vars, NEW c \in Controllers, Heard(c)'
    PROVE  Heard(c)
<1>1. ASSUME NEW p \in Pods, RecreatePod(p) PROVE Heard(c)
  <2>1. \A d \in disturbed : d[2] = "recreatePod"
    BY <1>1 DEF RecreatePod, ChangesCounted
  <2>2. <<c, "relabelNamespace">> \notin disturbed /\ <<c, "breakSelector">> \notin disturbed
    BY <2>1
  <2> QED BY <2>2 DEF Heard
<1> QED BY <1>1, DisturbedOnlyGrows DEF Heard

LEMMA ValidStep ==
    ASSUME TypeInv, [Next]_vars, NEW c \in Controllers, Heard(c)', AllValid(c)
    PROVE  AllValid(c)'
<1>1. ASSUME thr' = thr PROVE AllValid(c)'
  BY <1>1 DEF AllValid, IsValid, Of
<1>2. ASSUME NEW u \in Throttles, EditThrottle(u), NEW t \in Of(c)
      PROVE  IsValid(thr[t].selector)'
  <2>1. thr \in [Throttles -> Objects] /\ t \in Throttles /\ Kind[t] = c
    BY DEF TypeInv, Types, ThrottleTypes, Of
  <2>2. thr'[t].selector = thr[t].selector \/ (t = u /\ EditSelector(u))
    <3>1. \/ EditSelector(u)
          \/ \E object : /\ thr' = [thr EXCEPT ![u] = [object EXCEPT !.rv = @ + 1]]
                         /\ object \in {[thr[u] EXCEPT !.responsible = ~@],
                                        [thr[u] EXCEPT !.exists = FALSE],
                                        [thr[u] EXCEPT !.exists = TRUE]}
      BY <1>2 DEF EditThrottle, EditThrottlerName, DeleteThrottle, CreateThrottle, PutThrottle
    <3>2. ASSUME NEW object,
                 object \in {[thr[u] EXCEPT !.responsible = ~@], [thr[u] EXCEPT !.exists = FALSE],
                             [thr[u] EXCEPT !.exists = TRUE]}
          PROVE  [object EXCEPT !.rv = @ + 1].selector = thr[u].selector
      BY <2>1, <3>2 DEF Objects
    <3>3. ASSUME NEW new, thr' = [thr EXCEPT ![u] = new]
          PROVE  thr'[t] = IF t = u THEN new ELSE thr[t]
      BY <2>1, <3>3
    <3>4. CASE EditSelector(u)
      <4>1. \E new : thr' = [thr EXCEPT ![u] = new]
        BY <3>4 DEF EditSelector, PutThrottle
      <4> QED BY <3>3, <3>4, <4>1
    <3>5. CASE ~EditSelector(u)
      <4>1. PICK object :
              /\ object \in {[thr[u] EXCEPT !.responsible = ~@], [thr[u] EXCEPT !.exists = FALSE],
                             [thr[u] EXCEPT !.exists = TRUE]}
              /\ thr' = [thr EXCEPT ![u] = [object EXCEPT !.rv = @ + 1]]
        BY <3>1, <3>5
      <4> DEFINE new == [object EXCEPT !.rv = @ + 1]
      <4>2. new.selector = thr[u].selector
        BY <3>2, <4>1
      <4>3. thr' = [thr EXCEPT ![u] = new]
        BY <4>1
      <4> HIDE DEF new
      <4> QED BY <3>3, <4>2, <4>3
    <3> QED BY <3>4, <3>5
  <2>3. CASE thr'[t].selector = thr[t].selector
    BY <2>3 DEF AllValid, IsValid
  <2>4. CASE t = u /\ EditSelector(u)
    <3>1. PICK s \in EditedSelectors[u] :
            /\ ~IsValid(s) => Change("breakSelector", {Kind[u]})
            /\ PutThrottle(u, [thr[u] EXCEPT !.selector = s])
      BY <2>4 DEF EditSelector
    <3>2. thr'[t].selector = s
      BY <2>1, <2>4, <3>1 DEF PutThrottle, Objects
    <3>3. IsValid(s)
      <4> SUFFICES ASSUME ~IsValid(s) PROVE FALSE
        OBVIOUS
      <4>1. <<c, "breakSelector">> \in disturbed'
        BY <2>1, <2>4, <3>1 DEF Change
      <4> QED BY <4>1 DEF Heard
    <3> QED BY <3>2, <3>3 DEF IsValid
  <2> QED BY <2>2, <2>3, <2>4
<1>3. ASSUME NEW u \in Throttles, EditThrottle(u) PROVE AllValid(c)'
  BY <1>2, <1>3 DEF AllValid, Of
<1>4. ASSUME NEW p \in Pods, DeliverPod(p) \/ \E d \in Controllers : HandlePod(d, p)
      PROVE  thr' = thr
  BY <1>4, HandleFrame DEF DeliverPod, thrVars
<1> QED BY <1>1, <1>3, <1>4, StepsHeard, ReconcileFrame DEF Calm

(* A handler that is told of a change in whom a throttle counts has it     *)
(* reconciled.                                                             *)
LEMMA HandlersEnqueue ==
    ASSUME TypeInv, NoticesFollow, NEW c \in Controllers, AllValid(c), NEW p \in Pods,
           HandlePod(c, p), NEW t \in Responsible(c),
           ~(CountsIn(t, told[c][p]) <=> CountsIn(t, Head(notices[c][p])))
    PROVE  t \in queue'.dirty
<1> DEFINE old == told[c][p]
           new == Head(notices[c][p])
<1>1. /\ old \in PodStates /\ new \in PodStates /\ notices[c][p] # <<>>
      /\ 1 \in DOMAIN notices[c][p] /\ new = notices[c][p][1]
  <2>1. PodTypes /\ Told(c, p)
    BY HandleFrame DEF TypeInv, Types
  <2>2. notices[c][p] \in Seq(PodStates) /\ notices[c][p] # <<>> /\ old \in PodStates
    BY <2>1, ToldStep DEF PodTypes
  <2> QED BY <2>2, FirstNotice
<1>2. \A labels : ~AffectedFails(c, labels)
  BY NeverFails
<1>3. ASSUME NEW pod, CountsIn(t, pod)
      PROVE  ShouldCountIn(pod) /\ ~pod.deleted /\ t \in AffectedThrottles(c, pod.labels)
  BY <1>3 DEF CountsIn, IsLive, ShouldCountIn, AffectedThrottles
<1>4. queue \in Queues(Throttles)
  BY DEF TypeInv, Types, LedgerTypes
<1>5. ASSUME NEW throttles, queue' = EnqueueAll(throttles), t \in throttles PROVE t \in queue'.dirty
  BY <1>4, <1>5 DEF EnqueueAll, Queues
<1>6. CASE HandlePodAdded(c, p)
  <2>1. CountsIn(t, new)
    BY <1>6 DEF HandlePodAdded, CountsIn, IsLive
  <2>2. queue' = EnqueueAll(AffectedThrottles(c, new.labels))
    BY <1>2, <1>3, <1>6, <2>1 DEF HandlePodAdded
  <2> QED BY <1>3, <1>5, <2>1, <2>2
<1>7. CASE HandlePodUpdated(c, p)
  <2>1. CountsIn(t, old) \/ CountsIn(t, new)
    OBVIOUS
  <2>2. queue' = EnqueueAll(AffectedThrottles(c, old.labels) \cup AffectedThrottles(c, new.labels))
    BY <1>2, <1>3, <1>7, <2>1 DEF HandlePodUpdated
  <2> QED BY <1>3, <1>5, <2>1, <2>2
<1>8. CASE HandlePodDeleted(c, p)
  <2>1. new.deleted /\ CountsIn(t, old)
    BY <1>8 DEF HandlePodDeleted, CountsIn, IsLive
  <2>2. new.labels = old.labels /\ new.stage = old.stage
    <3>1. NoticeFollows(podLister[p], old, notices[c][p])
      BY DEF NoticesFollow
    <3>2. new = [old EXCEPT !.deleted = TRUE]
      <4> HIDE DEF old, new
      <4> QED BY <1>1, <2>1, <3>1 DEF NoticeFollows
    <3> QED BY <1>1, <3>2 DEF PodStates
  <2>3. queue' = EnqueueAll(AffectedThrottles(c, old.labels))
    BY <1>2, <1>3, <1>8, <2>1, <2>2 DEF HandlePodDeleted, ShouldCountIn
  <2> QED BY <1>3, <1>5, <2>1, <2>3
<1> QED BY <1>6, <1>7, <1>8 DEF HandlePod

(* Whom a throttle should count stays as it is when neither its object nor *)
(* the namespace it asks changes.                                          *)
LEMMA CountsInStays ==
    ASSUME NEW c \in Controllers, NEW t \in Of(c), thr'[t] = thr[t],
           c = "ClusterThrottle" => namespace' = namespace
    PROVE  \A pod : CountsIn(t, pod)' <=> CountsIn(t, pod)
BY DEF CountsIn, Answer, IsLive, Of

LEMMA CountsStay ==
    ASSUME NEW c \in Controllers, NEW t \in Of(c), CountsAre(c, t),
           thr'[t] = thr[t], worker'[t] = worker[t], counted'[t] = counted[t],
           c = "ClusterThrottle" => namespace' = namespace,
           t \in thrNotices \cup ToBegin => t \in thrNotices' \cup ToBegin',
           told'[c] = told[c], notices'[c] = notices[c]
    PROVE  CountsAre(c, t)'
<1> SUFFICES ASSUME t \notin thrNotices \cup ToBegin
             PROVE  /\ worker[t].busy => worker[t].rv = thr[t].rv
                    /\ \A p \in Pods : Settled(c, t, p)' =>
                        (CountsIn(t, told[c][p])'
                            <=> p \in IF worker[t].busy THEN worker[t].live ELSE counted[t])
  BY DEF CountsAre
<1>1. ASSUME NEW p \in Pods
      PROVE  /\ CountsIn(t, told[c][p])' <=> CountsIn(t, told[c][p])
             /\ Settled(c, t, p)' <=> Settled(c, t, p)
  <2>1. CountsIn(t, told[c][p])' <=> CountsIn(t, told[c][p])
    BY DEF CountsIn, Answer, IsLive, Of
  <2>2. \A k \in DOMAIN notices[c][p] :
            CountsIn(t, notices[c][p][k])' <=> CountsIn(t, notices[c][p][k])
    BY DEF CountsIn, Answer, IsLive, Of
  <2> QED BY <2>1, <2>2 DEF Settled
<1> QED BY <1>1 DEF CountsAre

(* The pods that t counts, when neither t nor the namespace changes.       *)
LEMMA WantedPods ==
    ASSUME PodTypes, PodTypes', NEW c \in Controllers, NEW t \in Throttles,
           thr'[t] = thr[t], namespace' = namespace
    PROVE  \E wanted : \A q \in Pods :
            /\ CountsIn(t, podLister[q]) <=> podLister[q] \in wanted
            /\ CountsIn(t, told[c][q]) <=> told[c][q] \in wanted
            /\ CountsIn(t, told[c][q])' <=> told'[c][q] \in wanted
            /\ Settled(c, t, q) <=>
                \A k \in DOMAIN notices[c][q] :
                    notices[c][q][k] \in wanted <=> told[c][q] \in wanted
            /\ Settled(c, t, q)' <=>
                \A k \in DOMAIN notices'[c][q] :
                    notices'[c][q][k] \in wanted <=> told'[c][q] \in wanted
<1>1. PICK wanted : wanted = {pod \in PodStates : CountsIn(t, pod)}
  OBVIOUS
<1>2. SUFFICES ASSUME NEW q \in Pods
      PROVE  /\ CountsIn(t, podLister[q]) <=> podLister[q] \in wanted
             /\ CountsIn(t, told[c][q]) <=> told[c][q] \in wanted
             /\ CountsIn(t, told[c][q])' <=> told'[c][q] \in wanted
             /\ Settled(c, t, q) <=>
                \A k \in DOMAIN notices[c][q] :
                    notices[c][q][k] \in wanted <=> told[c][q] \in wanted
             /\ Settled(c, t, q)' <=>
                \A k \in DOMAIN notices'[c][q] :
                    notices'[c][q][k] \in wanted <=> told'[c][q] \in wanted
  OBVIOUS
<1>3. /\ podLister[q] \in PodStates /\ told[c][q] \in PodStates /\ told'[c][q] \in PodStates
      /\ notices[c][q] \in Seq(PodStates) /\ notices'[c][q] \in Seq(PodStates)
  BY DEF PodTypes
<1>4. /\ \A k \in DOMAIN notices[c][q] : notices[c][q][k] \in PodStates
      /\ \A k \in DOMAIN notices'[c][q] : notices'[c][q][k] \in PodStates
  BY <1>3
<1>5. \A pod \in PodStates :
        pod \in wanted <=>
            /\ pod.stage = "bound" /\ ~pod.deleted
            /\ IF Kind[t] = "ClusterThrottle"
               THEN ClusterMatchesToPod(thr[t].selector, pod.labels, namespace) = "yes"
               ELSE MatchesToPod(thr[t].selector, pod.labels) = "yes"
  BY <1>1 DEF CountsIn, Answer, IsLive
<1> HIDE <1>1
<1>6. /\ CountsIn(t, podLister[q]) <=> podLister[q] \in wanted
      /\ CountsIn(t, told[c][q]) <=> told[c][q] \in wanted
      /\ CountsIn(t, told[c][q])' <=> told'[c][q] \in wanted
  BY <1>3, <1>5 DEF CountsIn, Answer, IsLive
<1>7. \A k \in DOMAIN notices[c][q] :
        CountsIn(t, notices[c][q][k]) <=> notices[c][q][k] \in wanted
  BY <1>4, <1>5 DEF CountsIn, Answer, IsLive
<1>8. \A k \in DOMAIN notices'[c][q] :
        CountsIn(t, notices[c][q][k])' <=> notices'[c][q][k] \in wanted
  BY <1>4, <1>5 DEF CountsIn, Answer, IsLive
<1> QED BY <1>6, <1>7, <1>8 DEF Settled

(* The lister and the handlers go on.                                      *)
LEMMA PodCounts ==
    ASSUME TypeInv, TypeInv', NoticesFollow, NEW c \in Controllers, AllValid(c),
           NEW t \in Responsible(c), CountsAre(c, t),
           NEW p \in Pods, DeliverPod(p) \/ \E d \in Controllers : HandlePod(d, p)
    PROVE  CountsAre(c, t)'
<1>0. PodTypes /\ PodTypes' /\ LedgerTypes /\ t \in Of(c) /\ t \in Throttles
  BY DEF TypeInv, Types, Responsible, Of
<1>1. UNCHANGED <<namespace, thr, counted, worker>>
  BY HandleFrame DEF DeliverPod, thrVars
<1>2. ToBegin \subseteq ToBegin' /\ thrNotices' = thrNotices
  <2>1. CASE DeliverPod(p)
    BY <2>1 DEF DeliverPod, ToBegin, thrVars
  <2>2. ASSUME NEW d \in Controllers, HandlePod(d, p) PROVE ToBegin \subseteq ToBegin'
    BY <1>0, <2>2 DEF HandlePod, HandlePodAdded, HandlePodUpdated, HandlePodDeleted, EnqueueAll,
                      ToBegin, LedgerTypes, Queues
  <2>3. ASSUME NEW d \in Controllers, HandlePod(d, p) PROVE thrNotices' = thrNotices
    BY <2>3, HandleFrame DEF Told, thrVars
  <2> QED BY <2>1, <2>2, <2>3
<1>3. ASSUME t \notin thrNotices' \cup ToBegin', NEW q \in Pods, Settled(c, t, q)'
      PROVE  Settled(c, t, q) /\ (CountsIn(t, told[c][q])' <=> CountsIn(t, told[c][q]))
  <2>0. PICK wanted : \A r \in Pods :
            /\ CountsIn(t, podLister[r]) <=> podLister[r] \in wanted
            /\ CountsIn(t, told[c][r]) <=> told[c][r] \in wanted
            /\ CountsIn(t, told[c][r])' <=> told'[c][r] \in wanted
            /\ Settled(c, t, r) <=>
                \A k \in DOMAIN notices[c][r] :
                    notices[c][r][k] \in wanted <=> told[c][r] \in wanted
            /\ Settled(c, t, r)' <=>
                \A k \in DOMAIN notices'[c][r] :
                    notices'[c][r][k] \in wanted <=> told'[c][r] \in wanted
    BY <1>0, <1>1, WantedPods
  <2>1. \A k \in DOMAIN notices'[c][q] : notices'[c][q][k] \in wanted <=> told'[c][q] \in wanted
    BY <1>3, <2>0
  <2>2. CASE told'[c][q] = told[c][q] /\ notices'[c][q] = notices[c][q]
    BY <2>0, <2>1, <2>2
  <2>3. CASE DeliverPod(p)
    <3>1. told' = told
      BY <2>3 DEF DeliverPod
    <3>2. notices[c][q] \in Seq(PodStates)
      BY <1>0 DEF PodTypes
    <3>3. notices'[c][q] = notices[c][q] \/ \E next : notices'[c][q] = Append(notices[c][q], next)
      BY <1>0, <2>3, DeliverStep
    <3>4. ASSUME NEW next, notices'[c][q] = Append(notices[c][q], next), NEW k \in DOMAIN notices[c][q]
          PROVE  k \in DOMAIN notices'[c][q] /\ notices'[c][q][k] = notices[c][q][k]
      BY <3>2, <3>4
    <3>5. \A k \in DOMAIN notices[c][q] : notices[c][q][k] \in wanted <=> told[c][q] \in wanted
      BY <2>1, <3>1, <3>3, <3>4
    <3> QED BY <2>0, <3>1, <3>5
  <2>4. ASSUME NEW d \in Controllers, HandlePod(d, p), d # c \/ q # p
        PROVE  told'[c][q] = told[c][q] /\ notices'[c][q] = notices[c][q]
    BY <1>0, <2>4, HandleFrame, ToldStep
  <2>5. CASE HandlePod(c, p) /\ q = p
    <3> DEFINE pending == notices[c][p]
               rest == notices'[c][p]
               n == Len(pending)
    <3>1. /\ pending \in Seq(PodStates) /\ pending # <<>>
          /\ told'[c][p] = Head(pending) /\ rest = Tail(pending)
      BY <1>0, <2>5, HandleFrame, ToldStep
    <3> HIDE DEF pending, rest
    <3>2. /\ n \in Nat \ {0} /\ DOMAIN pending = 1..n /\ Head(pending) = pending[1]
          /\ DOMAIN rest = 1..(n - 1) /\ \A k \in 1..(n - 1) : rest[k] = pending[k + 1]
      BY <3>1, FirstNotice
    <3>3. CountsIn(t, told[c][p]) <=> CountsIn(t, Head(notices[c][p]))
      <4>1. t \notin queue'.dirty
        BY <1>3 DEF ToBegin
      <4> QED BY <2>5, <4>1, HandlersEnqueue
    <3>4. CountsIn(t, Head(notices[c][p])) <=> CountsIn(t, told[c][p])'
      <4>1. told'[c][p] = Head(notices[c][p])
        BY <3>1 DEF pending
      <4> QED BY <1>1, <4>1 DEF CountsIn, Answer, IsLive
    <3>5. told'[c][p] \in wanted <=> told[c][p] \in wanted
      BY <2>0, <3>3, <3>4
    <3> HIDE DEF n
    <3>6. \A k \in 1..n : pending[k] \in wanted <=> told[c][p] \in wanted
      <4> SUFFICES ASSUME NEW k \in 1..n PROVE pending[k] \in wanted <=> told[c][p] \in wanted
        OBVIOUS
      <4>1. CASE k = 1
        BY <3>1, <3>2, <3>5, <4>1
      <4>2. CASE k # 1
        <5>1. k - 1 \in 1..(n - 1) /\ (k - 1) + 1 = k
          BY <3>2, <4>2
        <5>2. rest[k - 1] = pending[k] /\ k - 1 \in DOMAIN rest
          BY <3>2, <5>1
        <5>3. rest[k - 1] \in wanted <=> told'[c][p] \in wanted
          BY <2>1, <2>5, <5>2 DEF rest
        <5> QED BY <3>5, <5>2, <5>3
      <4> QED BY <4>1, <4>2
    <3>7. Settled(c, t, p)
      BY <2>0, <3>2, <3>6 DEF pending
    <3> QED BY <2>5, <3>3, <3>4, <3>7
  <2> QED BY <2>2, <2>3, <2>4, <2>5
<1> QED BY <1>1, <1>2, <1>3 DEF CountsAre

(* A reconcile lists the pods that are to be counted, and its update meets *)
(* no edit, or it is tried again.                                          *)
LEMMA ReconcileCounts ==
    ASSUME TypeInv, TypeInv', NoticesFollow, NEW c \in Controllers, AllValid(c),
           NEW t \in Responsible(c), CountsAre(c, t),
           NEW u \in Throttles, StartReconcile(u) \/ FinishReconcile(u)
    PROVE  CountsAre(c, t)'
<1>0. /\ PodTypes /\ PodTypes' /\ LedgerTypes
      /\ t \in Of(c) /\ t \in Throttles /\ thr[t].exists
  BY DEF TypeInv, Types, Responsible, Of
<1>1. UNCHANGED <<podLister, told, notices, namespace, thr>> /\ thrNotices' = thrNotices
  BY ReconcileFrame DEF StartReconcile, FinishReconcile, thrVars
<1>2. CASE t # u
  <2>1. worker'[t] = worker[t] /\ counted'[t] = counted[t]
    BY <1>0, <1>2 DEF StartReconcile, FinishReconcile, LedgerTypes
  <2>2. t \in thrNotices \cup ToBegin => t \in thrNotices' \cup ToBegin'
    BY <1>0, <1>1, <1>2, OthersToBegin
  <2> QED BY <1>0, <1>1, <2>1, <2>2, CountsStay
<1>3. CASE t = u /\ StartReconcile(u)
  <2>1. \A labels : Answer(t, labels) # "error"
    BY <1>0, NeverFails
  <2>2. PICK terminated \in Terminated(t) :
            worker' = [worker EXCEPT ![t] = [busy |-> TRUE, rv |-> thr[t].rv,
                            live |-> Counts(t, "bound"), terminated |-> terminated]]
    BY <1>0, <1>3, <2>1 DEF StartReconcile
  <2>3. worker'[t].busy /\ worker'[t].rv = thr'[t].rv /\ worker'[t].live = Counts(t, "bound")
    BY <1>0, <1>1, <2>2 DEF LedgerTypes
  <2>4. ASSUME NEW p \in Pods, Settled(c, t, p)'
        PROVE  CountsIn(t, told[c][p])' <=> p \in worker'[t].live
    <3>0. PICK wanted : \A r \in Pods :
            /\ CountsIn(t, podLister[r]) <=> podLister[r] \in wanted
            /\ CountsIn(t, told[c][r]) <=> told[c][r] \in wanted
            /\ CountsIn(t, told[c][r])' <=> told'[c][r] \in wanted
            /\ Settled(c, t, r) <=>
                \A k \in DOMAIN notices[c][r] :
                    notices[c][r][k] \in wanted <=> told[c][r] \in wanted
            /\ Settled(c, t, r)' <=>
                \A k \in DOMAIN notices'[c][r] :
                    notices'[c][r][k] \in wanted <=> told'[c][r] \in wanted
      BY <1>0, <1>1, WantedPods
    <3>1. \A k \in DOMAIN notices[c][p] :
            notices[c][p][k] \in wanted <=> told[c][p] \in wanted
      BY <1>1, <2>4, <3>0
    <3>2. podLister[p] \in wanted <=> told[c][p] \in wanted
      <4>1. NoticeFollows(podLister[p], told[c][p], notices[c][p])
        BY DEF NoticesFollow
      <4>2. CASE notices[c][p] = <<>>
        BY <4>1, <4>2 DEF NoticeFollows
      <4>3. CASE notices[c][p] # <<>>
        <5>1. notices[c][p] \in Seq(PodStates)
          BY <1>0 DEF PodTypes
        <5>2. Len(notices[c][p]) \in DOMAIN notices[c][p]
          BY <4>3, <5>1, FirstNotice
        <5>3. podLister[p] = notices[c][p][Len(notices[c][p])]
          BY <4>1, <4>3 DEF NoticeFollows
        <5> QED BY <3>1, <5>2, <5>3
      <4> QED BY <4>2, <4>3
    <3>3. p \in Counts(t, "bound") <=> CountsIn(t, podLister[p])
      BY <1>0, ListedAreCounted
    <3> QED BY <1>1, <2>3, <3>0, <3>2, <3>3
  <2> QED BY <2>3, <2>4 DEF CountsAre
<1>4. CASE t = u /\ FinishReconcile(u)
  <2>0. worker[t].busy /\ worker' = [worker EXCEPT ![t] = NoReconcile]
    BY <1>4 DEF FinishReconcile
  <2>1. ~worker'[t].busy
    BY <1>0, <2>0 DEF NoReconcile, LedgerTypes
  <2> SUFFICES ASSUME t \notin thrNotices' \cup ToBegin', NEW p \in Pods, Settled(c, t, p)'
               PROVE  CountsIn(t, told[c][p])' <=> p \in counted'[t]
    BY <2>1 DEF CountsAre
  <2>2. t \notin thrNotices \cup ToBegin
    <3>1. queue \in Queues(Throttles)
      BY <1>0 DEF LedgerTypes
    <3>2. queue' = Done(queue, t) \/ queue' = Done(AddRateLimited(queue, t), t)
      BY <1>4 DEF FinishReconcile, Retry
    <3>3. Done(queue, t).dirty = queue.dirty /\ Done(queue, t).waiting = queue.waiting
      BY <1>0, <3>1, ReconcileQueue
    <3>4. Done(AddRateLimited(queue, t), t).waiting = queue.waiting \cup {t}
      <4> DEFINE added == AddRateLimited(queue, t)
      <4>1. added \in Queues(Throttles) /\ added.waiting = queue.waiting \cup {t}
        BY <1>0, <3>1, ReconcileQueue
      <4> HIDE DEF added
      <4>2. Done(added, t).waiting = added.waiting
        BY <1>0, <4>1, ReconcileQueue
      <4> QED BY <4>1, <4>2 DEF added
    <3> QED BY <1>1, <3>2, <3>3, <3>4 DEF ToBegin
  <2>3. worker[t].rv = thr[t].rv
    BY <2>0, <2>2 DEF CountsAre
  <2>4. counted'[t] = worker[t].live
    BY <1>0, <1>4, <2>3 DEF FinishReconcile, LedgerTypes
  <2>5. /\ CountsIn(t, told[c][p])' <=> CountsIn(t, told[c][p])
        /\ Settled(c, t, p)
    <3>1. CountsIn(t, told[c][p])' <=> CountsIn(t, told[c][p])
      BY <1>1 DEF CountsIn, Answer, IsLive
    <3>2. \A k \in DOMAIN notices[c][p] :
            CountsIn(t, notices[c][p][k])' <=> CountsIn(t, notices[c][p][k])
      BY <1>1 DEF CountsIn, Answer, IsLive
    <3> QED BY <1>1, <3>1, <3>2 DEF Settled
  <2> QED BY <2>0, <2>2, <2>4, <2>5 DEF CountsAre
<1> QED BY <1>2, <1>3, <1>4

(* An edit of a throttle that is reconciled has its handler called.        *)
LEMMA EditCounts ==
    ASSUME TypeInv, NEW c \in Controllers, NEW t \in Of(c), t \in Responsible(c) => CountsAre(c, t),
           NEW u \in Throttles, EditThrottle(u), t \in Responsible(c)'
    PROVE  CountsAre(c, t)'
<1>0. /\ t \in Throttles /\ thr \in [Throttles -> Objects]
      /\ counted \in [Throttles -> SUBSET Pods]
  BY DEF TypeInv, Types, ThrottleTypes, LedgerTypes, Of
<1>1. PICK object : PutThrottle(u, object)
  BY DEF EditThrottle, EditSelector, EditThrottlerName, DeleteThrottle, CreateThrottle
<1>2. PICK new : new = [object EXCEPT !.rv = @ + 1]
  OBVIOUS
<1>3. /\ thr' = [thr EXCEPT ![u] = new]
      /\ thrNotices' = IF object.responsible THEN thrNotices \cup {u} ELSE thrNotices
      /\ UNCHANGED <<told, notices, namespace, queue, worker>>
  BY <1>1, <1>2 DEF PutThrottle, podVars
<1>4. counted' = counted \/ counted' = [counted EXCEPT ![u] = {}]
  BY DEF EditThrottle, EditSelector, EditThrottlerName, DeleteThrottle, CreateThrottle
<1>5. ToBegin' = ToBegin
  BY <1>3 DEF ToBegin
<1>6. CASE t = u
  <2>1. object.responsible
    <3>1. thr'[t] = new
      BY <1>0, <1>3, <1>6
    <3>2. new.responsible
      BY <3>1 DEF Responsible
    <3> QED BY <1>2, <3>2
  <2>2. t \in thrNotices'
    BY <1>3, <1>6, <2>1
  <2> QED BY <2>2 DEF CountsAre
<1>7. CASE t # u
  <2>1. thr'[t] = thr[t] /\ counted'[t] = counted[t] /\ worker'[t] = worker[t]
    BY <1>0, <1>3, <1>4, <1>7
  <2>2. t \in Responsible(c)
    BY <2>1 DEF Responsible
  <2> QED BY <1>3, <1>5, <2>1, <2>2, CountsStay
<1> QED BY <1>6, <1>7

LEMMA CountInvStep ==
    ASSUME TypeInv, TypeInv', HandlingInv, CountInv, [Next]_vars
    PROVE  CountInv'
<1> SUFFICES ASSUME NEW c \in Controllers, Heard(c)'
             PROVE  AllValid(c)' /\ \A t \in Of(c) : t \in Responsible(c)' => CountsAre(c, t)'
  BY CountInvIs
<1>1. AllValid(c) /\ \A t \in Responsible(c) : CountsAre(c, t)
  BY HeardGrows, CountInvIs DEF HandlingInv
<1>2. AllValid(c)'
  BY <1>1, ValidStep
<1>3. ASSUME NEW t \in Of(c), t \in Responsible(c)' PROVE CountsAre(c, t)'
  <2>1. ASSUME thr' = thr PROVE t \in Responsible(c) /\ CountsAre(c, t)
    BY <1>1, <1>3, <2>1 DEF Responsible
  <2>2. CASE Calm(c)
    <3>1. CountsAre(c, t)
      BY <2>1, <2>2 DEF Calm
    <3> QED BY <2>2, <3>1, CountsStay DEF Calm
  <2>3. ASSUME NEW p \in Pods, DeliverPod(p) \/ \E d \in Controllers : HandlePod(d, p)
        PROVE  CountsAre(c, t)'
    <3>1. thr' = thr
      BY <2>3, HandleFrame DEF DeliverPod, thrVars
    <3> QED BY <1>1, <2>1, <2>3, <3>1, PodCounts DEF HandlingInv
  <2>4. ASSUME NEW u \in Throttles, StartReconcile(u) \/ FinishReconcile(u)
        PROVE  CountsAre(c, t)'
    <3>1. thr' = thr
      BY <2>4, ReconcileFrame
    <3> QED BY <1>1, <2>1, <2>4, <3>1, ReconcileCounts DEF HandlingInv
  <2>5. ASSUME NEW u \in Throttles, EditThrottle(u) PROVE CountsAre(c, t)'
    BY <1>1, <1>3, <2>5, EditCounts
  <2> QED BY <2>2, <2>3, <2>4, <2>5, StepsHeard
<1> QED BY <1>2, <1>3

LEMMA CountInvInit == Init => CountInv
<1> SUFFICES ASSUME Init, NEW c \in Controllers
             PROVE  AllValid(c) /\ \A t \in Responsible(c) : CountsAre(c, t)
  BY CountInvIs
<1>1. AllValid(c)
  <2> SUFFICES ASSUME NEW t \in Of(c) PROVE IsValid(thr[t].selector)
    BY DEF AllValid
  <2>1. t \in Throttles /\ thr[t].selector = InitialSelector[t]
    BY DEF Init, Of
  <2> QED BY <2>1, SelectorsAssumption
<1>2. ASSUME NEW t \in Responsible(c) PROVE CountsAre(c, t)
  <2>1. ~worker[t].busy /\ counted[t] = {} /\ \A p \in Pods : told[c][p].stage = "pending"
    BY DEF Init, NoReconcile, Responsible, Of
  <2> QED BY <2>1 DEF CountsAre, CountsIn, IsLive
<1> QED BY <1>1, <1>2

LEMMA CountInvAlways == Spec => []CountInv
<1>1. Init => CountInv
  BY CountInvInit
<1>2. TypeInv /\ TypeInv' /\ HandlingInv /\ CountInv /\ [Next]_vars => CountInv'
  BY CountInvStep
<1> QED BY <1>1, <1>2, TypeInvAlways, HandlingInvAlways, PTL DEF Spec

(* Once a controller has caught up, the status of each of its throttles    *)
(* counts the live pods it selects and no others, whatever was relabelled, *)
(* edited, deleted or given to another throttler, as long as its handlers  *)
(* heard of it.                                                            *)
THEOREM StatusesCountTheLive == Spec => []CountedWhenQuiet
<1>1. ASSUME TypeInv, HandlingInv, CountInv PROVE CountedWhenQuiet
  <2> SUFFICES ASSUME NEW c \in Controllers, Heard(c), Quiet(c), NEW t \in Responsible(c)
               PROVE  counted[t] = Live(t)
    BY DEF CountedWhenQuiet
  <2>0. t \in Throttles /\ t \in Of(c) /\ counted[t] \subseteq Pods
    BY <1>1 DEF TypeInv, Types, LedgerTypes, Responsible, Of
  <2>1. CountsAre(c, t)
    BY <1>1, CountInvIs
  <2>2. /\ podLister = apiPod /\ t \notin thrNotices \cup ToBegin /\ ~worker[t].busy
        /\ \A p \in Pods : notices[c][p] = <<>>
    BY <1>1, <2>0 DEF Quiet, ToBegin, HandlingInv, BusyIsProcessing
  <2>3. ASSUME NEW p \in Pods PROVE p \in counted[t] <=> CountsIn(t, apiPod[p])
    <3>1. told[c][p] = apiPod[p]
      <4>1. NoticeFollows(podLister[p], told[c][p], notices[c][p])
        BY <1>1 DEF HandlingInv, NoticesFollow
      <4> QED BY <2>2, <4>1 DEF NoticeFollows
    <3>2. Settled(c, t, p)
      BY <2>2 DEF Settled
    <3> QED BY <2>1, <2>2, <3>1, <3>2 DEF CountsAre
  <2> QED BY <2>0, <2>3 DEF Live, CountsIn
<1> QED BY <1>1, TypeInvAlways, HandlingInvAlways, CountInvAlways, PTL
=============================================================================

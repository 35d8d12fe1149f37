----------------------- MODULE ThrottleAdmission_proofs ----------------------
(***************************************************************************)
(* Proofs that the scheduler admits no more than the threshold, for any    *)
(* set of pods, requests and threshold, and that ThrottleController        *)
(* implements Admission.                                                   *)
(***************************************************************************)
EXTENDS ThrottleAdmission, LedgerInvariants_proofs, Operators_proofs

(* Sums of what pods request.                                              *)
LEMMA UsedType ==
    ASSUME NEW S, S \subseteq Pods, NEW r
    PROVE  /\ Amount(Used(S)) /\ IsFiniteSet(S)
           /\ Quantity(Used(S), r) \in Nat
           /\ Quantity(Used(S), r) = Sum(Request, S, r)
<1>1. IsFiniteSet(S) /\ \A p \in S : Amount(Request[p])
  BY PodsAssumption, RequestAssumption, FS_Subset
<1>2. Amount(Used(S))
  BY <1>1, TotalType DEF Used
<1> QED BY <1>1, <1>2, QuantityType DEF Used, Sum

LEMMA UsedCovered ==
    ASSUME NEW A, A \subseteq Pods, NEW B, B \subseteq Pods, NEW S, S \subseteq A \cup B, NEW r
    PROVE  Quantity(Used(S), r) <= Quantity(Used(A), r) + Quantity(Used(B), r)
<1>1. /\ Quantity(Used(A), r) = Sum(Request, A, r) /\ IsFiniteSet(A)
      /\ Quantity(Used(B), r) = Sum(Request, B, r) /\ IsFiniteSet(B)
      /\ Quantity(Used(S), r) = Sum(Request, S, r)
  <2>1. S \subseteq Pods
    OBVIOUS
  <2> QED BY <2>1, UsedType
<1>2. \A p \in A \cup B : Amount(Request[p])
  BY RequestAssumption
<1>3. Sum(Request, S, r) <= Sum(Request, A, r) + Sum(Request, B, r)
  BY <1>1, <1>2, SumCovered
<1> QED BY <1>1, <1>3

LEMMA UsedWith ==
    ASSUME NEW S, S \subseteq Pods, NEW p \in Pods, NEW r
    PROVE  /\ Quantity(Request[p], r) \in Nat
           /\ Quantity(Used(S \cup {p}), r) <= Quantity(Used(S), r) + Quantity(Request[p], r)
<1>1. Amount(Request[p]) /\ Quantity(Request[p], r) \in Nat
  BY RequestAssumption, QuantityType
<1>2. IsFiniteSet(S) /\ \A q \in S : Amount(Request[q])
  BY UsedType, RequestAssumption
<1>3. /\ Quantity(Used(S), r) = Sum(Request, S, r) /\ Quantity(Used(S), r) \in Nat
      /\ Quantity(Used(S \cup {p}), r) = Sum(Request, S \cup {p}, r)
  <2>1. S \cup {p} \subseteq Pods
    OBVIOUS
  <2> QED BY <2>1, UsedType
<1>4. Sum(Request, S \cup {p}, r)
        = Sum(Request, S, r) + (IF p \in S THEN 0 ELSE Quantity(Request[p], r))
  BY <1>1, <1>2, SumWith
<1> QED BY <1>1, <1>3, <1>4

LEMMA UsedMonotonic ==
    ASSUME NEW S, NEW T, S \subseteq T, T \subseteq Pods, NEW r
    PROVE  Quantity(Used(S), r) <= Quantity(Used(T), r)
<1>1. Quantity(Used(S), r) <= Quantity(Used(T), r) + Quantity(Used({}), r)
  <2>1. {} \subseteq Pods /\ S \subseteq T \cup {}
    OBVIOUS
  <2> QED BY <2>1, UsedCovered
<1>2. Quantity(Used({}), r) = 0
  BY TotalUnfolded, FS_EmptySet DEF Used, Quantity, NoAmount
<1>3. Quantity(Used(S), r) \in Nat /\ Quantity(Used(T), r) \in Nat
  <2>1. S \subseteq Pods
    OBVIOUS
  <2> QED BY <2>1, UsedType
<1> QED BY <1>1, <1>2, <1>3

-----------------------------------------------------------------------------
(* PreFilter.                                                              *)

(* A torn read has of each resource the amount of one of the two values.   *)
LEMMA TornRead ==
    ASSUME NEW count, NEW requests, Amount(count), Amount(requests)
    PROVE  /\ Amount(Torn(count, requests))
           /\ \A r : Quantity(Torn(count, requests), r)
                       \in {Quantity(count, r), Quantity(requests, r)}
<1>1. Amount(Torn(count, requests))
  BY DEF Amount, Torn
<1>2. \A r : Quantity(Torn(count, requests), r)
               = IF r = "pod" THEN Quantity(count, r) ELSE Quantity(requests, r)
  BY DEF Torn, Quantity
<1> QED BY <1>1, <1>2

(* Each amount a reader may find in the status, with the reservations read *)
(* before, covers the pods that hold resources.                            *)
LEMMA ValuesCover ==
    ASSUME TypeOK, LedgerInv, Healthy, ReadsEnough, sched.pc = "read", sched.rv = listerRv,
           NEW u \in {object[listerRv]}
                \cup {NewUsed(w) : w \in {x \in Workers : At(x, "compare")
                                                          /\ worker[x].rv = listerRv}}
    PROVE  \E C \in SUBSET Pods : u = Used(C) /\ Holders \subseteq C \cup sched.reserved
<1>1. reserved \subseteq sched.reserved
  BY DEF ReadsEnough
<1>2. CASE u = object[listerRv]
  <2>1. PICK C \in SUBSET Pods :
            /\ object[listerRv] = Used(C)
            /\ \A p \in Pods : Holds(p) => p \in C \cup reserved
    BY LedgersAccountNow DEF Accounted
  <2> QED BY <1>1, <1>2, <2>1 DEF Holders
<1>3. ASSUME NEW w \in Workers, At(w, "compare"), u = NewUsed(w)
      PROVE  \E C \in SUBSET Pods : u = Used(C) /\ Holders \subseteq C \cup sched.reserved
  <2>1. worker[w].live \in SUBSET Pods
    BY DEF TypeOK, Reconciles
  <2>2. \A p \in Pods : Holds(p) => p \in worker[w].live \cup (reserved \ worker[w].todo)
    BY <1>3 DEF LedgerInv, Ledgers, ReconcileAccounts, At
  <2>3. u = Used(worker[w].live)
    BY <1>3 DEF NewUsed
  <2> QED BY <1>1, <2>1, <2>2, <2>3 DEF Holders
<1> QED BY <1>2, <1>3

LEMMA StatusCovers ==
    ASSUME TypeOK, LedgerInv, Healthy, ReadsEnough, sched.pc = "read", sched.rv = listerRv,
           NEW status \in ReadableStatuses(sched.rv)
    PROVE  /\ Amount(status.used)
           /\ EffectiveThreshold(status) = Threshold
           /\ \A r : /\ Quantity(status.used, r) \in Nat
                     /\ Quantity(Used(Holders), r)
                          <= Quantity(status.used, r) + Quantity(Used(sched.reserved), r)
<1> DEFINE values == {object[sched.rv]}
                \cup {NewUsed(w) : w \in {x \in Workers : At(x, "compare")
                                                          /\ worker[x].rv = sched.rv}}
           flags  == {IsThrottled(Threshold, u, TRUE) : u \in values}
<1>0. ReadableStatuses(sched.rv)
        = {Status(Torn(u1, u2), Torn(f1, f2)) : u1, u2 \in values, f1, f2 \in flags}
  BY DEF ReadableStatuses
<1> HIDE DEF values, flags
<1>1. PICK u1 \in values, u2 \in values :
        \E f1, f2 : status = Status(Torn(u1, u2), Torn(f1, f2))
  BY <1>0
<1>2. status.used = Torn(u1, u2) /\ EffectiveThreshold(status) = Threshold
  BY <1>1 DEF Status, EffectiveThreshold
<1>3. Holders \subseteq Pods /\ sched.reserved \subseteq Pods
  BY DEF Holders, TypeOK, Cycles
<1>4. ASSUME NEW u \in values
      PROVE  /\ Amount(u)
             /\ \A r : /\ Quantity(u, r) \in Nat
                       /\ Quantity(Used(Holders), r)
                            <= Quantity(u, r) + Quantity(Used(sched.reserved), r)
  <2>1. PICK C \in SUBSET Pods : u = Used(C) /\ Holders \subseteq C \cup sched.reserved
    BY ValuesCover DEF values
  <2>2. C \subseteq Pods
    OBVIOUS
  <2>3. Amount(u) /\ \A r : Quantity(u, r) \in Nat
    BY <2>1, <2>2, UsedType
  <2>4. \A r : Quantity(Used(Holders), r)
                 <= Quantity(Used(C), r) + Quantity(Used(sched.reserved), r)
    BY <1>3, <2>1, <2>2, UsedCovered
  <2> QED BY <2>1, <2>3, <2>4
<1>5. Amount(status.used)
      /\ \A r : Quantity(status.used, r) \in {Quantity(u1, r), Quantity(u2, r)}
  BY <1>2, <1>4, TornRead
<1> QED BY <1>2, <1>4, <1>5

(* A pod that passes CheckThrottledFor has its room.                       *)
LEMMA PassingHasRoom ==
    ASSUME TypeOK, LedgerInv, Healthy, ReadsEnough, sched.pc = "read", sched.rv = listerRv,
           NEW p \in Pods, NEW status \in ReadableStatuses(sched.rv),
           CheckThrottled(Request[p], status, Used(sched.reserved)) = "not-throttled"
    PROVE  HasRoom(p)
<1>1. /\ Amount(status.used) /\ EffectiveThreshold(status) = Threshold
      /\ \A r : /\ Quantity(status.used, r) \in Nat
                /\ Quantity(Used(Holders), r)
                     <= Quantity(status.used, r) + Quantity(Used(sched.reserved), r)
  BY StatusCovers
<1>2. Holders \subseteq Pods /\ sched.reserved \subseteq Pods
  BY DEF Holders, TypeOK, Cycles
<1>3. Amount(Request[p]) /\ Amount(Used(sched.reserved)) /\ WellFormed(status)
  BY <1>1, <1>2, RequestAssumption, ThresholdAssumption, UsedType DEF WellFormed
<1>4. \E onEqual : CheckWith(status, Request[p], Used(sched.reserved), FALSE, onEqual)
                     = "not-throttled"
  BY DEF CheckThrottled, ThrottleCheck, ClusterThrottleCheck
<1>5. Fits(Threshold, status.used, Used(sched.reserved), Request[p])
  BY <1>1, <1>3, <1>4, PassingFits
<1> SUFFICES ASSUME NEW r \in DOMAIN Threshold, Quantity(Request[p], r) # 0
             PROVE  Quantity(Used(Holders \cup {p}), r) <= Threshold[r]
  BY DEF HasRoom
<1>6. r \in DOMAIN Request[p] /\ Quantity(Request[p], r) = Request[p][r]
  BY DEF Quantity
<1>7. Quantity(status.used, r) + Quantity(Used(sched.reserved), r) + Request[p][r]
        <= Threshold[r]
  BY <1>5, <1>6 DEF Fits
<1>8. /\ Quantity(Used(Holders \cup {p}), r)
           <= Quantity(Used(Holders), r) + Quantity(Request[p], r)
      /\ Quantity(Request[p], r) \in Nat
  BY <1>2, UsedWith
<1>9. /\ Quantity(Used(Holders), r) \in Nat
      /\ Quantity(Used(sched.reserved), r) \in Nat
      /\ Quantity(Used(Holders \cup {p}), r) \in Nat
  <2>1. Holders \cup {p} \subseteq Pods
    BY <1>2
  <2> QED BY <1>2, <2>1, UsedType
<1>10. Threshold[r] \in Nat
  BY ThresholdAssumption DEF Amount
<1> QED BY <1>1, <1>6, <1>7, <1>8, <1>9, <1>10

-----------------------------------------------------------------------------
(* Every step.                                                             *)

(* Less to hold leaves more room.                                          *)
LEMMA RoomGrows ==
    ASSUME Holders' \subseteq Holders
    PROVE  /\ \A p \in Pods : HasRoom(p) => HasRoom(p)'
           /\ (\A r \in DOMAIN Threshold : Quantity(Used(Holders), r) <= Threshold[r])
                => \A r \in DOMAIN Threshold : Quantity(Used(Holders'), r) <= Threshold[r]
<1>1. \A r \in DOMAIN Threshold : Threshold[r] \in Nat
  BY ThresholdAssumption DEF Amount
<1>2. ASSUME NEW S, NEW T, S \subseteq T, T \subseteq Pods, NEW r \in DOMAIN Threshold,
             Quantity(Used(T), r) <= Threshold[r]
      PROVE  Quantity(Used(S), r) <= Threshold[r]
  <2>1. S \subseteq Pods
    BY <1>2
  <2>2. Quantity(Used(S), r) \in Nat /\ Quantity(Used(T), r) \in Nat
    BY <1>2, <2>1, UsedType
  <2>3. Quantity(Used(S), r) <= Quantity(Used(T), r)
    BY <1>2, UsedMonotonic
  <2> QED BY <1>1, <1>2, <2>2, <2>3
<1>3. Holders \subseteq Pods
  BY DEF Holders
<1>4. ASSUME NEW p \in Pods, HasRoom(p) PROVE HasRoom(p)'
  <2>1. Holders' \cup {p} \subseteq Holders \cup {p} /\ Holders \cup {p} \subseteq Pods
    BY <1>3
  <2>2. \A r \in DOMAIN Threshold : Quantity(Request[p], r) # 0
          => Quantity(Used(Holders' \cup {p}), r) <= Threshold[r]
    BY <1>2, <1>4, <2>1 DEF HasRoom
  <2> QED BY <2>2 DEF HasRoom
<1> QED BY <1>2, <1>3, <1>4

LEMMA NoOverAdmissionIs ==
    NoOverAdmission
      <=> (faults = {} => \A r \in DOMAIN Threshold : Quantity(Used(Holders), r) <= Threshold[r])
BY DEF NoOverAdmission, Holders

(* Steps that admit nobody and reserve nobody.                             *)
LEMMA Shrinks ==
    ASSUME TypeOK, AdmissionInv, Holders' \subseteq Holders, faults \subseteq faults',
           \/ reserved' \subseteq reserved /\ UNCHANGED sched
           \/ sched'.pc \notin {"read", "passed"}
    PROVE  AdmissionInv'
<1>1. faults' = {} => faults = {}
  OBVIOUS
<1>2. ReadsEnough'
  BY DEF AdmissionInv, ReadsEnough
<1>3. PassedHasRoom'
  <2>1. \A p \in sched.pod : p \in Pods
    BY DEF TypeOK, Cycles
  <2> QED BY <1>1, <2>1, RoomGrows DEF AdmissionInv, PassedHasRoom
<1>4. NoOverAdmission'
  <2>1. faults' = {} =>
          \A r \in DOMAIN Threshold : Quantity(Used(Holders'), r) <= Threshold[r]
    BY <1>1, RoomGrows, NoOverAdmissionIs DEF AdmissionInv
  <2> QED BY <2>1 DEF NoOverAdmission, Holders
<1> QED BY <1>2, <1>3, <1>4 DEF AdmissionInv

(* A pod that is reserved holds what it requests, and its room was free.   *)
LEMMA ReserveKeepsWithin ==
    ASSUME TypeOK, AdmissionInv, faults = {}, sched.pc = "passed", NEW p \in sched.pod
    PROVE  \A r \in DOMAIN Threshold : Quantity(Used(Holders \cup {p}), r) <= Threshold[r]
<1> SUFFICES ASSUME NEW r \in DOMAIN Threshold
             PROVE  Quantity(Used(Holders \cup {p}), r) <= Threshold[r]
  OBVIOUS
<1>1. p \in Pods /\ Holders \subseteq Pods /\ Holders \cup {p} \subseteq Pods
  BY DEF TypeOK, Cycles, Holders
<1>2. CASE Quantity(Request[p], r) # 0
  BY <1>2 DEF AdmissionInv, PassedHasRoom, HasRoom
<1>3. CASE Quantity(Request[p], r) = 0
  <2>1. Quantity(Used(Holders \cup {p}), r)
          <= Quantity(Used(Holders), r) + Quantity(Request[p], r)
    BY <1>1, UsedWith
  <2>2. /\ Quantity(Used(Holders), r) \in Nat
        /\ Quantity(Used(Holders \cup {p}), r) \in Nat
        /\ Threshold[r] \in Nat
    BY <1>1, UsedType, ThresholdAssumption DEF Amount
  <2>3. Quantity(Used(Holders), r) <= Threshold[r]
    BY NoOverAdmissionIs DEF AdmissionInv
  <2> QED BY <1>3, <2>1, <2>2, <2>3
<1> QED BY <1>2, <1>3

(* Nobody but Reserve adds to what pods hold.                              *)
LEMMA HoldersStep ==
    ASSUME ReservationInv, [Next]_vars
    PROVE  \/ Holders' \subseteq Holders
           \/ Reserve
<1>0. TypeOK /\ BoundLast
  BY DEF ReservationInv
<1>1. CASE UNCHANGED <<apiPod, bind>>
  BY <1>1 DEF Holders, Holds
<1>2. ASSUME NEW w \in Workers, Reconcile(w) \/ UpdateFails(w) PROVE UNCHANGED <<apiPod, bind>>
  BY <1>2 DEF Reconcile, StartReconcile, ListAffectedPods, StatusUnchanged, StatusChanged,
              UpdateSucceeds, UpdateConflicts, UpdateFails, UnreserveAffectedPod,
              FinishReconcile, pods, scheduler
<1>3. RetryExpires \/ Inform \/ Resync \/ EditThrottle => UNCHANGED <<apiPod, bind>>
  BY DEF RetryExpires, Inform, DeliverPod, HandlePod, DeliverThrottle, HandleThrottle,
         Resync, EditThrottle, pods, scheduler
<1>4. Schedule => Reserve \/ UNCHANGED <<apiPod, bind>>
  BY DEF Schedule, PreFilter, ReadReserved, CheckThrottledFor, Abandon, pods
<1>5. ASSUME NEW p \in Pods, BindSucceeds(p) \/ BindAnswerLost(p) PROVE Holders' \subseteq Holders
  <2>1. bind[p] = "binding" /\ apiPod[p] = {} /\ p \in Holders
    BY <1>5 DEF BindSucceeds, BindAnswerLost, Holders, Holds
  <2>2. \A q \in Pods \ {p} : apiPod'[q] = apiPod[q] /\ bind'[q] = bind[q]
    BY <1>0, <1>5 DEF BindSucceeds, BindAnswerLost, TypeOK
  <2> QED BY <2>1, <2>2 DEF Holders, Holds
<1>6. ASSUME NEW p \in Pods, Unreserve(p) PROVE Holders' \subseteq Holders
  <2>1. /\ UNCHANGED apiPod /\ bind'[p] = "none"
        /\ \A q \in Pods \ {p} : bind'[q] = bind[q]
    BY <1>0, <1>6 DEF Unreserve, TypeOK, pods
  <2> QED BY <2>1 DEF Holders, Holds
<1>7. ASSUME NEW p \in Pods, PodFinishes(p) \/ PodDeleted(p) PROVE Holders' \subseteq Holders
  <2>1. PICK e \in {"finished", "deleted"} : apiPod' = [apiPod EXCEPT ![p] = apiPod[p] \cup {e}]
    BY <1>7 DEF PodFinishes, PodDeleted
  <2>2. \A q \in Pods : apiPod'[q] = apiPod[q] \/ (apiPod'[q] # {} /\ ~IsLive(apiPod'[q]))
    BY <1>0, <2>1 DEF IsLive, TypeOK
  <2>3. UNCHANGED bind
    BY <1>7 DEF PodFinishes, PodDeleted, scheduler
  <2> QED BY <2>2, <2>3 DEF Holders, Holds
<1>8. CASE Restart
  <2>1. UNCHANGED apiPod /\ \A p \in Pods : bind'[p] = "none"
    BY <1>8 DEF Restart
  <2> QED BY <2>1 DEF Holders, Holds
<1>9. CASE UNCHANGED vars
  BY <1>1, <1>9 DEF vars, pods, scheduler
<1> QED BY <1>1, <1>2, <1>3, <1>4, <1>5, <1>6, <1>7, <1>8, <1>9
        DEF Next, Bind, Environment

(* Nobody but the scheduling cycle moves it on, or reserves.               *)
LEMMA CycleStep ==
    ASSUME TypeOK, [Next]_vars
    PROVE  \/ reserved' \subseteq reserved /\ UNCHANGED sched
           \/ sched'.pc \notin {"read", "passed"}
           \/ ReadReserved \/ CheckThrottledFor
<1>1. ASSUME NEW w \in Workers, Reconcile(w) \/ UpdateFails(w)
      PROVE  reserved' \subseteq reserved /\ UNCHANGED sched
  BY <1>1 DEF Reconcile, StartReconcile, ListAffectedPods, StatusUnchanged, StatusChanged,
              UpdateSucceeds, UpdateConflicts, UpdateFails, UnreserveAffectedPod,
              FinishReconcile, scheduler
<1>2. RetryExpires \/ Inform \/ Resync \/ EditThrottle
        => reserved' \subseteq reserved /\ UNCHANGED sched
  BY DEF RetryExpires, Inform, DeliverPod, HandlePod, DeliverThrottle, HandleThrottle,
         Resync, EditThrottle, scheduler
<1>3. NoCycle.pc = "idle"
  BY DEF NoCycle
<1>4. ASSUME NEW p \in Pods, PreFilter(p) PROVE sched'.pc \notin {"read", "passed"}
  BY <1>4 DEF PreFilter, NoCycle
<1>5. Reserve \/ Abandon \/ Restart => sched'.pc \notin {"read", "passed"}
  BY <1>3 DEF Reserve, Abandon, Restart
<1>6. ASSUME NEW p \in Pods,
             BindSucceeds(p) \/ BindAnswerLost(p) \/ Unreserve(p) \/ PodFinishes(p) \/ PodDeleted(p)
      PROVE  reserved' \subseteq reserved /\ UNCHANGED sched
  BY <1>6 DEF BindSucceeds, BindAnswerLost, Unreserve, PodFinishes, PodDeleted, scheduler
<1>7. UNCHANGED vars => reserved' \subseteq reserved /\ UNCHANGED sched
  BY DEF vars, scheduler
<1> QED BY <1>1, <1>2, <1>4, <1>5, <1>6, <1>7 DEF Next, Schedule, Bind, Environment

LEMMA AdmissionInit == Init => AdmissionInv
<1> SUFFICES ASSUME Init PROVE AdmissionInv
  OBVIOUS
<1>1. sched.pc = "idle"
  BY DEF Init, NoCycle
<1>2. Holders = {}
  BY DEF Init, Holders, Holds, IsLive
<1>3. \A r : Quantity(Used({}), r) = 0
  BY TotalUnfolded, FS_EmptySet DEF Used, Quantity, NoAmount
<1>4. \A r \in DOMAIN Threshold : Threshold[r] \in Nat
  BY ThresholdAssumption DEF Amount
<1> QED BY <1>1, <1>2, <1>3, <1>4, NoOverAdmissionIs
        DEF AdmissionInv, ReadsEnough, PassedHasRoom

LEMMA AdmissionStep ==
    ReservationInv /\ LedgerInv /\ AdmissionInv /\ [Next]_vars => AdmissionInv'
<1> SUFFICES ASSUME ReservationInv, LedgerInv, AdmissionInv, [Next]_vars PROVE AdmissionInv'
  OBVIOUS
<1>0. TypeOK /\ faults \subseteq faults'
  BY FaultsGrow DEF ReservationInv
<1>1. CASE Reserve
  <2>1. PICK p \in sched.pod : bind' = [bind EXCEPT ![p] = "binding"]
    BY <1>1 DEF Reserve
  <2>2. /\ sched.pc = "passed" /\ sched'.pc = "idle"
        /\ UNCHANGED apiPod /\ faults' = faults
    BY <1>1 DEF Reserve, NoCycle, pods, history
  <2>3. Holders' \subseteq Holders \cup {p} /\ Holders \cup {p} \subseteq Pods
    BY <1>0, <2>1, <2>2 DEF Holders, Holds, TypeOK, Cycles
  <2>4. ASSUME faults = {}, NEW r \in DOMAIN Threshold
        PROVE  Quantity(Used(Holders'), r) <= Threshold[r]
    <3>1. Quantity(Used(Holders \cup {p}), r) <= Threshold[r]
      BY <1>0, <2>2, <2>4, ReserveKeepsWithin
    <3>2. Quantity(Used(Holders'), r) <= Quantity(Used(Holders \cup {p}), r)
      BY <2>3, UsedMonotonic
    <3>3. /\ Quantity(Used(Holders'), r) \in Nat
          /\ Quantity(Used(Holders \cup {p}), r) \in Nat
          /\ Threshold[r] \in Nat
      <4>1. Holders' \subseteq Pods
        BY <2>3
      <4> QED BY <2>3, <4>1, UsedType, ThresholdAssumption DEF Amount
    <3> QED BY <3>1, <3>2, <3>3
  <2>5. NoOverAdmission'
    BY <2>2, <2>4 DEF NoOverAdmission, Holders
  <2> QED BY <2>2, <2>5 DEF AdmissionInv, ReadsEnough, PassedHasRoom
<1>2. CASE Holders' \subseteq Holders
  <2>1. CASE ReadReserved
    <3>1. sched'.pc = "read" /\ sched'.reserved = reserved /\ UNCHANGED reserved
      BY <1>0, <2>1 DEF ReadReserved, TypeOK, Cycles
    <3>2. NoOverAdmission'
      <4>1. UNCHANGED <<apiPod, bind, faults>>
        BY <2>1 DEF ReadReserved, pods, history
      <4> QED BY <4>1 DEF AdmissionInv, NoOverAdmission, Holds
    <3> QED BY <3>1, <3>2 DEF AdmissionInv, ReadsEnough, PassedHasRoom
  <2>2. CASE CheckThrottledFor
    <3>0. /\ NoCycle.pc = "idle"
          /\ \A q : LET passed == [NoCycle EXCEPT !.pc = "passed", !.pod = {q}]
                   IN  passed.pc = "passed" /\ passed.pod = {q}
      BY DEF NoCycle
    <3>1. sched.pc = "read" /\ sched'.pc # "read" /\ UNCHANGED <<apiPod, bind>>
      BY <2>2, <3>0 DEF CheckThrottledFor, pods
    <3>2. faults' = {} => sched.rv = listerRv /\ faults = {}
      BY <2>2 DEF CheckThrottledFor, Note
    <3>3. NoOverAdmission'
      BY <1>0, <3>1, <3>2 DEF AdmissionInv, NoOverAdmission, Holds
    <3>4. ASSUME faults' = {}, sched'.pc = "passed", NEW p \in sched'.pod PROVE HasRoom(p)
      <4>1. PICK q \in sched.pod, status \in ReadableStatuses(sched.rv) :
              IF CheckThrottled(Request[q], status, Used(sched.reserved)) = "not-throttled"
              THEN sched' = [NoCycle EXCEPT !.pc = "passed", !.pod = {q}]
              ELSE sched' = NoCycle
        BY <2>2 DEF CheckThrottledFor
      <4>2. /\ CheckThrottled(Request[q], status, Used(sched.reserved)) = "not-throttled"
            /\ p = q
        BY <3>0, <3>4, <4>1
      <4>3. Healthy /\ ReadsEnough /\ sched.rv = listerRv
        BY <3>2, <3>4 DEF Healthy, AdmissionInv
      <4>4. p \in Pods
        BY <1>0, <4>2 DEF TypeOK, Cycles
      <4> QED BY <1>0, <3>1, <4>2, <4>3, <4>4, PassingHasRoom
    <3>5. ASSUME NEW p \in sched'.pod, HasRoom(p) PROVE HasRoom(p)'
      <4>1. Holders' = Holders
        BY <3>1 DEF Holders, Holds
      <4> QED BY <3>5, <4>1 DEF HasRoom
    <3>6. PassedHasRoom'
      BY <3>4, <3>5 DEF PassedHasRoom
    <3> QED BY <3>1, <3>3, <3>6 DEF AdmissionInv, ReadsEnough
  <2> QED BY <1>0, <1>2, <2>1, <2>2, CycleStep, Shrinks
<1> QED BY <1>1, <1>2, HoldersStep

(* The room a pod was let through with is still there when it is reserved. *)
THEOREM AdmissionKept == ASSUME SingleReconciler PROVE Spec => []AdmissionInv
<1>1. ReservationInv /\ LedgerInv /\ AdmissionInv /\ [Next]_vars => AdmissionInv'
  BY AdmissionStep
<1>2. ReservationInv /\ LedgerInv /\ [Next]_vars => LedgerInv'
  BY LedgerStep
<1> QED BY <1>1, <1>2, AdmissionInit, LedgerInit, ReservationInit, ReservationStep, PTL
        DEF Spec

(* What throttles are for: the pods that hold resources never exceed the   *)
(* threshold, in any resource, until something fails.                      *)
THEOREM NeverOverAdmitted == ASSUME SingleReconciler PROVE Spec => []NoOverAdmission
<1>1. AdmissionInv => NoOverAdmission
  BY DEF AdmissionInv
<1> QED BY <1>1, AdmissionKept, PTL

-----------------------------------------------------------------------------
(* The refinement.                                                         *)

\* The abstract pods.
Lives == [p \in Pods |-> Life(p)]

\* The promise may be given up, and is never taken up again.
LEMMA WaivedStep ==
    ASSUME faults \subseteq faults'
    PROVE  (faults' # {}) \in {faults # {}, TRUE}
<1>1. CASE faults' = {}
  <2>1. faults = {}
    BY <1>1
  <2> QED BY <1>1, <2>1, Zenon
<1>2. CASE faults' # {}
  <2>1. (faults' # {}) = TRUE
    BY <1>2, Zenon
  <2> QED BY <2>1, Zenon
<1> QED BY <1>1, <1>2

(* The abstract specification counts the pods that Holds counts.           *)
LEMMA HoldingIsHolders == Promise!Holding = Holders
BY DEF Promise!Holding, Life, Holders, Holds, IsLive

(* ... and adds up what they request the same way.                         *)
LEMMA PromisedTotal ==
    ASSUME NEW S, NEW r
    PROVE  Promise!Quantity(Promise!TotalAmount(Request, S), r)
             = Quantity(TotalAmount(Request, S), r)
<1>1. Promise!TotalAmount(Request, S) = TotalAmount(Request, S)
  BY DEF Promise!TotalAmount, TotalAmount, Promise!MapThenFoldSet, MapThenFoldSet,
         Promise!Add, Add, Promise!Quantity, Quantity, Promise!NoAmount, NoAmount
<1> QED BY <1>1 DEF Promise!Quantity, Quantity

\* Nothing happens to a pod.
LEMMA LivesStay ==
    ASSUME faults \subseteq faults', \A p \in Pods : Life(p)' = Life(p)
    PROVE  Promise!Next
<1>1. Lives' = [p \in Pods |-> IF p \in {} THEN "waiting" ELSE Lives[p]]
  BY DEF Lives
<1>2. Promise!GiveUp({})
  BY <1>1, WaivedStep DEF Promise!GiveUp, Lives
<1> QED BY <1>2 DEF Promise!Next

\* One pod moves on.
LEMMA LifeMoves ==
    ASSUME NEW p \in Pods, \A q \in Pods \ {p} : Life(q)' = Life(q)
    PROVE  Lives' = [Lives EXCEPT ![p] = Life(p)']
BY DEF Lives

LEMMA LifeEnds ==
    ASSUME NEW p \in Pods, \A q \in Pods \ {p} : Life(q)' = Life(q),
           Life(p) # "gone", Life(p)' = "gone", UNCHANGED faults
    PROVE  Promise!Next
<1>1. Lives' = [Lives EXCEPT ![p] = "gone"] /\ Lives[p] # "gone"
  BY LifeMoves DEF Lives
<1>2. Promise!End(p)
  BY <1>1 DEF Promise!End, Lives
<1> QED BY <1>2 DEF Promise!Next

LEMMA LifeRuns ==
    ASSUME NEW p \in Pods, \A q \in Pods \ {p} : Life(q)' = Life(q),
           Life(p) = "admitted", Life(p)' = "running", faults \subseteq faults'
    PROVE  Promise!Next
<1>1. Lives' = [Lives EXCEPT ![p] = "running"] /\ Lives[p] = "admitted"
  BY LifeMoves DEF Lives
<1>2. Promise!Run(p)
  BY <1>1, WaivedStep DEF Promise!Run, Lives
<1> QED BY <1>2 DEF Promise!Next

LEMMA LivesGivenUp ==
    ASSUME NEW P, P \subseteq Pods, \A p \in P : Life(p) = "admitted" /\ Life(p)' = "waiting",
           \A p \in Pods \ P : Life(p)' = Life(p), faults \subseteq faults'
    PROVE  Promise!Next
<1>1. Lives' = [p \in Pods |-> IF p \in P THEN "waiting" ELSE Lives[p]]
  BY DEF Lives
<1>2. \A p \in P : Lives[p] = "admitted"
  BY DEF Lives
<1>3. Promise!GiveUp(P)
  BY <1>1, <1>2, WaivedStep DEF Promise!GiveUp, Lives
<1> QED BY <1>3 DEF Promise!Next

LEMMA LifeAdmitted ==
    ASSUME NEW p \in Pods, \A q \in Pods \ {p} : Life(q)' = Life(q),
           Life(p) = "waiting", Life(p)' = "admitted", UNCHANGED faults,
           faults = {} => \A r \in DOMAIN Threshold :
                              Quantity(Used(Holders \cup {p}), r) <= Threshold[r]
    PROVE  Promise!Next
<1>1. Lives' = [Lives EXCEPT ![p] = "admitted"] /\ Lives[p] = "waiting"
  BY LifeMoves DEF Lives
<1>2. faults # {} \/ Promise!WithinThreshold(Promise!Holding \cup {p})
  BY HoldingIsHolders, PromisedTotal DEF Promise!WithinThreshold, Used
<1>3. Promise!Admit(p)
  BY <1>1, <1>2 DEF Promise!Admit, Lives
<1> QED BY <1>3 DEF Promise!Next

LEMMA RefinesInit == Init => Promise!Init
<1> SUFFICES ASSUME Init PROVE Promise!Init
  OBVIOUS
<1>1. \A p \in Pods : Life(p) = "waiting"
  BY DEF Init, Life, IsLive
<1>2. (faults # {}) = FALSE
  BY Zenon DEF Init
<1> QED BY <1>1, <1>2 DEF Promise!Init

(* A step of the program is a step of the promise, or none.                *)
LEMMA RefinesStep ==
    ReservationInv /\ LedgerInv /\ AdmissionInv /\ [Next]_vars => [Promise!Next]_(Promise!vars)
<1> SUFFICES ASSUME ReservationInv, LedgerInv, AdmissionInv, [Next]_vars PROVE Promise!Next
  OBVIOUS
<1>0. TypeOK /\ BoundLast /\ faults \subseteq faults'
  BY FaultsGrow DEF ReservationInv
<1>1. UNCHANGED <<apiPod, bind>> => Promise!Next
  BY <1>0, LivesStay DEF Life
<1>2. ASSUME NEW w \in Workers, Reconcile(w) \/ UpdateFails(w) PROVE UNCHANGED <<apiPod, bind>>
  BY <1>2 DEF Reconcile, StartReconcile, ListAffectedPods, StatusUnchanged, StatusChanged,
              UpdateSucceeds, UpdateConflicts, UpdateFails, UnreserveAffectedPod,
              FinishReconcile, pods, scheduler
<1>3. RetryExpires \/ Inform \/ Resync \/ EditThrottle => UNCHANGED <<apiPod, bind>>
  BY DEF RetryExpires, Inform, DeliverPod, HandlePod, DeliverThrottle, HandleThrottle,
         Resync, EditThrottle, pods, scheduler
<1>4. Schedule => Reserve \/ UNCHANGED <<apiPod, bind>>
  BY DEF Schedule, PreFilter, ReadReserved, CheckThrottledFor, Abandon, pods
<1>5. CASE Reserve
  <2>1. PICK p \in sched.pod : bind' = [bind EXCEPT ![p] = "binding"]
    BY <1>5 DEF Reserve
  <2>2. sched.pc = "passed" /\ UNCHANGED <<apiPod, faults>>
    BY <1>5 DEF Reserve, pods, history
  <2>3. p \in Pods /\ bind[p] # "binding"
    BY <1>0 DEF BoundLast, InFlight, TypeOK, Cycles
  <2>4. bind'[p] = "binding" /\ \A q \in Pods \ {p} : bind'[q] = bind[q]
    BY <1>0, <2>1, <2>3 DEF TypeOK
  <2>5. \A q \in Pods \ {p} : Life(q)' = Life(q)
    BY <2>2, <2>4 DEF Life
  <2>6. CASE apiPod[p] = {}
    <3>1. Life(p) = "waiting" /\ Life(p)' = "admitted"
      BY <2>2, <2>3, <2>4, <2>6 DEF Life, IsLive
    <3> QED BY <1>0, <2>2, <2>3, <2>5, <3>1, ReserveKeepsWithin, LifeAdmitted
  <2>7. CASE apiPod[p] # {}
    <3>1. Life(p)' = Life(p)
      BY <2>2, <2>7 DEF Life
    <3> QED BY <1>0, <2>5, <3>1, LivesStay
  <2> QED BY <2>6, <2>7
<1>6. ASSUME NEW p \in Pods, BindSucceeds(p) \/ BindAnswerLost(p) PROVE Promise!Next
  <2>1. /\ bind[p] = "binding" /\ apiPod[p] = {} /\ apiPod'[p] = {"bound"}
        /\ \A q \in Pods \ {p} : apiPod'[q] = apiPod[q] /\ bind'[q] = bind[q]
    BY <1>0, <1>6 DEF BindSucceeds, BindAnswerLost, TypeOK
  <2>2. Life(p) = "admitted" /\ Life(p)' = "running"
    BY <2>1 DEF Life, IsLive
  <2>3. \A q \in Pods \ {p} : Life(q)' = Life(q)
    BY <2>1 DEF Life
  <2> QED BY <1>0, <2>2, <2>3, LifeRuns
<1>7. ASSUME NEW p \in Pods, Unreserve(p) PROVE Promise!Next
  <2>1. /\ UNCHANGED apiPod /\ bind'[p] = "none"
        /\ \A q \in Pods \ {p} : bind'[q] = bind[q]
    BY <1>0, <1>7 DEF Unreserve, TypeOK, pods
  <2>2. \A q \in Pods \ {p} : Life(q)' = Life(q)
    BY <2>1 DEF Life
  <2>3. CASE bind[p] = "binding" /\ apiPod[p] = {}
    <3>1. Life(p) = "admitted" /\ Life(p)' = "waiting"
      BY <2>1, <2>3 DEF Life, IsLive
    <3> QED BY <1>0, <2>2, <3>1, LivesGivenUp
  <2>4. CASE ~(bind[p] = "binding" /\ apiPod[p] = {})
    <3>1. Life(p)' = Life(p)
      BY <2>1, <2>4 DEF Life
    <3> QED BY <1>0, <2>2, <3>1, LivesStay
  <2> QED BY <2>3, <2>4
<1>8. ASSUME NEW p \in Pods, PodFinishes(p) \/ PodDeleted(p) PROVE Promise!Next
  <2>1. PICK e \in {"finished", "deleted"} : apiPod' = [apiPod EXCEPT ![p] = apiPod[p] \cup {e}]
    BY <1>8 DEF PodFinishes, PodDeleted
  <2>2. apiPod'[p] = apiPod[p] \cup {e} /\ \A q \in Pods \ {p} : apiPod'[q] = apiPod[q]
    BY <1>0, <2>1 DEF TypeOK
  <2>3. UNCHANGED <<bind, faults>>
    BY <1>8 DEF PodFinishes, PodDeleted, scheduler, history
  <2>4. \A q \in Pods \ {p} : Life(q)' = Life(q)
    BY <2>2, <2>3 DEF Life
  <2>5. Life(p)' = "gone"
    BY <2>2 DEF Life, IsLive
  <2>6. CASE Life(p) = "gone"
    BY <1>0, <2>4, <2>5, <2>6, LivesStay
  <2>7. CASE Life(p) # "gone"
    BY <2>3, <2>4, <2>5, <2>7, LifeEnds
  <2> QED BY <2>6, <2>7
<1>9. CASE Restart
  <2>1. UNCHANGED apiPod /\ \A p \in Pods : bind'[p] = "none"
    BY <1>9 DEF Restart
  <2> DEFINE P == {p \in Pods : bind[p] = "binding" /\ apiPod[p] = {}}
  <2>2. \A p \in P : Life(p) = "admitted" /\ Life(p)' = "waiting"
    BY <2>1 DEF Life, IsLive
  <2>3. \A p \in Pods \ P : Life(p)' = Life(p)
    BY <2>1 DEF Life
  <2>4. P \subseteq Pods
    OBVIOUS
  <2> HIDE DEF P
  <2> QED BY <1>0, <2>2, <2>3, <2>4, LivesGivenUp
<1>10. CASE UNCHANGED vars
  BY <1>1, <1>10 DEF vars, pods, scheduler
<1> QED BY <1>1, <1>2, <1>3, <1>4, <1>5, <1>6, <1>7, <1>8, <1>9, <1>10
        DEF Next, Bind, Environment

(* The goroutines, caches and ledgers keep the promise of Admission: each  *)
(* Reserve is an admission that fits at that very moment.                  *)
THEOREM AdmissionImplemented == ASSUME SingleReconciler PROVE Spec => ImplementsAdmission
<1>1. ReservationInv /\ LedgerInv /\ AdmissionInv /\ [Next]_vars => [Promise!Next]_(Promise!vars)
  BY RefinesStep
<1>2. ReservationInv /\ LedgerInv /\ AdmissionInv /\ [Next]_vars => AdmissionInv'
  BY AdmissionStep
<1>3. ReservationInv /\ LedgerInv /\ [Next]_vars => LedgerInv'
  BY LedgerStep
<1> QED BY <1>1, <1>2, <1>3, AdmissionInit, LedgerInit, ReservationInit, ReservationStep,
           RefinesInit, PTL
        DEF Spec, ImplementsAdmission, Promise!Spec
==============================================================================

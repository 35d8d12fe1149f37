-------------------------- MODULE Operators_proofs --------------------------
(***************************************************************************)
(* Proofs about the operators that the models share: the throttle decision,*)
(* sums of requests, selectors; for any amounts, pods, selectors, labels.  *)
(***************************************************************************)
EXTENDS ResourceAmount, Selectors, FiniteSetTheorems, WellFoundedInduction, TLAPS

(* The amounts of a throttle object.                                       *)
WellFormed(thr) ==
    /\ Amount(thr.used)
    /\ Amount(EffectiveThreshold(thr))

(* A quantity is a natural number, absent keys included.                   *)
LEMMA QuantityType ==
    ASSUME NEW a, Amount(a), NEW r
    PROVE  Quantity(a, r) \in Nat
BY DEF Amount, Quantity

(* The sum of two amounts mentions the resources of both.                  *)
LEMMA AddAmount ==
    ASSUME NEW a, NEW b, Amount(a), Amount(b)
    PROVE  Amount(Add(a, b)) /\ DOMAIN Add(a, b) = DOMAIN a \cup DOMAIN b
<1>1. \A x : Quantity(a, x) \in Nat /\ Quantity(b, x) \in Nat
  BY QuantityType
<1> QED BY <1>1 DEF Amount, Add

(* Add is pointwise addition.                                              *)
LEMMA AddQuantity ==
    ASSUME NEW a, NEW b, Amount(a), Amount(b), NEW r
    PROVE  Quantity(Add(a, b), r) = Quantity(a, r) + Quantity(b, r)
<1>1. CASE r \in DOMAIN a \cup DOMAIN b
  BY <1>1 DEF Quantity, Add
<1>2. CASE r \notin DOMAIN a \cup DOMAIN b
  BY <1>2 DEF Quantity, Add
<1> QED BY <1>1, <1>2

(* With onEqual false a requested resource is over its threshold exactly   *)
(* when its quantity is.                                                   *)
LEMMA StrictlyOver ==
    ASSUME NEW threshold, NEW amount, NEW pod,
           Amount(threshold), Amount(amount), Amount(pod),
           DOMAIN pod \subseteq DOMAIN amount
    PROVE  IsThrottledFor(IsThrottled(threshold, amount, FALSE), pod)
             <=> \E r \in DOMAIN pod \cap DOMAIN threshold :
                    pod[r] # 0 /\ Quantity(amount, r) > threshold[r]
<1>1. DOMAIN IsThrottled(threshold, amount, FALSE) = DOMAIN threshold
  BY DEF IsThrottled
<1>2. ASSUME NEW r \in DOMAIN pod \cap DOMAIN threshold
      PROVE  IsThrottled(threshold, amount, FALSE)[r] <=> Quantity(amount, r) > threshold[r]
  BY DEF IsThrottled, Quantity
<1> QED BY <1>1, <1>2 DEF IsThrottledFor

(* Being at or over the threshold already leaves no room for more of a     *)
(* requested resource.                                                     *)
LEMMA AlreadyOver ==
    ASSUME NEW threshold, NEW amount, NEW pod, NEW onEqual \in BOOLEAN,
           Amount(threshold), Amount(amount), Amount(pod),
           IsThrottledFor(IsThrottled(threshold, amount, onEqual), pod)
    PROVE  \E r \in DOMAIN pod \cap DOMAIN threshold :
                pod[r] # 0 /\ Quantity(amount, r) >= threshold[r]
<1>1. DOMAIN IsThrottled(threshold, amount, onEqual) = DOMAIN threshold
  BY DEF IsThrottled
<1>2. PICK r \in DOMAIN pod \cap DOMAIN threshold :
            pod[r] # 0 /\ IsThrottled(threshold, amount, onEqual)[r]
  BY <1>1 DEF IsThrottledFor
<1>3. Quantity(amount, r) >= threshold[r]
  BY <1>2 DEF IsThrottled, Quantity, Amount
<1> QED BY <1>2, <1>3

-----------------------------------------------------------------------------
(* The chain of checks comes to one comparison, whichever way the check of *)
(* what is used already treats equality: CheckThrottledFor with            *)
(* isThrottledOnEqual = false, the only way PreFilter calls it.            *)
LEMMA CheckIsExact ==
    ASSUME NEW thr, NEW pod, NEW reserved, NEW alreadyOnEqual \in BOOLEAN,
           WellFormed(thr), Amount(pod), Amount(reserved), StatusConsistent(thr)
    PROVE  CheckWith(thr, pod, reserved, FALSE, alreadyOnEqual) = "not-throttled"
             <=> Fits(EffectiveThreshold(thr), thr.used, reserved, pod)
<1> DEFINE threshold == EffectiveThreshold(thr)
           already   == Add(thr.used, reserved)
           used      == Add(Add(thr.used, pod), reserved)
           room(r)   == Quantity(thr.used, r) + Quantity(reserved, r) + pod[r] <= threshold[r]
           exceeds   == IsThrottledFor(IsThrottled(threshold, pod, FALSE), pod)
           flagged   == IsThrottledFor(thr.throttled, pod)
           full      == IsThrottledFor(IsThrottled(threshold, already, alreadyOnEqual), pod)
           over      == IsThrottledFor(IsThrottled(threshold, used, FALSE), pod)
<1>1. /\ Amount(threshold) /\ Amount(thr.used) /\ Amount(already) /\ Amount(used)
      /\ DOMAIN pod \subseteq DOMAIN used
  <2>1. Amount(threshold) /\ Amount(thr.used)
    BY DEF WellFormed
  <2>2. Amount(Add(thr.used, pod)) /\ DOMAIN pod \subseteq DOMAIN Add(thr.used, pod)
    BY <2>1, AddAmount
  <2>3. Amount(already)
    BY <2>1, AddAmount
  <2>4. Amount(used) /\ DOMAIN pod \subseteq DOMAIN used
    BY <2>2, AddAmount
  <2> QED BY <2>1, <2>3, <2>4
<1>2. \A r : /\ Quantity(thr.used, r) \in Nat
            /\ Quantity(reserved, r) \in Nat
            /\ Quantity(already, r) = Quantity(thr.used, r) + Quantity(reserved, r)
            /\ Quantity(used, r)
                 = Quantity(thr.used, r) + Quantity(pod, r) + Quantity(reserved, r)
  <2> TAKE r
  <2>1. /\ Quantity(thr.used, r) \in Nat
        /\ Quantity(reserved, r) \in Nat
        /\ Quantity(already, r) = Quantity(thr.used, r) + Quantity(reserved, r)
    BY <1>1, AddQuantity, QuantityType
  <2>2. /\ Amount(Add(thr.used, pod))
        /\ Quantity(Add(thr.used, pod), r) = Quantity(thr.used, r) + Quantity(pod, r)
    BY <1>1, AddAmount, AddQuantity
  <2>3. Quantity(used, r) = Quantity(Add(thr.used, pod), r) + Quantity(reserved, r)
    BY <2>2, AddQuantity
  <2> QED BY <2>1, <2>2, <2>3
<1>3. \A r \in DOMAIN pod : Quantity(pod, r) = pod[r] /\ pod[r] \in Nat
  BY DEF Quantity, Amount
<1>4. \A r \in DOMAIN threshold : threshold[r] \in Nat
  BY <1>1 DEF Amount
<1>5. ASSUME NEW r \in DOMAIN pod \cap DOMAIN threshold, pod[r] # 0
      PROVE  /\ Quantity(used, r) > threshold[r] <=> ~room(r)
             /\ Quantity(pod, r) > threshold[r] => ~room(r)
             /\ Quantity(already, r) >= threshold[r] => ~room(r)
             /\ Quantity(thr.used, r) >= threshold[r] => ~room(r)
  <2> HIDE DEF threshold, already, used
  <2> QED BY <1>2, <1>3, <1>4, <1>5
<1>6. over <=> \E r \in DOMAIN pod \cap DOMAIN threshold : pod[r] # 0 /\ ~room(r)
  <2>1. over <=> \E r \in DOMAIN pod \cap DOMAIN threshold :
                    pod[r] # 0 /\ Quantity(used, r) > threshold[r]
    BY <1>1, StrictlyOver
  <2> HIDE DEF threshold, used, room, over
  <2> QED BY <2>1, <1>5
<1>7. exceeds => over
  <2>1. exceeds <=> \E r \in DOMAIN pod \cap DOMAIN threshold :
                       pod[r] # 0 /\ Quantity(pod, r) > threshold[r]
    BY <1>1, StrictlyOver
  <2> HIDE DEF threshold, room, exceeds, over
  <2> QED BY <2>1, <1>5, <1>6
<1>8. full => over
  <2>1. full => \E r \in DOMAIN pod \cap DOMAIN threshold :
                   pod[r] # 0 /\ Quantity(already, r) >= threshold[r]
    BY <1>1, AlreadyOver
  <2> HIDE DEF threshold, already, room, full, over
  <2> QED BY <2>1, <1>5, <1>6
<1>9. flagged => over
  <2>1. flagged => thr.throttled = IsThrottled(threshold, thr.used, TRUE)
    BY DEF StatusConsistent, IsThrottledFor, NoAmount
  <2>2. flagged => \E r \in DOMAIN pod \cap DOMAIN threshold :
                      pod[r] # 0 /\ Quantity(thr.used, r) >= threshold[r]
    BY <1>1, <2>1, AlreadyOver
  <2> HIDE DEF threshold, room, flagged, over
  <2> QED BY <2>2, <1>5, <1>6
<1>10. CheckWith(thr, pod, reserved, FALSE, alreadyOnEqual) = "not-throttled"
         <=> ~exceeds /\ ~flagged /\ ~full /\ ~over
  BY DEF CheckWith
<1>11. Fits(threshold, thr.used, reserved, pod)
         <=> \A r \in DOMAIN pod \cap DOMAIN threshold : pod[r] # 0 => room(r)
  BY DEF Fits
<1> HIDE DEF threshold, room, exceeds, flagged, full, over
<1>12. CheckWith(thr, pod, reserved, FALSE, alreadyOnEqual) = "not-throttled"
         <=> Fits(threshold, thr.used, reserved, pod)
  BY <1>6, <1>7, <1>8, <1>9, <1>10, <1>11
<1> QED BY <1>12 DEF threshold

(* What passes fits, whatever flags the status holds: the amounts alone    *)
(* decide (the last check of CheckThrottledFor).                           *)
LEMMA PassingFits ==
    ASSUME NEW thr, NEW pod, NEW reserved, NEW alreadyOnEqual,
           WellFormed(thr), Amount(pod), Amount(reserved),
           CheckWith(thr, pod, reserved, FALSE, alreadyOnEqual) = "not-throttled"
    PROVE  Fits(EffectiveThreshold(thr), thr.used, reserved, pod)
<1> DEFINE threshold == EffectiveThreshold(thr)
           used      == Add(Add(thr.used, pod), reserved)
<1>1. /\ Amount(threshold) /\ Amount(thr.used) /\ Amount(Add(thr.used, pod))
      /\ DOMAIN pod \subseteq DOMAIN Add(thr.used, pod)
  BY AddAmount DEF WellFormed
<1>2. Amount(used) /\ DOMAIN pod \subseteq DOMAIN used
  BY <1>1, AddAmount
<1>3. ASSUME NEW r \in DOMAIN pod
      PROVE  /\ Quantity(used, r) = Quantity(thr.used, r) + pod[r] + Quantity(reserved, r)
             /\ Quantity(thr.used, r) \in Nat /\ pod[r] \in Nat /\ Quantity(reserved, r) \in Nat
  <2>1. Quantity(used, r) = Quantity(Add(thr.used, pod), r) + Quantity(reserved, r)
    BY <1>1, AddQuantity
  <2>2. Quantity(Add(thr.used, pod), r) = Quantity(thr.used, r) + Quantity(pod, r)
    BY <1>1, AddQuantity
  <2>3. Quantity(pod, r) = pod[r]
    BY DEF Quantity
  <2> QED BY <1>1, <2>1, <2>2, <2>3, QuantityType
<1>4. ~IsThrottledFor(IsThrottled(threshold, used, FALSE), pod)
  BY DEF CheckWith
<1>5. \A r \in DOMAIN threshold : threshold[r] \in Nat
  BY <1>1 DEF Amount
<1> HIDE DEF threshold, used
<1>6. \A r \in DOMAIN pod \cap DOMAIN threshold : pod[r] # 0 => ~(Quantity(used, r) > threshold[r])
  BY <1>1, <1>2, <1>4, StrictlyOver
<1>7. \A r \in DOMAIN pod \cap DOMAIN threshold :
        pod[r] # 0 => Quantity(thr.used, r) + Quantity(reserved, r) + pod[r] <= threshold[r]
  BY <1>3, <1>5, <1>6
<1> QED BY <1>7 DEF Fits, threshold

(* A Throttle lets a pod pass exactly when every resource it requests      *)
(* stays within the threshold (Throttle.CheckThrottledFor).                *)
THEOREM ThrottleCheckIsExact ==
    ASSUME NEW thr, NEW pod, NEW reserved,
           WellFormed(thr), Amount(pod), Amount(reserved), StatusConsistent(thr)
    PROVE  ThrottleCheck(thr, pod, reserved, FALSE) = "not-throttled"
             <=> Fits(EffectiveThreshold(thr), thr.used, reserved, pod)
BY CheckIsExact DEF ThrottleCheck

(* A ClusterThrottle lets the same pods pass as a Throttle with the same   *)
(* spec and status (ClusterThrottle.CheckThrottledFor).                    *)
THEOREM BothKindsAdmitTheSamePods ==
    ASSUME NEW thr, NEW pod, NEW reserved,
           WellFormed(thr), Amount(pod), Amount(reserved), StatusConsistent(thr)
    PROVE  ClusterThrottleCheck(thr, pod, reserved, FALSE) = "not-throttled"
             <=> ThrottleCheck(thr, pod, reserved, FALSE) = "not-throttled"
BY CheckIsExact DEF ThrottleCheck, ClusterThrottleCheck

-----------------------------------------------------------------------------
(* Sums over sets of pods.                                                 *)

(* Among subsets of a finite set there is a smallest one: induction over   *)
(* finite sets by the smallest counterexample.                             *)
LEMMA SmallestSubset ==
    ASSUME NEW S, IsFiniteSet(S), NEW T, T \subseteq SUBSET S, T # {}
    PROVE  \E s \in T : \A t \in T : t \subseteq s => t = s
<1>1. T \subseteq FiniteSubsetsOf(S)
  BY FS_FiniteSubsetsOfFinite
<1>2. \E s \in T : \A t \in T : ~(<<t, s>> \in StrictSubsetOrdering(S))
  BY <1>1, FS_StrictSubsetOrderingWellFounded, WFMin, Zenon
<1> QED BY <1>2, Zenon DEF StrictSubsetOrdering

\* g is the function that TotalAmount computes its sums with
Sums(g, request, S) ==
    g = [s \in SUBSET S |->
            IF s = {} THEN NoAmount
            ELSE LET x == CHOOSE p \in s : TRUE IN Add(request[x], g[s \ {x}])]

SumsOf(request, S) == CHOOSE g : Sums(g, request, S)

LEMMA TotalIsSum ==
    ASSUME NEW request, NEW S
    PROVE  TotalAmount(request, S) = SumsOf(request, S)[S]
BY DEF TotalAmount, MapThenFoldSet, SumsOf, Sums

LEMMA SumsAgree ==
    ASSUME NEW request, NEW S, NEW T, IsFiniteSet(S), NEW g, NEW h,
           Sums(g, request, S), Sums(h, request, T),
           NEW u, u \subseteq S, u \subseteq T
    PROVE  g[u] = h[u]
<1> DEFINE wrong == {s \in SUBSET (S \cap T) : g[s] # h[s]}
<1> SUFFICES ASSUME wrong # {} PROVE FALSE
  OBVIOUS
<1>1. wrong \subseteq SUBSET S
  OBVIOUS
<1> HIDE DEF wrong
<1>2. PICK s \in wrong : \A t \in wrong : t \subseteq s => t = s
  BY <1>1, SmallestSubset
<1>3. s \subseteq S /\ s \subseteq T /\ g[s] # h[s]
  BY DEF wrong
<1>4. s # {}
  BY <1>3 DEF Sums
<1> DEFINE x == CHOOSE p \in s : TRUE
<1>5. x \in s
  BY <1>4
<1> HIDE DEF x
<1>6. s \ {x} \subseteq S /\ s \ {x} \subseteq T /\ s \ {x} # s
  BY <1>3, <1>5
<1>7. g[s \ {x}] = h[s \ {x}]
  BY <1>2, <1>6 DEF wrong
<1>8. g[s] = Add(request[x], g[s \ {x}]) /\ h[s] = Add(request[x], h[s \ {x}])
  BY <1>3, <1>4 DEF Sums, x
<1> QED BY <1>3, <1>7, <1>8

LEMMA SumsExist ==
    ASSUME NEW request, NEW S, IsFiniteSet(S)
    PROVE  Sums(SumsOf(request, S), request, S)
<1> DEFINE without == {s \in SUBSET S : ~\E g : Sums(g, request, s)}
<1> SUFFICES ASSUME without # {} PROVE FALSE
  BY DEF SumsOf
<1>1. without \subseteq SUBSET S
  OBVIOUS
<1> HIDE DEF without
<1>2. PICK s \in without : \A t \in without : t \subseteq s => t = s
  BY <1>1, SmallestSubset
<1>3. s \subseteq S /\ ~\E g : Sums(g, request, s)
  BY DEF without
<1> DEFINE first(t) == CHOOSE p \in t : TRUE
           sum(t)   == SumsOf(request, t)[t]
           sums     == [t \in SUBSET s |->
                          IF t = {} THEN NoAmount
                          ELSE Add(request[first(t)], sum(t \ {first(t)}))]
<1>4. ASSUME NEW t, t \subseteq s, t # s
      PROVE  Sums(SumsOf(request, t), request, t) /\ IsFiniteSet(t)
  <2>1. t \in SUBSET S /\ t \notin without
    BY <1>2, <1>3, <1>4
  <2> QED BY <2>1, FS_Subset DEF without, SumsOf
<1>5. ASSUME NEW t, t \subseteq s, t # s
      PROVE  sums[t] = sum(t)
  <2>1. CASE t = {}
    BY <1>4, <1>5, <2>1 DEF Sums
  <2>2. CASE t # {}
    <3> DEFINE x == first(t)
    <3>1. x \in t
      BY <2>2
    <3> HIDE DEF x
    <3>2. t \ {x} \subseteq t /\ t \ {x} \subseteq s /\ t \ {x} # s
      BY <1>5, <3>1
    <3>3. /\ Sums(SumsOf(request, t), request, t) /\ IsFiniteSet(t)
          /\ Sums(SumsOf(request, t \ {x}), request, t \ {x})
      BY <1>4, <1>5, <3>2
    <3>4. SumsOf(request, t)[t \ {x}] = sum(t \ {x})
      <4> HIDE DEF sum
      <4>1. SumsOf(request, t)[t \ {x}] = SumsOf(request, t \ {x})[t \ {x}]
        BY <3>2, <3>3, SumsAgree
      <4> QED BY <4>1 DEF sum
    <3>5. SumsOf(request, t)[t] = Add(request[x], SumsOf(request, t)[t \ {x}])
      BY <2>2, <3>3 DEF Sums, x
    <3>6. sums[t] = Add(request[x], sum(t \ {x}))
      BY <1>5, <2>2 DEF x
    <3> QED BY <3>4, <3>5, <3>6
  <2> QED BY <2>1, <2>2
<1>6. ASSUME NEW t, t \subseteq s, t # {}
      PROVE  sums[t] = Add(request[first(t)], sums[t \ {first(t)}])
  <2>1. first(t) \in t
    BY <1>6
  <2>2. t \ {first(t)} \subseteq s /\ t \ {first(t)} # s
    BY <1>6, <2>1
  <2> HIDE DEF sum, first
  <2>3. sums[t] = Add(request[first(t)], sum(t \ {first(t)}))
    BY <1>6
  <2> HIDE DEF sums
  <2> QED BY <1>5, <2>2, <2>3
<1>7. sums = [t \in SUBSET s |->
                IF t = {} THEN NoAmount
                ELSE Add(request[first(t)], sums[t \ {first(t)}])]
  <2>1. \A t \in SUBSET s : sums[t] = IF t = {} THEN NoAmount
                ELSE Add(request[first(t)], sums[t \ {first(t)}])
    <3>1. sums[{}] = NoAmount
      OBVIOUS
    <3> HIDE DEF sums, first
    <3> QED BY <1>6, <3>1
  <2>2. sums = [t \in SUBSET s |-> sums[t]]
    OBVIOUS
  <2> HIDE DEF sums, first
  <2> QED BY <2>1, <2>2
<1>8. Sums(sums, request, s)
  <2> HIDE DEF sums
  <2> QED BY <1>7 DEF Sums
<1> QED BY <1>3, <1>8

(* TotalAmount adds up one pod after the other.                            *)
LEMMA TotalUnfolded ==
    ASSUME NEW request, NEW S, IsFiniteSet(S)
    PROVE  /\ S = {} => TotalAmount(request, S) = NoAmount
           /\ S # {} => \E x \in S : TotalAmount(request, S)
                                  = Add(request[x], TotalAmount(request, S \ {x}))
<1> DEFINE g == SumsOf(request, S)
           x == CHOOSE p \in S : TRUE
<1>1. Sums(g, request, S) /\ TotalAmount(request, S) = g[S]
  BY SumsExist, TotalIsSum
<1> HIDE DEF g
<1>2. ASSUME S # {} PROVE TotalAmount(request, S) = Add(request[x], g[S \ {x}])
  BY <1>1, <1>2 DEF Sums
<1>3. S = {} => TotalAmount(request, S) = NoAmount
  BY <1>1 DEF Sums
<1> HIDE DEF x
<1>4. g[S \ {x}] = TotalAmount(request, S \ {x})
  <2>1. IsFiniteSet(S \ {x})
    BY FS_RemoveElement
  <2>2. Sums(SumsOf(request, S \ {x}), request, S \ {x})
    BY <2>1, SumsExist
  <2>3. g[S \ {x}] = SumsOf(request, S \ {x})[S \ {x}]
    <3>1. S \ {x} \subseteq S
      OBVIOUS
    <3> HIDE DEF x
    <3> QED BY <1>1, <2>2, <3>1, SumsAgree
  <2> QED BY <2>3, TotalIsSum
<1>5. S # {} => x \in S
  BY DEF x
<1> QED BY <1>2, <1>3, <1>4, <1>5

(* The total is an amount.                                                 *)
LEMMA TotalType ==
    ASSUME NEW request, NEW S, IsFiniteSet(S), \A p \in S : Amount(request[p])
    PROVE  Amount(TotalAmount(request, S))
<1> DEFINE wrong == {s \in SUBSET S : ~Amount(TotalAmount(request, s))}
<1> SUFFICES ASSUME wrong # {} PROVE FALSE
  OBVIOUS
<1>1. wrong \subseteq SUBSET S
  OBVIOUS
<1> HIDE DEF wrong
<1>2. PICK s \in wrong : \A t \in wrong : t \subseteq s => t = s
  BY <1>1, SmallestSubset
<1>3. s \subseteq S /\ ~Amount(TotalAmount(request, s)) /\ IsFiniteSet(s)
  BY FS_Subset DEF wrong
<1>4. Amount(NoAmount)
  BY DEF Amount, NoAmount
<1>5. PICK x \in s : TotalAmount(request, s) = Add(request[x], TotalAmount(request, s \ {x}))
  BY <1>3, <1>4, TotalUnfolded
<1>6. Amount(TotalAmount(request, s \ {x}))
  BY <1>2, <1>3 DEF wrong
<1> QED BY <1>3, <1>5, <1>6, AddAmount

\* The amount of one resource in a total.
Sum(request, S, r) == Quantity(TotalAmount(request, S), r)

LEMMA SumType ==
    ASSUME NEW request, NEW S, IsFiniteSet(S), \A p \in S : Amount(request[p]), NEW r
    PROVE  Sum(request, S, r) \in Nat
BY TotalType, QuantityType DEF Sum

LEMMA SumUnfolded ==
    ASSUME NEW request, NEW S, IsFiniteSet(S), \A p \in S : Amount(request[p]), NEW r
    PROVE  /\ Sum(request, {}, r) = 0
           /\ S # {} => \E x \in S :
                Sum(request, S, r) = Quantity(request[x], r) + Sum(request, S \ {x}, r)
<1>1. Sum(request, {}, r) = 0
  BY TotalUnfolded, FS_EmptySet DEF Sum, Quantity, NoAmount
<1>2. ASSUME S # {}
      PROVE  \E x \in S :
                Sum(request, S, r) = Quantity(request[x], r) + Sum(request, S \ {x}, r)
  <2>1. PICK x \in S : TotalAmount(request, S) = Add(request[x], TotalAmount(request, S \ {x}))
    BY <1>2, TotalUnfolded
  <2>2. IsFiniteSet(S \ {x})
    BY FS_RemoveElement
  <2>3. Amount(request[x]) /\ Amount(TotalAmount(request, S \ {x}))
    BY <2>2, TotalType
  <2> DEFINE a == request[x]
             b == TotalAmount(request, S \ {x})
  <2>4. Quantity(Add(a, b), r) = Quantity(a, r) + Quantity(b, r)
    <3> HIDE DEF a, b
    <3>1. Amount(a) /\ Amount(b)
      BY <2>3 DEF a, b
    <3> QED BY <3>1, AddQuantity
  <2>5. Sum(request, S, r) = Quantity(a, r) + Sum(request, S \ {x}, r)
    BY <2>1, <2>4 DEF Sum
  <2> QED BY <2>5
<1> QED BY <1>1, <1>2

(* Any pod of the total can be taken out of it: the order does not matter. *)
LEMMA SumWithout ==
    ASSUME NEW request, NEW S, IsFiniteSet(S), \A p \in S : Amount(request[p]), NEW r,
           NEW p \in S
    PROVE  Sum(request, S, r) = Quantity(request[p], r) + Sum(request, S \ {p}, r)
<1> DEFINE q(x) == Quantity(request[x], r)
           sum(s) == Sum(request, s, r)
           wrong == {s \in SUBSET S : \E x \in s : sum(s) # q(x) + sum(s \ {x})}
<1> SUFFICES ASSUME wrong # {} PROVE FALSE
  OBVIOUS
<1>1. wrong \subseteq SUBSET S
  OBVIOUS
<1>0. ASSUME NEW s, s \subseteq S
      PROVE  /\ IsFiniteSet(s) /\ sum(s) \in Nat
             /\ \A x \in s : q(x) \in Nat
             /\ s # {} => \E x \in s : sum(s) = q(x) + sum(s \ {x})
  <2>1. IsFiniteSet(s) /\ \A x \in s : Amount(request[x])
    BY <1>0, FS_Subset
  <2>2. sum(s) \in Nat
    BY <2>1, SumType
  <2>3. \A x \in s : q(x) \in Nat
    BY <2>1, QuantityType
  <2>4. s # {} => \E x \in s : sum(s) = q(x) + sum(s \ {x})
    BY <2>1, SumUnfolded
  <2> QED BY <2>1, <2>2, <2>3, <2>4
<1> HIDE DEF q, sum, wrong
<1>2. PICK s \in wrong : \A t \in wrong : t \subseteq s => t = s
  BY <1>1, SmallestSubset
<1>3. PICK x \in s : s \subseteq S /\ sum(s) # q(x) + sum(s \ {x})
  BY DEF wrong
<1>4. PICK c \in s : sum(s) = q(c) + sum(s \ {c})
  BY <1>0, <1>3
<1>5. x # c
  BY <1>3, <1>4
<1>6. \A t \in SUBSET s : t # s => \A y \in t : sum(t) = q(y) + sum(t \ {y})
  BY <1>2, <1>3 DEF wrong
<1>7. sum(s \ {c}) = q(x) + sum((s \ {c}) \ {x})
  BY <1>5, <1>6
<1>8. sum(s \ {x}) = q(c) + sum((s \ {x}) \ {c})
  BY <1>5, <1>6
<1>9. (s \ {c}) \ {x} = (s \ {x}) \ {c} /\ (s \ {x}) \ {c} \subseteq S
  BY <1>3
<1>10. sum((s \ {x}) \ {c}) \in Nat /\ q(x) \in Nat /\ q(c) \in Nat
  BY <1>0, <1>3, <1>9
<1> QED BY <1>3, <1>4, <1>7, <1>8, <1>9, <1>10

(* One pod more.                                                           *)
LEMMA SumWith ==
    ASSUME NEW request, NEW S, IsFiniteSet(S), \A p \in S : Amount(request[p]), NEW r,
           NEW x, Amount(request[x])
    PROVE  Sum(request, S \cup {x}, r)
             = Sum(request, S, r) + (IF x \in S THEN 0 ELSE Quantity(request[x], r))
<1>1. Sum(request, S, r) \in Nat /\ Quantity(request[x], r) \in Nat
  BY SumType, QuantityType
<1>2. CASE x \in S
  <2>1. S \cup {x} = S
    BY <1>2
  <2> QED BY <1>1, <1>2, <2>1
<1>3. CASE x \notin S
  <2>1. IsFiniteSet(S \cup {x}) /\ \A p \in S \cup {x} : Amount(request[p])
    BY FS_AddElement
  <2>2. (S \cup {x}) \ {x} = S
    BY <1>3
  <2>3. Sum(request, S \cup {x}, r)
          = Quantity(request[x], r) + Sum(request, (S \cup {x}) \ {x}, r)
    <3>1. x \in S \cup {x}
      OBVIOUS
    <3> QED BY <2>1, <3>1, SumWithout
  <2> QED BY <1>1, <1>3, <2>2, <2>3
<1> QED BY <1>2, <1>3

(* Two sets cover a third: their sums do.                                  *)
LEMMA SumCovered ==
    ASSUME NEW request, NEW A, NEW B, NEW S, IsFiniteSet(A), IsFiniteSet(B),
           \A p \in A \cup B : Amount(request[p]), S \subseteq A \cup B, NEW r
    PROVE  Sum(request, S, r) <= Sum(request, A, r) + Sum(request, B, r)
<1> DEFINE sum(s) == Sum(request, s, r)
           q(x) == Quantity(request[x], r)
           wrong == {s \in SUBSET S : \E a \in SUBSET A, b \in SUBSET B :
                        s \subseteq a \cup b /\ ~(sum(s) <= sum(a) + sum(b))}
<1>0. IsFiniteSet(S) /\ IsFiniteSet(A \cup B)
  BY FS_Union, FS_Subset
<1>1. ASSUME NEW s, s \subseteq A \/ s \subseteq B \/ s \subseteq S
      PROVE  /\ sum(s) \in Nat
             /\ \A x \in s : q(x) \in Nat /\ sum(s) = q(x) + sum(s \ {x})
  <2>1. IsFiniteSet(s) /\ \A x \in s : Amount(request[x])
    BY <1>0, <1>1, FS_Subset
  <2>2. sum(s) \in Nat
    BY <2>1, SumType
  <2>3. \A x \in s : q(x) \in Nat
    BY <2>1, QuantityType
  <2>4. \A x \in s : sum(s) = q(x) + sum(s \ {x})
    BY <2>1, SumWithout
  <2> QED BY <2>2, <2>3, <2>4
<1>2. sum({}) = 0
  BY <1>0, SumUnfolded
<1> SUFFICES ASSUME wrong # {} PROVE FALSE
  OBVIOUS
<1>3. wrong \subseteq SUBSET S
  OBVIOUS
<1> HIDE DEF sum, q, wrong
<1>4. PICK s \in wrong : \A t \in wrong : t \subseteq s => t = s
  BY <1>0, <1>3, SmallestSubset
<1>5. PICK a \in SUBSET A, b \in SUBSET B :
        s \subseteq S /\ s \subseteq a \cup b /\ ~(sum(s) <= sum(a) + sum(b))
  BY DEF wrong
<1>6. sum(a) \in Nat /\ sum(b) \in Nat /\ sum(s) \in Nat
  BY <1>1, <1>5
<1>7. s # {}
  <2> SUFFICES ASSUME s = {} PROVE sum(s) <= sum(a) + sum(b)
    BY <1>5
  <2>1. sum(s) = 0
    BY <1>2, Zenon
  <2> QED BY <1>6, <2>1
<1>8. PICK x \in s : x \in a \cup b
  BY <1>5, <1>7
<1>9. sum(s) = q(x) + sum(s \ {x}) /\ q(x) \in Nat /\ sum(s \ {x}) \in Nat
  BY <1>1, <1>5
<1>10. ASSUME NEW a1 \in SUBSET A, NEW b1 \in SUBSET B, s \ {x} \subseteq a1 \cup b1
       PROVE  sum(s \ {x}) <= sum(a1) + sum(b1)
  BY <1>4, <1>5, <1>10 DEF wrong
<1>11. CASE x \in a
  <2>1. sum(a) = q(x) + sum(a \ {x}) /\ sum(a \ {x}) \in Nat
    BY <1>1, <1>11
  <2>2. sum(s \ {x}) <= sum(a \ {x}) + sum(b)
    BY <1>5, <1>10
  <2> QED BY <1>5, <1>6, <1>9, <2>1, <2>2
<1>12. CASE x \in b
  <2>1. sum(b) = q(x) + sum(b \ {x}) /\ sum(b \ {x}) \in Nat
    BY <1>1, <1>12
  <2>2. sum(s \ {x}) <= sum(a) + sum(b \ {x})
    BY <1>5, <1>10
  <2> QED BY <1>5, <1>6, <1>9, <2>1, <2>2
<1> QED BY <1>8, <1>11, <1>12

-----------------------------------------------------------------------------
(* A set of numbers has a least one.                                       *)
LEMMA Least ==
    ASSUME NEW S, S \subseteq Nat, S # {}
    PROVE  \E x \in S : \A y \in S : ~(y < x)
<1>1. \E x \in S : \A y \in S : ~(<<y, x>> \in OpToRel(<, Nat))
  BY NatLessThanWellFounded, WFMin, Zenon
<1> QED BY <1>1, Zenon DEF OpToRel

-----------------------------------------------------------------------------
(* What a selector matches, for selectors of any length and any labels.    *)

(* OR-ed answers are an answer of some term when one of them is not no.    *)
LEMMA OredDecides ==
    ASSUME NEW n \in Nat, NEW answers \in [1..n -> Answers]
    PROVE  /\ (\A i \in 1..n : answers[i] = "no") => Ored(answers) = "no"
           /\ (\E i \in 1..n : answers[i] # "no") =>
                \E i \in 1..n : Ored(answers) = answers[i] /\ answers[i] # "no"
<1> DEFINE deciding == {i \in 1..n : answers[i] # "no"}
           First(i) == answers[i] # "no" /\ \A j \in 1..(i - 1) : answers[j] = "no"
<1>1. ASSUME \E i \in 1..n : answers[i] # "no"
      PROVE  \E i \in 1..n : Ored(answers) = answers[i] /\ answers[i] # "no"
  <2>1. deciding \subseteq Nat /\ deciding # {}
    BY <1>1
  <2>3. PICK x \in deciding : \A y \in deciding : ~(y < x)
    <3> HIDE DEF deciding
    <3> QED BY <2>1, Least
  <2>4. \E i \in 1..n : First(i)
    BY <2>3
  <2>5. (CHOOSE i \in 1..n : First(i)) \in 1..n /\ First(CHOOSE i \in 1..n : First(i))
    <3> HIDE DEF First
    <3> QED BY <2>4, Zenon
  <2>6. Ored(answers) = answers[CHOOSE i \in 1..n : First(i)]
    BY <1>1 DEF Ored
  <2> QED BY <2>5, <2>6
<1>2. (\A i \in 1..n : answers[i] = "no") => Ored(answers) = "no"
  BY DEF Ored
<1> QED BY <1>1, <1>2

-----------------------------------------------------------------------------
(* A reconcile, which asks for namespaces first, meets every pod that a    *)
(* scheduling cycle finds selected or cannot tell: affectedPods and        *)
(* affectedClusterThrottles speak of the same pods, whatever terms of the  *)
(* selector are invalid.                                                   *)
THEOREM NamespacesFirstLosesNothing ==
    ASSUME NEW Each, NEW selector \in Seq(Each), NEW labels, NEW ns,
           ClusterMatchesToPod(selector, labels, ns) # "no"
    PROVE  ClusterMatchesToNamespace(selector, ns) = "yes"
<1> DEFINE n     == Len(selector)
           pods  == [i \in DOMAIN selector |-> ClusterTermMatchesToPod(selector[i], labels, ns)]
           spaces == [i \in DOMAIN selector |-> ClusterTermMatchesToNamespace(selector[i], ns)]
<1>1. n \in Nat /\ DOMAIN selector = 1..n
  OBVIOUS
<1>2. pods \in [1..n -> Answers] /\ spaces \in [1..n -> {"yes", "no"}]
  BY <1>1 DEF ClusterTermMatchesToPod, ClusterTermMatchesToNamespace, TermMatchesToPod,
              Matches, Answers
<1>3. spaces \in [1..n -> Answers]
  BY <1>2 DEF Answers
<1>4. Ored(pods) # "no"
  BY DEF ClusterMatchesToPod
<1>5. PICK i \in 1..n : pods[i] # "no"
  <2> HIDE DEF pods, n
  <2> QED BY <1>1, <1>2, <1>4, OredDecides
<1>6. spaces[i] # "no"
  BY <1>1, <1>5 DEF ClusterTermMatchesToPod, ClusterTermMatchesToNamespace
<1>7. \E k \in 1..n : Ored(spaces) = spaces[k] /\ spaces[k] # "no"
  <2> HIDE DEF spaces, n
  <2> QED BY <1>1, <1>3, <1>5, <1>6, OredDecides
<1>8. Ored(spaces) = "yes"
  <2> HIDE DEF spaces, n
  <2> QED BY <1>2, <1>7
<1> QED BY <1>8 DEF ClusterMatchesToNamespace

(* A selected pod is selected by one term as a whole, its labels and the   *)
(* labels of its namespace.                                                *)
THEOREM OneTermSelects ==
    ASSUME NEW Each, NEW selector \in Seq(Each), NEW labels, NEW ns,
           ClusterMatchesToPod(selector, labels, ns) = "yes"
    PROVE  \E i \in DOMAIN selector :
               /\ Matches(selector[i].pods, labels) = "yes"
               /\ Matches(selector[i].namespaces, ns) = "yes"
<1> DEFINE n    == Len(selector)
           pods == [i \in DOMAIN selector |-> ClusterTermMatchesToPod(selector[i], labels, ns)]
<1>1. n \in Nat /\ DOMAIN selector = 1..n
  OBVIOUS
<1>2. pods \in [1..n -> Answers]
  BY <1>1 DEF ClusterTermMatchesToPod, ClusterTermMatchesToNamespace, TermMatchesToPod,
              Matches, Answers
<1>3. Ored(pods) = "yes"
  BY DEF ClusterMatchesToPod
<1>4. PICK i \in 1..n : pods[i] = "yes"
  <2> HIDE DEF pods, n
  <2> QED BY <1>1, <1>2, <1>3, OredDecides
<1> QED BY <1>1, <1>4 DEF ClusterTermMatchesToPod, ClusterTermMatchesToNamespace,
                         TermMatchesToPod, Matches
=============================================================================

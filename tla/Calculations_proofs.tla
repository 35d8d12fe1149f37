------------------------- MODULE Calculations_proofs -------------------------
(***************************************************************************)
(* Proofs about the calculations of MCCalculations, for any bounds on the  *)
(* quantities, the containers of a pod and the terms of a selector.        *)
(***************************************************************************)
EXTENDS MCCalculations, Operators_proofs

(* A set of numbers up to a bound has a greatest one.                      *)
LEMMA Greatest ==
    ASSUME NEW n \in Nat, NEW s, s \subseteq 1..n, s # {}
    PROVE  Max(s) \in s /\ \A y \in s : Max(s) >= y
<1> DEFINE left == {n - y : y \in s}
<1>0. \A y \in s : y \in Int /\ n - y \in Nat
  OBVIOUS
<1>1. left \subseteq Nat /\ left # {}
  BY <1>0
<1>3. PICK x \in left : \A y \in left : ~(y < x)
  <2> HIDE DEF left
  <2> QED BY <1>1, Least
<1>4. PICK m \in s : x = n - m
  OBVIOUS
<1>5. \A y \in s : m >= y
  <2> SUFFICES ASSUME NEW y \in s PROVE m >= y
    OBVIOUS
  <2>1. ~(n - y < n - m)
    BY <1>3, <1>4
  <2> QED BY <1>0, <2>1
<1> QED BY <1>5 DEF Max

-----------------------------------------------------------------------------
(* PodRequestResourceList folds its lists from the first to the last, with *)
(* Add for the containers and SetMax for the init containers.              *)

Combine(kind, acc, list) == IF kind = "sum" THEN ListAdd(acc, list) ELSE SetMax(acc, list)

LEMMA FiniteRange ==
    ASSUME NEW n \in Nat, NEW S, S \subseteq 1..n
    PROVE  IsFiniteSet(S)
<1>1. IsFiniteSet(1..n)
  BY FS_Interval
<1> QED BY <1>1, FS_Subset

\* Taking the greatest away, again and again, comes to an end.
Listing(S) == IsFiniteSet(S) /\ \A s \in SUBSET S : s # {} => Max(s) \in s

LEMMA ListingRange ==
    ASSUME NEW n \in Nat
    PROVE  Listing(1..n)
<1>1. IsFiniteSet(1..n)
  BY FiniteRange
<1>2. \A s \in SUBSET (1..n) : s # {} => Max(s) \in s
  BY Greatest
<1> QED BY <1>1, <1>2 DEF Listing

\* fold is the function that FoldLeft computes with
IsFold(fold, kind, lists, S) ==
    fold = [s \in SUBSET S |->
                IF s = {} THEN Nothing
                ELSE LET i == Max(s) IN Combine(kind, fold[s \ {i}], lists[i])]

FoldOf(kind, lists, S) == CHOOSE fold : IsFold(fold, kind, lists, S)

LEMMA FoldsAgree ==
    ASSUME NEW kind, NEW lists, NEW S, Listing(S), NEW T, NEW f, NEW g,
           IsFold(f, kind, lists, S), IsFold(g, kind, lists, T),
           NEW u, u \subseteq S, u \subseteq T
    PROVE  f[u] = g[u]
<1> DEFINE wrong == {s \in SUBSET (S \cap T) : f[s] # g[s]}
<1> SUFFICES ASSUME wrong # {} PROVE FALSE
  OBVIOUS
<1>0. IsFiniteSet(S)
  BY DEF Listing
<1>1. wrong \subseteq SUBSET S
  OBVIOUS
<1> HIDE DEF wrong
<1>2. PICK s \in wrong : \A t \in wrong : t \subseteq s => t = s
  BY <1>0, <1>1, SmallestSubset
<1>3. s \subseteq S /\ s \subseteq T /\ f[s] # g[s]
  BY DEF wrong
<1>4. s # {}
  BY <1>3 DEF IsFold
<1> DEFINE i == Max(s)
<1>5. i \in s
  BY <1>3, <1>4 DEF Listing
<1> HIDE DEF i
<1>6. s \ {i} \subseteq S /\ s \ {i} \subseteq T /\ s \ {i} # s
  BY <1>3, <1>5
<1>7. f[s \ {i}] = g[s \ {i}]
  BY <1>2, <1>6 DEF wrong
<1>8. /\ f[s] = Combine(kind, f[s \ {i}], lists[i])
      /\ g[s] = Combine(kind, g[s \ {i}], lists[i])
  BY <1>3, <1>4 DEF IsFold, i
<1> QED BY <1>3, <1>7, <1>8

LEMMA FoldExists ==
    ASSUME NEW kind, NEW lists, NEW S, Listing(S)
    PROVE  IsFold(FoldOf(kind, lists, S), kind, lists, S)
<1> DEFINE without == {s \in SUBSET S : ~\E fold : IsFold(fold, kind, lists, s)}
<1> SUFFICES ASSUME without # {} PROVE FALSE
  BY DEF FoldOf
<1>0. IsFiniteSet(S)
  BY DEF Listing
<1>1. without \subseteq SUBSET S
  OBVIOUS
<1> HIDE DEF without
<1>2. PICK s \in without : \A t \in without : t \subseteq s => t = s
  BY <1>0, <1>1, SmallestSubset
<1>3. s \subseteq S /\ ~\E fold : IsFold(fold, kind, lists, s)
  BY DEF without
<1> DEFINE at(t)  == FoldOf(kind, lists, t)[t]
           folds  == [t \in SUBSET s |->
                        IF t = {} THEN Nothing
                        ELSE Combine(kind, at(t \ {Max(t)}), lists[Max(t)])]
<1>4. ASSUME NEW t, t \subseteq s, t # s
      PROVE  IsFold(FoldOf(kind, lists, t), kind, lists, t) /\ Listing(t)
  <2>1. t \in SUBSET S /\ t \notin without
    BY <1>2, <1>3, <1>4
  <2>2. IsFiniteSet(t)
    BY <1>0, <2>1, FS_Subset
  <2> QED BY <2>1, <2>2 DEF without, FoldOf, Listing
<1>5. ASSUME NEW t, t \subseteq s, t # {}
      PROVE  Max(t) \in t
  BY <1>3, <1>5 DEF Listing
<1>6. ASSUME NEW t, t \subseteq s, t # s
      PROVE  folds[t] = at(t)
  <2>1. CASE t = {}
    BY <1>4, <1>6, <2>1 DEF IsFold
  <2>2. CASE t # {}
    <3> DEFINE i == Max(t)
    <3>1. i \in t
      BY <1>5, <1>6, <2>2
    <3> HIDE DEF i
    <3>2. t \ {i} \subseteq t /\ t \ {i} \subseteq s /\ t \ {i} # s
      BY <1>6, <3>1
    <3>3. /\ IsFold(FoldOf(kind, lists, t), kind, lists, t) /\ Listing(t)
          /\ IsFold(FoldOf(kind, lists, t \ {i}), kind, lists, t \ {i})
      BY <1>4, <1>6, <3>2
    <3>4. FoldOf(kind, lists, t)[t \ {i}] = at(t \ {i})
      <4> HIDE DEF at
      <4>1. FoldOf(kind, lists, t)[t \ {i}] = FoldOf(kind, lists, t \ {i})[t \ {i}]
        <5> DEFINE w == t \ {i}
        <5>1. IsFold(FoldOf(kind, lists, w), kind, lists, w) /\ w \subseteq t
          BY <3>2, <3>3
        <5> HIDE DEF w
        <5>2. FoldOf(kind, lists, t)[w] = FoldOf(kind, lists, w)[w]
          BY <3>3, <5>1, FoldsAgree
        <5> QED BY <5>2 DEF w
      <4> QED BY <4>1 DEF at
    <3>5. FoldOf(kind, lists, t)[t] = Combine(kind, FoldOf(kind, lists, t)[t \ {i}], lists[i])
      BY <2>2, <3>3 DEF IsFold, i
    <3>6. folds[t] = Combine(kind, at(t \ {i}), lists[i])
      BY <1>6, <2>2 DEF i
    <3> QED BY <3>4, <3>5, <3>6
  <2> QED BY <2>1, <2>2
<1>7. ASSUME NEW t, t \subseteq s, t # {}
      PROVE  folds[t] = Combine(kind, folds[t \ {Max(t)}], lists[Max(t)])
  <2>1. t \ {Max(t)} \subseteq s /\ t \ {Max(t)} # s
    BY <1>5, <1>7
  <2>2. folds[t] = Combine(kind, at(t \ {Max(t)}), lists[Max(t)])
    BY <1>7
  <2> HIDE DEF folds, at
  <2> QED BY <1>6, <2>1, <2>2
<1>8. folds = [t \in SUBSET s |->
                 IF t = {} THEN Nothing
                 ELSE Combine(kind, folds[t \ {Max(t)}], lists[Max(t)])]
  <2>1. folds[{}] = Nothing
    OBVIOUS
  <2>2. folds = [t \in SUBSET s |-> folds[t]]
    OBVIOUS
  <2> HIDE DEF folds
  <2>3. \A t \in SUBSET s : folds[t] = IF t = {} THEN Nothing
                 ELSE Combine(kind, folds[t \ {Max(t)}], lists[Max(t)])
    BY <1>7, <2>1
  <2> QED BY <2>2, <2>3
<1>9. IsFold(folds, kind, lists, s)
  <2> HIDE DEF folds
  <2> QED BY <1>8 DEF IsFold
<1> QED BY <1>3, <1>9

\* The list after the first n of them.
Acc(kind, lists, n) == FoldOf(kind, lists, 1..n)[1..n]

(* One list after the other, from the first.                               *)
LEMMA AccUnfolded ==
    ASSUME NEW kind, NEW lists, NEW n \in Nat
    PROVE  /\ Acc(kind, lists, 0) = Nothing
           /\ n # 0 => Acc(kind, lists, n) = Combine(kind, Acc(kind, lists, n - 1), lists[n])
<1>1. Acc(kind, lists, 0) = Nothing
  <2>1. IsFold(FoldOf(kind, lists, {}), kind, lists, {})
    <3>1. Listing({})
      BY FS_EmptySet DEF Listing
    <3> QED BY <3>1, FoldExists
  <2>2. 1..0 = {}
    OBVIOUS
  <2> QED BY <2>1, <2>2 DEF Acc, IsFold
<1>2. ASSUME n # 0 PROVE Acc(kind, lists, n) = Combine(kind, Acc(kind, lists, n - 1), lists[n])
  <2> DEFINE f == FoldOf(kind, lists, 1..n)
  <2>1. IsFold(f, kind, lists, 1..n)
    BY ListingRange, FoldExists
  <2>2. 1..n # {} /\ n \in 1..n /\ \A y \in 1..n : n >= y
    BY <1>2
  <2>3. Max(1..n) = n
    <3>1. Max(1..n) \in 1..n /\ \A y \in 1..n : Max(1..n) >= y
      BY <2>2, Greatest
    <3> QED BY <2>2, <3>1
  <2>4. (1..n) \ {n} = 1..(n - 1) /\ 1..(n - 1) \subseteq 1..n /\ n - 1 \in Nat
    BY <1>2
  <2>5. IsFold(FoldOf(kind, lists, 1..(n - 1)), kind, lists, 1..(n - 1))
    BY <2>4, ListingRange, FoldExists
  <2>6. f[1..(n - 1)] = Acc(kind, lists, n - 1)
    <3> HIDE DEF f
    <3>1. f[1..(n - 1)] = FoldOf(kind, lists, 1..(n - 1))[1..(n - 1)]
      <4>1. 1..n \subseteq 1..n /\ 1..(n - 1) \subseteq 1..(n - 1)
        OBVIOUS
      <4> QED BY <2>1, <2>4, <2>5, <4>1, ListingRange, FoldsAgree
    <3> QED BY <3>1 DEF Acc
  <2> HIDE DEF f
  <2>7. f[1..n] = Combine(kind, f[(1..n) \ {n}], lists[n])
    BY <2>1, <2>2, <2>3 DEF IsFold
  <2> QED BY <2>4, <2>6, <2>7 DEF Acc, f
<1> QED BY <1>1, <1>2

(* What the two folds of PodRequestResourceList are.                       *)
LEMMA ContainersFold ==
    ASSUME NEW n \in Nat, NEW lists, DOMAIN lists = 1..n
    PROVE  FoldLeft(ListAdd, Nothing, lists) = Acc("sum", lists, n)
<1> DEFINE IsIt(f) == f = [s \in SUBSET DOMAIN lists |->
                            IF s = {} THEN Nothing
                            ELSE LET i == Max(s) IN ListAdd(f[s \ {i}], lists[i])]
           it == CHOOSE f : IsIt(f)
<1>1. FoldLeft(ListAdd, Nothing, lists) = it[1..n]
  BY DEF FoldLeft, MapThenFoldSet
<1>2. \A f : IsIt(f) <=> IsFold(f, "sum", lists, 1..n)
  BY DEF IsFold, Combine
<1>3. IsFold(FoldOf("sum", lists, 1..n), "sum", lists, 1..n)
  BY ListingRange, FoldExists
<1> HIDE DEF IsIt
<1>4. IsIt(it)
  BY <1>2, <1>3
<1> HIDE DEF it
<1>5. IsFold(it, "sum", lists, 1..n)
  BY <1>2, <1>4
<1>6. it[1..n] = FoldOf("sum", lists, 1..n)[1..n]
  <2> DEFINE all == 1..n
  <2>1. /\ Listing(all) /\ IsFold(it, "sum", lists, all)
        /\ IsFold(FoldOf("sum", lists, all), "sum", lists, all)
    BY <1>3, <1>5, ListingRange
  <2> HIDE DEF all
  <2>2. it[all] = FoldOf("sum", lists, all)[all]
    BY <2>1, FoldsAgree
  <2> QED BY <2>2 DEF all
<1> QED BY <1>1, <1>6 DEF Acc

LEMMA InitContainersFold ==
    ASSUME NEW n \in Nat, NEW lists, DOMAIN lists = 1..n
    PROVE  FoldLeft(SetMax, Nothing, lists) = Acc("max", lists, n)
<1> DEFINE IsIt(f) == f = [s \in SUBSET DOMAIN lists |->
                            IF s = {} THEN Nothing
                            ELSE LET i == Max(s) IN SetMax(f[s \ {i}], lists[i])]
           it == CHOOSE f : IsIt(f)
<1>1. FoldLeft(SetMax, Nothing, lists) = it[1..n]
  BY DEF FoldLeft, MapThenFoldSet
<1>2. \A f : IsIt(f) <=> IsFold(f, "max", lists, 1..n)
  BY DEF IsFold, Combine
<1>3. IsFold(FoldOf("max", lists, 1..n), "max", lists, 1..n)
  BY ListingRange, FoldExists
<1> HIDE DEF IsIt
<1>4. IsIt(it)
  BY <1>2, <1>3
<1> HIDE DEF it
<1>5. IsFold(it, "max", lists, 1..n)
  BY <1>2, <1>4
<1>6. it[1..n] = FoldOf("max", lists, 1..n)[1..n]
  <2> DEFINE all == 1..n
  <2>1. /\ Listing(all) /\ IsFold(it, "max", lists, all)
        /\ IsFold(FoldOf("max", lists, all), "max", lists, all)
    BY <1>3, <1>5, ListingRange
  <2> HIDE DEF all
  <2>2. it[all] = FoldOf("max", lists, all)[all]
    BY <2>1, FoldsAgree
  <2> QED BY <2>2 DEF all
<1> QED BY <1>1, <1>6 DEF Acc

-----------------------------------------------------------------------------
(* What the folds amount to, resource by resource.                         *)

LEMMA AtIsQuantity ==
    ASSUME NEW l, NEW r
    PROVE  /\ At(l, r) = Quantity(l, r)
           /\ Amount(l) => At(l, r) \in Nat
<1>1. At(l, r) = Quantity(l, r)
  BY DEF At, Quantity
<1> QED BY <1>1, QuantityType

LEMMA ListAddAt ==
    ASSUME NEW a, NEW b, Amount(a), Amount(b)
    PROVE  Amount(ListAdd(a, b)) /\ \A r : At(ListAdd(a, b), r) = At(a, r) + At(b, r)
<1>1. \A r : At(a, r) \in Nat /\ At(b, r) \in Nat
  BY AtIsQuantity
<1>2. ListAdd(a, b) = [r \in DOMAIN a \cup DOMAIN b |-> At(a, r) + At(b, r)]
  BY DEF ListAdd
<1>3. Amount(ListAdd(a, b))
  BY <1>1, <1>2 DEF Amount
<1>4. ASSUME NEW r PROVE At(ListAdd(a, b), r) = At(a, r) + At(b, r)
  <2>1. CASE r \in DOMAIN a \cup DOMAIN b
    BY <1>2, <2>1 DEF At
  <2>2. CASE r \notin DOMAIN a \cup DOMAIN b
    BY <1>2, <2>2 DEF At
  <2> QED BY <2>1, <2>2
<1> QED BY <1>3, <1>4

LEMMA SetMaxAt ==
    ASSUME NEW a, NEW b, Amount(a), Amount(b)
    PROVE  /\ Amount(SetMax(a, b))
           /\ \A r : At(SetMax(a, b), r) = QuantityMax(At(a, r), At(b, r))
<1>1. /\ \A r \in DOMAIN a : a[r] \in Nat
      /\ \A r \in DOMAIN b : b[r] \in Nat
  BY DEF Amount
<1>2. SetMax(a, b) = [r \in DOMAIN a \cup DOMAIN b |->
        IF r \notin DOMAIN a THEN b[r]
        ELSE IF r \notin DOMAIN b THEN a[r] ELSE QuantityMax(a[r], b[r])]
  BY DEF SetMax
<1>3. Amount(SetMax(a, b))
  <2>1. DOMAIN SetMax(a, b) = DOMAIN a \cup DOMAIN b
    BY <1>2
  <2>2. \A r \in DOMAIN a \cup DOMAIN b : SetMax(a, b)[r] \in Nat
    BY <1>1, <1>2 DEF QuantityMax
  <2>3. SetMax(a, b) = [r \in DOMAIN a \cup DOMAIN b |-> SetMax(a, b)[r]]
    BY <1>2
  <2> QED BY <2>1, <2>2, <2>3 DEF Amount
<1>4. ASSUME NEW r PROVE At(SetMax(a, b), r) = QuantityMax(At(a, r), At(b, r))
  <2>1. CASE r \in DOMAIN a \cup DOMAIN b
    BY <1>1, <1>2, <2>1 DEF At, QuantityMax
  <2>2. CASE r \notin DOMAIN a \cup DOMAIN b
    BY <1>2, <2>2 DEF At, QuantityMax
  <2> QED BY <2>1, <2>2
<1> QED BY <1>3, <1>4

(* The containers together request the sum of what each requests.          *)
LEMMA ContainersSum ==
    ASSUME NEW n \in Nat, NEW lists, DOMAIN lists = 1..n, \A i \in 1..n : Amount(lists[i])
    PROVE  /\ Amount(FoldLeft(ListAdd, Nothing, lists))
           /\ \A r : At(FoldLeft(ListAdd, Nothing, lists), r) = Sum(lists, DOMAIN lists, r)
<1> DEFINE acc(m)  == Acc("sum", lists, m)
           Good(m) == Amount(acc(m)) /\ \A r : At(acc(m), r) = Sum(lists, 1..m, r)
           wrong   == {m \in 0..n : ~Good(m)}
<1>1. ASSUME wrong # {} PROVE FALSE
  <2>1. wrong \subseteq Nat
    OBVIOUS
  <2>2. PICK m \in wrong : \A k \in wrong : ~(k < m)
    <3> HIDE DEF wrong
    <3> QED BY <1>1, <2>1, Least
  <2>3. m \in 0..n /\ ~Good(m) /\ (m # 0 => m - 1 \in 0..n /\ Good(m - 1))
    <3> HIDE DEF Good
    <3> QED BY <2>2
  <2>4. m # 0
    <3> SUFFICES ASSUME m = 0 PROVE Good(0)
      BY <2>3
    <3>1. acc(0) = Nothing /\ 1..0 = {}
      BY AccUnfolded
    <3>2. \A r : Sum(lists, {}, r) = 0
      BY FS_EmptySet, SumUnfolded
    <3> QED BY <3>1, <3>2 DEF Amount, Nothing, At
  <2> DEFINE all == 1..m
  <2>5. /\ IsFiniteSet(all) /\ m \in all /\ all \ {m} = 1..(m - 1)
        /\ \A i \in all : Amount(lists[i])
    BY <2>3, <2>4, FiniteRange
  <2>6. acc(m) = ListAdd(acc(m - 1), lists[m])
    BY <2>3, <2>4, AccUnfolded DEF Combine
  <2> HIDE DEF acc, all
  <2>7. /\ Amount(acc(m))
        /\ \A r : At(acc(m), r) = At(acc(m - 1), r) + At(lists[m], r)
    BY <2>3, <2>4, <2>5, <2>6, ListAddAt
  <2>8. \A r : Sum(lists, all, r) = Quantity(lists[m], r) + Sum(lists, all \ {m}, r)
    BY <2>5, SumWithout
  <2>9. \A r : At(acc(m), r) = Sum(lists, all, r)
    <3> TAKE r
    <3>1. At(acc(m - 1), r) = Sum(lists, all \ {m}, r) /\ At(acc(m - 1), r) \in Nat
      BY <2>3, <2>4, <2>5, AtIsQuantity
    <3>2. At(lists[m], r) = Quantity(lists[m], r) /\ At(lists[m], r) \in Nat
      BY <2>5, AtIsQuantity
    <3> QED BY <2>7, <2>8, <3>1, <3>2
  <2>10. Good(m)
    BY <2>7, <2>9 DEF all
  <2> QED BY <2>3, <2>10
<1>2. Good(n)
  <2> HIDE DEF Good
  <2> QED BY <1>1
<1> QED BY <1>2, ContainersFold

(* The init containers, one at a time, request the most that one requests. *)
LEMMA InitContainersMax ==
    ASSUME NEW n \in Nat, NEW lists, DOMAIN lists = 1..n, \A i \in 1..n : Amount(lists[i])
    PROVE  /\ Amount(FoldLeft(SetMax, Nothing, lists))
           /\ \A r : LET most == At(FoldLeft(SetMax, Nothing, lists), r) IN
                /\ \A i \in 1..n : At(lists[i], r) <= most
                /\ most = 0 \/ \E i \in 1..n : most = At(lists[i], r)
<1> DEFINE acc(m)  == Acc("max", lists, m)
           Bound(m, r) == /\ \A i \in 1..m : At(lists[i], r) <= At(acc(m), r)
                          /\ At(acc(m), r) = 0 \/ \E i \in 1..m : At(acc(m), r) = At(lists[i], r)
           Good(m) == Amount(acc(m)) /\ \A r : Bound(m, r)
           wrong   == {m \in 0..n : ~Good(m)}
<1>1. ASSUME wrong # {} PROVE FALSE
  <2>1. wrong \subseteq Nat
    OBVIOUS
  <2>2. PICK m \in wrong : \A k \in wrong : ~(k < m)
    <3> HIDE DEF wrong
    <3> QED BY <1>1, <2>1, Least
  <2>3. m \in 0..n /\ ~Good(m) /\ (m # 0 => m - 1 \in 0..n /\ Good(m - 1))
    <3> HIDE DEF Good
    <3> QED BY <2>2
  <2>4. m # 0
    <3> SUFFICES ASSUME m = 0 PROVE Good(0)
      BY <2>3
    <3>1. acc(0) = Nothing /\ 1..0 = {}
      BY AccUnfolded
    <3> QED BY <3>1 DEF Amount, Nothing, At
  <2>5. m \in 1..n /\ 1..m = 1..(m - 1) \cup {m} /\ Amount(lists[m])
    BY <2>3, <2>4
  <2>6. acc(m) = SetMax(acc(m - 1), lists[m])
    BY <2>3, <2>4, AccUnfolded DEF Combine
  <2> HIDE DEF acc
  <2>7. /\ Amount(acc(m))
        /\ \A r : At(acc(m), r) = QuantityMax(At(acc(m - 1), r), At(lists[m], r))
    BY <2>3, <2>4, <2>5, <2>6, SetMaxAt
  <2>8. ASSUME NEW r PROVE Bound(m, r)
    <3>1. Bound(m - 1, r)
      BY <2>3, <2>4
    <3>2. /\ At(acc(m - 1), r) \in Nat /\ At(lists[m], r) \in Nat
          /\ \A i \in 1..m : At(lists[i], r) \in Nat
      BY <2>3, <2>4, <2>5, AtIsQuantity
    <3>3. At(acc(m), r) = QuantityMax(At(acc(m - 1), r), At(lists[m], r))
      BY <2>7
    <3>4. CASE At(lists[m], r) > At(acc(m - 1), r)
      BY <2>5, <3>1, <3>2, <3>3, <3>4 DEF QuantityMax
    <3>5. CASE ~(At(lists[m], r) > At(acc(m - 1), r))
      BY <2>5, <3>1, <3>2, <3>3, <3>5 DEF QuantityMax
    <3> QED BY <3>4, <3>5
  <2> QED BY <2>3, <2>7, <2>8
<1>2. Good(n)
  <2> HIDE DEF Good
  <2> QED BY <1>1
<1> QED BY <1>2, InitContainersFold

-----------------------------------------------------------------------------
(* A call is one of Calls and its answer is what the operator gives for    *)
(* it: the invariant of the behaviours.                                    *)
CallsAnswered ==
    /\ call \in Calls
    /\ answer.given =>
        /\ call.op = "check" =>
            /\ answer.throttle = ThrottleCheck(call.thr, call.pod, call.reserved, FALSE)
            /\ answer.clusterThrottle
                 = ClusterThrottleCheck(call.thr, call.pod, call.reserved, FALSE)
        /\ call.op = "count" => answer.amount = ResourceAmountOfPod(call)
        /\ call.op = "match" =>
            /\ answer.pod = ClusterMatchesToPod(call.selector, call.labels, call.ns)
            /\ answer.namespace = ClusterMatchesToNamespace(call.selector, call.ns)
        /\ call.op = "record" =>
            answer.series = RecordThrottle(RecordThrottle(NoSeries, call.before), call.after)

LEMMA CallsAnsweredAlways == Spec => []CallsAnswered
<1>1. Init => CallsAnswered
  BY DEF Init, CallsAnswered
<1>2. CallsAnswered /\ [Next]_vars => CallsAnswered'
  <2> SUFFICES ASSUME CallsAnswered, [Next]_vars PROVE CallsAnswered'
    OBVIOUS
  <2>1. CASE Check
    BY <2>1 DEF Check, Give, CallsAnswered
  <2>2. CASE Count
    BY <2>2 DEF Count, Give, CallsAnswered
  <2>3. CASE Ask
    BY <2>3 DEF Ask, Give, CallsAnswered
  <2>4. CASE Record
    BY <2>4 DEF Record, Give, CallsAnswered
  <2>5. CASE UNCHANGED vars
    BY <2>5 DEF vars, CallsAnswered
  <2> QED BY <2>1, <2>2, <2>3, <2>4, <2>5 DEF Next
<1> QED BY <1>1, <1>2, PTL DEF Spec

(* What the bounded amounts are.                                           *)
LEMMA UpToType ==
    ASSUME NEW max \in Nat, NEW a \in UpTo(max)
    PROVE  Amount(a)
<1>1. PICK R \in SUBSET {"pod", "cpu"} : a \in [R -> 0..max]
  BY DEF UpTo
<1> QED BY <1>1 DEF Amount

LEMMA CheckCalls ==
    ASSUME call \in Calls, call.op = "check"
    PROVE  /\ WellFormed(call.thr) /\ StatusConsistent(call.thr)
           /\ Amount(call.pod) /\ Amount(call.reserved)
<1>1. /\ call.thr \in NewThrottles \cup Reconciled
      /\ call.pod \in Requests /\ call.reserved \in UpTo(MaxUsed)
  BY DEF Calls
<1>2. MaxThreshold \in Nat /\ MaxUsed \in Nat /\ MaxRequest \in Nat
  BY BoundsAssumption
<1>3. Amount(call.reserved)
  BY <1>1, <1>2, UpToType
<1>4. Amount(call.pod)
  <2>1. CASE call.pod = [r \in {"pod"} |-> 1]
    BY <2>1 DEF Amount
  <2>2. ASSUME NEW c \in 0..MaxRequest, call.pod = [pod |-> 1, cpu |-> c]
        PROVE  Amount(call.pod)
    BY <1>2, <2>2 DEF Amount
  <2> QED BY <1>1, <2>1, <2>2 DEF Requests
<1>5. CASE call.thr \in NewThrottles
  <2>1. PICK t \in UpTo(MaxThreshold) :
          call.thr = [spec |-> t, calculatedAt |-> FALSE, calculated |-> NoAmount,
                      used |-> NoAmount, throttled |-> NoAmount]
    BY <1>5 DEF NewThrottles
  <2>2. Amount(t) /\ Amount(NoAmount)
    BY <1>2, UpToType DEF Amount, NoAmount
  <2>3. WellFormed(call.thr) /\ StatusConsistent(call.thr)
    BY <2>1, <2>2 DEF WellFormed, StatusConsistent, EffectiveThreshold
  <2> QED BY <1>3, <1>4, <2>3
<1>6. CASE call.thr \in Reconciled
  <2>1. PICK t \in UpTo(MaxThreshold), u \in UpTo(MaxUsed) :
          call.thr = [spec |-> NoAmount, calculatedAt |-> TRUE, calculated |-> t,
                      used |-> u, throttled |-> IsThrottled(t, u, TRUE)]
    BY <1>6 DEF Reconciled, LastReconcile
  <2>2. Amount(t) /\ Amount(u)
    BY <1>2, UpToType
  <2>3. WellFormed(call.thr) /\ StatusConsistent(call.thr)
    BY <2>1, <2>2 DEF WellFormed, StatusConsistent, EffectiveThreshold
  <2> QED BY <1>3, <1>4, <2>3
<1> QED BY <1>1, <1>5, <1>6

(* A scheduling cycle lets a pod pass a Throttle exactly when every        *)
(* resource the pod requests stays within the threshold in effect with     *)
(* what is used and what is reserved (Throttle.CheckThrottledFor).         *)
THEOREM AdmissionIsExactAlways == Spec => []AdmissionIsExact
<1>1. CallsAnswered => AdmissionIsExact
  BY CheckCalls, ThrottleCheckIsExact DEF CallsAnswered, AdmissionIsExact, Answered
<1> QED BY <1>1, CallsAnsweredAlways, PTL

(* The same pods pass a ClusterThrottle with the same spec and status      *)
(* (ClusterThrottle.CheckThrottledFor).                                    *)
THEOREM KindsAdmitTheSameAlways == Spec => []KindsAdmitTheSame
<1>1. CallsAnswered => KindsAdmitTheSame
  BY CheckCalls, BothKindsAdmitTheSamePods DEF CallsAnswered, KindsAdmitTheSame, Answered
<1> QED BY <1>1, CallsAnsweredAlways, PTL

LEMMA MatchCalls ==
    ASSUME call \in Calls, call.op = "match"
    PROVE  call.selector \in Seq(Terms)
<1>1. call.selector \in SeqOf(Terms, MaxTerms) /\ MaxTerms \in Nat
  BY BoundsAssumption DEF Calls
<1>2. PICK m \in 0..MaxTerms : call.selector \in [1..m -> Terms]
  BY <1>1 DEF SeqOf
<1> QED BY <1>1, <1>2

(* A reconcile looks at every pod that a scheduling cycle throttles or     *)
(* cannot tell about (affectedPods and affectedClusterThrottles).          *)
THEOREM NamespaceFilterLosesNothingAlways == Spec => []NamespaceFilterLosesNothing
<1>1. CallsAnswered => NamespaceFilterLosesNothing
  BY MatchCalls, NamespacesFirstLosesNothing
     DEF CallsAnswered, NamespaceFilterLosesNothing, Answered
<1> QED BY <1>1, CallsAnsweredAlways, PTL

(* A pod is selected by one term as a whole (MatchesToPod of the cluster   *)
(* throttle's selector).                                                   *)
THEOREM SelectedByOneTermAlways == Spec => []SelectedByOneTerm
<1>1. CallsAnswered => SelectedByOneTerm
  BY MatchCalls, OneTermSelects DEF CallsAnswered, SelectedByOneTerm, Answered
<1> QED BY <1>1, CallsAnsweredAlways, PTL

LEMMA RecordCalls ==
    ASSUME CallsAnswered, Answered("record")
    PROVE  /\ Amount(call.after.used) /\ Amount(call.after.calculated)
           /\ call.after.throttled = IsThrottled(call.after.calculated, call.after.used, TRUE)
           /\ \E old : /\ DOMAIN old = Gauges
                       /\ answer.series = RecordThrottle(old, call.after)
<1>1. call.after \in Recorded
  BY DEF CallsAnswered, Answered, Calls
<1>2. PICK t \in RecordedAmounts, u \in RecordedAmounts :
        call.after = [spec |-> NoAmount, calculatedAt |-> TRUE, calculated |-> t,
                      used |-> u, throttled |-> IsThrottled(t, u, TRUE)]
  BY <1>1 DEF Recorded, LastReconcile
<1>3. Amount(t) /\ Amount(u)
  BY BoundsAssumption DEF RecordedAmounts, Amount
<1>4. DOMAIN RecordThrottle(NoSeries, call.before) = Gauges
  BY DEF RecordThrottle, Gauges
<1> QED BY <1>2, <1>3, <1>4 DEF CallsAnswered, Answered

(* Rounding up keeps the order of two quantities, and tells them apart when*)
(* the greater one of them is more than the whole amount of the other.     *)
LEMMA RoundingUp ==
    ASSUME NEW p \in Nat, NEW q \in Nat, NEW k \in Nat \ {0}
    PROVE  /\ RoundedUp(q, k) \in Nat
           /\ p <= q => RoundedUp(p, k) <= RoundedUp(q, k)
           /\ p % k = 0 /\ RoundedUp(q, k) <= RoundedUp(p, k) => q <= p
<1>1. RoundedUp(q, k) \in Nat
  BY DEF RoundedUp
<1>2. ASSUME p <= q PROVE RoundedUp(p, k) <= RoundedUp(q, k)
  BY <1>2 DEF RoundedUp
<1>3. ASSUME p % k = 0, RoundedUp(q, k) <= RoundedUp(p, k) PROVE q <= p
  <2> DEFINE n == RoundedUp(q, k)
             m == p \div k
  <2>1. q <= k * n
    BY DEF RoundedUp
  <2>2. m \in Nat /\ p = k * m
    BY <1>3
  <2>3. RoundedUp(p, k) = m
    BY <2>2 DEF RoundedUp
  <2>4. n \in Nat /\ n <= m
    BY <1>1, <1>3, <2>3
  <2> HIDE DEF n, m
  <2>5. k * n <= k * m
    BY <2>2, <2>4
  <2>6. k * n \in Nat /\ k * m \in Nat
    BY <2>2, <2>4
  <2> QED BY <2>1, <2>2, <2>5, <2>6
<1> QED BY <1>1, <1>2, <1>3

LEMMA ScaleType ==
    ASSUME NEW r
    PROVE  Scale(r) \in Nat \ {0}
BY ScalesAssumption DEF Scale

(* The gauges agree with each other as far as rounding lets them, after a  *)
(* reconcile has recorded them, whatever they showed before                *)
(* (metrics_recorder.go).                                                  *)
THEOREM FlagsAgreeWithAmountsAlways == Spec => []FlagsAgreeWithAmounts
<1> DEFINE throttled(r) == Shown("throttled", r) = 1
           u(r) == Shown("used", r)
           t(r) == Shown("calculatedThreshold", r)
<1>1. ASSUME CallsAnswered, Answered("record"),
             NEW r \in DOMAIN call.after.calculated \cap DOMAIN call.after.used
      PROVE  /\ throttled(r) => u(r) >= t(r)
             /\ ~throttled(r) => u(r) <= t(r)
             /\ call.after.used[r] % Scale(r) = 0 => (throttled(r) <=> u(r) >= t(r))
  <2> DEFINE thr == call.after
             used == thr.used[r]
             limit == thr.calculated[r]
             k == Scale(r)
  <2>1. PICK old : answer.series = RecordThrottle(old, thr)
    BY <1>1, RecordCalls
  <2>2. /\ Amount(thr.used) /\ Amount(thr.calculated)
        /\ thr.throttled = IsThrottled(thr.calculated, thr.used, TRUE)
    BY <1>1, RecordCalls
  <2>3. /\ answer.series["throttled"] = RecordFlags(old.throttled, thr.throttled)
        /\ answer.series["used"] = RecordAmount(old.used, thr.used)
        /\ answer.series["calculatedThreshold"]
             = RecordAmount(old.calculatedThreshold, thr.calculated)
    BY <2>1 DEF RecordThrottle
  <2>4. /\ used \in Nat /\ limit \in Nat
        /\ r \in DOMAIN thr.throttled
        /\ thr.throttled[r] <=> used >= limit
    BY <1>1, <2>2 DEF Amount, IsThrottled
  <2>5. u(r) = RoundedUp(used, k)
    BY <1>1, <2>3 DEF Shown, Quantity, RecordAmount, ShownValue
  <2>6. t(r) = RoundedUp(limit, k)
    BY <1>1, <2>3 DEF Shown, Quantity, RecordAmount, ShownValue
  <2>7. throttled(r) <=> used >= limit
    BY <2>3, <2>4 DEF Shown, Quantity, RecordFlags
  <2> HIDE DEF used, limit, k, throttled, u, t
  <2>8. k \in Nat \ {0}
    BY ScaleType DEF k
  <2>9. u(r) \in Nat /\ t(r) \in Nat
    BY <2>4, <2>5, <2>6, <2>8, RoundingUp
  <2>10. ASSUME throttled(r) PROVE u(r) >= t(r)
    BY <2>4, <2>5, <2>6, <2>7, <2>8, <2>9, <2>10, RoundingUp
  <2>11. ASSUME ~throttled(r) PROVE u(r) <= t(r)
    BY <2>4, <2>5, <2>6, <2>7, <2>8, <2>9, <2>11, RoundingUp
  <2>12. ASSUME used % k = 0, u(r) >= t(r) PROVE throttled(r)
    <3>1. limit <= used
      BY <2>4, <2>5, <2>6, <2>8, <2>9, <2>12, RoundingUp
    <3> QED BY <2>4, <2>7, <3>1
  <2> QED BY <2>10, <2>11, <2>12 DEF used, k
<1>2. CallsAnswered => FlagsAgreeWithAmounts
  BY <1>1 DEF FlagsAgreeWithAmounts
<1> QED BY <1>2, CallsAnsweredAlways, PTL

LEMMA CountCalls ==
    ASSUME call \in Calls, call.op = "count"
    PROVE  /\ Amount(call.overhead)
           /\ \E n \in Nat : /\ DOMAIN call.init = 1..n
                             /\ \A i \in 1..n : Amount(call.init[i])
           /\ \E n \in Nat : /\ DOMAIN call.containers = 1..n
                             /\ \A i \in 1..n : Amount(call.containers[i])
<1>1. /\ call.init \in SeqOf(Lists, MaxContainers)
      /\ call.containers \in SeqOf(Lists, MaxContainers)
      /\ call.overhead \in Lists
  BY DEF Calls
<1>2. MaxQuantity \in Nat /\ MaxContainers \in Nat
  BY BoundsAssumption
<1>3. ASSUME NEW l \in Lists PROVE Amount(l)
  <2>1. PICK R \in SUBSET Listed : l \in [R -> 0..MaxQuantity]
    BY <1>3 DEF Lists
  <2> QED BY <1>2, <2>1 DEF Amount
<1>4. ASSUME NEW s \in SeqOf(Lists, MaxContainers)
      PROVE  \E n \in Nat : DOMAIN s = 1..n /\ \A i \in 1..n : Amount(s[i])
  <2>1. PICK m \in 0..MaxContainers : s \in [1..m -> Lists]
    BY <1>4 DEF SeqOf
  <2>2. m \in Nat /\ DOMAIN s = 1..m /\ \A i \in 1..m : s[i] \in Lists
    BY <1>2, <2>1
  <2> QED BY <1>3, <2>2
<1> QED BY <1>1, <1>3, <1>4

(* A throttle counts for a pod the most it uses at one time, of every      *)
(* resource, and the pod itself (PodRequestResourceList).                  *)
THEOREM CountedIsThePeakAlways == Spec => []CountedIsThePeak
<1>1. ASSUME CallsAnswered, Answered("count")
      PROVE  /\ answer.amount["pod"] = 1
             /\ \A r \in Listed :
                  /\ At(answer.amount, r) \in InUse(call, r)
                  /\ \A q \in InUse(call, r) : q <= At(answer.amount, r)
  <2> DEFINE icRes == FoldLeft(SetMax, Nothing, call.init)
             cRes  == FoldLeft(ListAdd, Nothing, call.containers)
             list  == PodRequestResourceList(call)
  <2>1. answer.amount = [r \in DOMAIN list \cup {"pod"} |-> IF r = "pod" THEN 1 ELSE list[r]]
    BY <1>1 DEF CallsAnswered, Answered, ResourceAmountOfPod
  <2>2. list = ListAdd(SetMax(cRes, icRes), call.overhead)
    BY DEF PodRequestResourceList
  <2>3. call \in Calls /\ call.op = "count"
    BY <1>1 DEF CallsAnswered, Answered
  <2>4. Amount(call.overhead)
    BY <2>3, CountCalls
  <2>5. PICK n \in Nat : DOMAIN call.init = 1..n /\ \A i \in 1..n : Amount(call.init[i])
    BY <2>3, CountCalls
  <2>6. /\ Amount(icRes)
        /\ \A r : /\ \A i \in 1..n : At(call.init[i], r) <= At(icRes, r)
                  /\ At(icRes, r) = 0 \/ \E i \in 1..n : At(icRes, r) = At(call.init[i], r)
    BY <2>5, InitContainersMax
  <2>7. PICK m \in Nat : /\ DOMAIN call.containers = 1..m
                         /\ \A i \in 1..m : Amount(call.containers[i])
    BY <2>3, CountCalls
  <2>8. /\ Amount(cRes)
        /\ \A r : At(cRes, r) = Sum(call.containers, DOMAIN call.containers, r)
    BY <2>7, ContainersSum
  <2> HIDE DEF icRes, cRes, list
  <2>9. \A r : At(list, r) = QuantityMax(At(cRes, r), At(icRes, r)) + At(call.overhead, r)
    <3>1. /\ Amount(SetMax(cRes, icRes))
          /\ \A r : At(SetMax(cRes, icRes), r) = QuantityMax(At(cRes, r), At(icRes, r))
      BY <2>6, <2>8, SetMaxAt
    <3> QED BY <2>2, <2>4, <3>1, ListAddAt
  <2>10. answer.amount["pod"] = 1
    BY <2>1
  <2>11. ASSUME NEW r \in Listed
         PROVE  /\ At(answer.amount, r) \in InUse(call, r)
                /\ \A q \in InUse(call, r) : q <= At(answer.amount, r)
    <3> DEFINE over == At(call.overhead, r)
               most == At(icRes, r)
               all  == At(cRes, r)
               one(i) == At(call.init[i], r)
    <3>1. At(answer.amount, r) = At(list, r)
      BY <2>1, <2>11 DEF Listed, At
    <3>2. InUse(call, r) = {over + one(i) : i \in 1..n} \cup {over + all}
      BY <2>5, <2>8 DEF InUse, Sum
    <3>3. /\ over \in Nat /\ most \in Nat /\ all \in Nat
          /\ \A i \in 1..n : one(i) \in Nat /\ one(i) <= most
          /\ most = 0 \/ \E i \in 1..n : most = one(i)
      BY <2>4, <2>5, <2>6, <2>8, AtIsQuantity
    <3>4. At(answer.amount, r) = QuantityMax(all, most) + over
      BY <2>9, <3>1
    <3> HIDE DEF over, most, all, one
    <3>5. CASE most > all
      <4>1. PICK i \in 1..n : most = one(i)
        BY <3>3, <3>5
      <4>2. At(answer.amount, r) = over + one(i)
        BY <3>3, <3>4, <3>5, <4>1 DEF QuantityMax
      <4>3. \A k \in 1..n : over + one(k) <= over + one(i)
        BY <3>3, <4>1
      <4>4. over + all <= over + one(i)
        BY <3>3, <3>5, <4>1
      <4> QED BY <3>2, <4>2, <4>3, <4>4
    <3>6. CASE ~(most > all)
      <4>1. At(answer.amount, r) = over + all
        BY <3>3, <3>4, <3>6 DEF QuantityMax
      <4>2. \A k \in 1..n : over + one(k) <= over + all
        BY <3>3, <3>6
      <4>3. over + all <= over + all
        BY <3>3
      <4> QED BY <3>2, <4>1, <4>2, <4>3
    <3> QED BY <3>5, <3>6
  <2> QED BY <2>10, <2>11
<1>2. CallsAnswered => CountedIsThePeak
  BY <1>1 DEF CountedIsThePeak
<1> QED BY <1>2, CallsAnsweredAlways, PTL

(* SetMax and SetMin bound both lists and Sub undoes Add, whatever the     *)
(* lists mention (resourcelist.go).                                        *)
LEMMA LawsOfLists ==
    ASSUME NEW a, NEW b, Amount(a), Amount(b)
    PROVE  /\ GreaterOrEqual(SetMax(a, b), a) /\ GreaterOrEqual(SetMax(a, b), b)
           /\ GreaterOrEqual(a, SetMin(a, b)) /\ GreaterOrEqual(b, SetMin(a, b))
           /\ EqualTo(Sub(ListAdd(a, b), b), a)
           /\ GreaterOrEqual(a, b) /\ GreaterOrEqual(b, a) => EqualTo(a, b)
<1>1. /\ \A r \in DOMAIN a : a[r] \in Nat
      /\ \A r \in DOMAIN b : b[r] \in Nat
      /\ \A r : At(a, r) \in Nat /\ At(b, r) \in Nat
  BY AtIsQuantity DEF Amount
<1>2. GreaterOrEqual(SetMax(a, b), a) /\ GreaterOrEqual(SetMax(a, b), b)
  BY <1>1 DEF GreaterOrEqual, SetMax, QuantityMax
<1>3. GreaterOrEqual(a, SetMin(a, b)) /\ GreaterOrEqual(b, SetMin(a, b))
  BY <1>1 DEF GreaterOrEqual, SetMin, QuantityMin
<1>4. EqualTo(Sub(ListAdd(a, b), b), a)
  <2> DEFINE both == ListAdd(a, b)
             less == Sub(both, b)
  <2>1. \A r : At(both, r) = At(a, r) + At(b, r)
    BY ListAddAt
  <2>2. less = [r \in DOMAIN both \cup DOMAIN b |-> At(both, r) - At(b, r)]
    BY DEF Sub
  <2>3. DOMAIN both = DOMAIN a \cup DOMAIN b
    BY DEF ListAdd
  <2> HIDE DEF both, less
  <2>4. \A r \in DOMAIN less \cup DOMAIN a : At(less, r) = At(both, r) - At(b, r)
    BY <2>2, <2>3 DEF At
  <2>5. \A r \in DOMAIN less \cup DOMAIN a : At(less, r) = At(a, r)
    BY <1>1, <2>1, <2>4
  <2> QED BY <2>5 DEF EqualTo, less, both
<1>5. GreaterOrEqual(a, b) /\ GreaterOrEqual(b, a) => EqualTo(a, b)
  BY <1>1 DEF GreaterOrEqual, EqualTo, At
<1> QED BY <1>2, <1>3, <1>4, <1>5

(* The laws of the lists hold for the lists of every pod a reconcile       *)
(* counts (resourcelist.go).                                               *)
THEOREM ListLawsAlways == Spec => []ListLaws
<1>1. ASSUME CallsAnswered, Answered("count"),
             NEW a \in {call.overhead} \cup ToSet(call.init) \cup ToSet(call.containers)
      PROVE  Amount(a)
  <2>1. call \in Calls /\ call.op = "count"
    BY <1>1 DEF CallsAnswered, Answered
  <2>2. CASE a = call.overhead
    BY <2>1, <2>2, CountCalls
  <2>3. CASE a \in ToSet(call.init)
    <3>1. PICK i \in DOMAIN call.init : a = call.init[i]
      BY <2>3 DEF ToSet
    <3> QED BY <2>1, <3>1, CountCalls
  <2>4. CASE a \in ToSet(call.containers)
    <3>1. PICK i \in DOMAIN call.containers : a = call.containers[i]
      BY <2>4 DEF ToSet
    <3> QED BY <2>1, <3>1, CountCalls
  <2> QED BY <1>1, <2>2, <2>3, <2>4
<1>2. CallsAnswered => ListLaws
  BY <1>1, LawsOfLists DEF ListLaws
<1> QED BY <1>2, CallsAnsweredAlways, PTL
==============================================================================

----------------------------- MODULE OrderingProofs -----------------------------
(***************************************************************************)
(* What Sorted makes of a set: its elements, each once, in ascending       *)
(* order.  The rank of an element is strictly monotone, and takes every    *)
(* value up to the size of the set.                                        *)
(***************************************************************************)
EXTENDS Ordering, Sequences, FiniteSetsExt, FiniteSetTheorems,
        WellFoundedInduction, TLAPS

LEMMA MinIs ==
  ASSUME NEW T \in SUBSET Nat, T # {}
  PROVE  Min(T) \in T /\ \A y \in T : Min(T) <= y
<1> DEFINE R == {ss \in Nat \X Nat : ss[1] < ss[2]}
<1>1. IsWellFoundedOn(R, Nat)
  BY NatLessThanWellFounded DEF OpToRel
<1>2. PICK x \in T : \A y \in T : ~(<<y, x>> \in R)
  <2> HIDE DEF R
  <2> QED
    BY <1>1, WFMin
<1>3. \A y \in T : ~(y < x)
  BY <1>2
<1>4. \A y \in T : x <= y
  BY <1>3
<1> QED
  BY <1>4 DEF Min

LEMMA LeastOf ==
  ASSUME NEW T \in SUBSET Nat, T # {}
  PROVE  \E m \in T : \A y \in T : m <= y
BY MinIs

LEMMA Greatest ==
  ASSUME NEW n \in Nat, NEW T \in SUBSET (1..n), T # {}
  PROVE  \E x \in T : \A y \in T : y <= x
<1> DEFINE U == {n - x : x \in T}
<1>1. U \in SUBSET Nat
  OBVIOUS
<1>2. U # {}
  <2>1. PICK x \in T : TRUE
    OBVIOUS
  <2> QED
    BY <2>1
<1>3. Min(U) \in U /\ \A u \in U : Min(U) <= u
  <2> HIDE DEF U
  <2> QED
    BY <1>1, <1>2, MinIs
<1>4. PICK x \in T : Min(U) = n - x
  BY <1>3
<1>5. ASSUME NEW y \in T PROVE y <= x
  <2>1. n - y \in U
    OBVIOUS
  <2>2. n - x <= n - y
    BY <1>3, <1>4, <2>1
  <2> QED
    BY <2>2
<1> QED
  BY <1>5

LEMMA RankIs ==
  ASSUME NEW n \in Nat, NEW S \in SUBSET (1..n)
  PROVE  /\ IsFiniteSet(S) /\ Cardinality(S) \in Nat
         /\ \A i \in S : Rank(i, S) \in 1..Cardinality(S)
         /\ \A i, j \in S : i < j => Rank(i, S) < Rank(j, S)
         /\ \A i \in S : Cardinality({j \in S : j >= i}) = Cardinality(S) - Rank(i, S) + 1
<1> DEFINE Below(i) == {j \in S : j <= i}
           Above(i) == {j \in S : j >= i}
<1>0. \A j \in S : j \in Nat
  OBVIOUS
<1>1. IsFiniteSet(S) /\ Cardinality(S) \in Nat
  <2>1. IsFiniteSet(1..n)
    BY FS_Interval
  <2> QED
    BY <2>1, FS_Subset, FS_CardinalityType
<1>2. \A T \in SUBSET S : /\ IsFiniteSet(T) /\ Cardinality(T) \in Nat
                          /\ Cardinality(T) <= Cardinality(S)
  BY <1>1, FS_Subset, FS_CardinalityType
<1>3. ASSUME NEW i \in S PROVE Rank(i, S) = Cardinality(Below(i)) /\ Rank(i, S) \in 1..Cardinality(S)
  <2>1. Below(i) \in SUBSET S /\ i \in Below(i)
    OBVIOUS
  <2>2. Cardinality(Below(i)) # 0
    <3> HIDE DEF Below
    <3> QED
      BY <1>2, <2>1, FS_EmptySet
  <2>3. Rank(i, S) = Cardinality(Below(i))
    BY DEF Rank
  <2> HIDE DEF Below
  <2> QED
    BY <1>1, <1>2, <2>1, <2>2, <2>3
<1>4. ASSUME NEW i \in S, NEW j \in S, i < j PROVE Rank(i, S) < Rank(j, S)
  <2>0. Below(i) \in SUBSET S /\ Below(j) \in SUBSET S
    OBVIOUS
  <2>1. Below(i) \in SUBSET Below(j) /\ j \in Below(j) /\ j \notin Below(i)
    <3>1. \A x \in S : x <= i => x <= j
      BY <1>0, <1>4
    <3>2. j <= j /\ ~(j <= i)
      BY <1>0, <1>4
    <3> QED
      BY <3>1, <3>2
  <2> HIDE DEF Below
  <2>2. IsFiniteSet(Below(j))
    BY <1>2, <2>0
  <2>3. Cardinality(Below(i)) <= Cardinality(Below(j)) /\ Cardinality(Below(i)) # Cardinality(Below(j))
    BY <2>1, <2>2, FS_Subset
  <2> QED
    BY <1>2, <1>3, <2>0, <2>3
<1>5. ASSUME NEW i \in S PROVE Cardinality(Above(i)) = Cardinality(S) - Rank(i, S) + 1
  <2>0. Above(i) \in SUBSET S /\ Below(i) \in SUBSET S
    OBVIOUS
  <2>1. Above(i) \union Below(i) = S /\ Above(i) \intersect Below(i) = {i}
    <3>1. \A j \in S : j \in Above(i) \/ j \in Below(i)
      BY <1>0
    <3>2. \A j \in S : j \in Above(i) /\ j \in Below(i) <=> j = i
      BY <1>0
    <3> HIDE DEF Above, Below
    <3> QED
      BY <2>0, <3>1, <3>2
  <2> HIDE DEF Below, Above
  <2>2. Cardinality(S) = Cardinality(Above(i)) + Cardinality(Below(i)) - Cardinality({i})
    BY <1>2, <2>0, <2>1, FS_Union
  <2>3. Cardinality({i}) = 1
    BY FS_Singleton
  <2> QED
    BY <1>1, <1>2, <1>3, <2>0, <2>2, <2>3
<1> QED
  BY <1>1, <1>3, <1>4, <1>5

LEMMA RankOnto ==
  ASSUME NEW n \in Nat, NEW S \in SUBSET (1..n), NEW k \in 1..Cardinality(S)
  PROVE  \E i \in S : Rank(i, S) = k
<1> DEFINE B == {i \in S : Rank(i, S) >= k}
           L == {j \in S : j < Min(B)}
<1>1. /\ IsFiniteSet(S) /\ Cardinality(S) \in Nat
      /\ \A i \in S : Rank(i, S) \in 1..Cardinality(S)
      /\ \A i, j \in S : i < j => Rank(i, S) < Rank(j, S)
  BY RankIs
<1>0. \A j \in S : j \in Nat
  OBVIOUS
<1>2. B # {}
  <2>1. S # {}
    BY <1>1, FS_EmptySet
  <2>2. PICK g \in S : \A y \in S : y <= g
    BY <2>1, Greatest
  <2>3. {j \in S : j <= g} = S
    BY <2>2
  <2>4. Rank(g, S) = Cardinality(S)
    BY <2>3 DEF Rank
  <2> QED
    BY <1>1, <2>4
<1>3. Min(B) \in B /\ \A y \in B : Min(B) <= y
  <2>1. B \in SUBSET Nat
    BY <1>0
  <2> HIDE DEF B
  <2> QED
    BY <1>2, <2>1, MinIs
<1>4. Min(B) \in S /\ Rank(Min(B), S) >= k
  BY <1>3
<1>5. Rank(Min(B), S) = Cardinality(L) + 1 /\ Cardinality(L) \in Nat
  <2> DEFINE m == Min(B)
  <2>0. m \in S /\ m \in Nat
    BY <1>0, <1>4
  <2> HIDE DEF m
  <2>1. {j \in S : j <= m} = L \union {m} /\ m \notin L /\ L \in SUBSET S
    <3>1. \A x \in S : x <= m <=> x < m \/ x = m
      BY <1>0, <2>0
    <3>2. ~(m < m) /\ L = {x \in S : x < m}
      BY <2>0 DEF m
    <3> HIDE DEF L
    <3> QED
      BY <2>0, <3>1, <3>2
  <2> HIDE DEF L, B
  <2>2. IsFiniteSet(L) /\ Cardinality(L) \in Nat
    BY <1>1, <2>1, FS_Subset, FS_CardinalityType
  <2> QED
    BY <2>1, <2>2, FS_AddElement DEF Rank, m
<1>6. Cardinality(L) < k
  <2> SUFFICES ASSUME Cardinality(L) >= k PROVE FALSE
    BY <1>5
  <2>1. L # {}
    <3> HIDE DEF L
    <3> QED
      BY FS_EmptySet
  <2>2. PICK h \in L : \A y \in L : y <= h
    <3>1. L \in SUBSET (1..n)
      OBVIOUS
    <3> HIDE DEF L
    <3> QED
      BY <2>1, <3>1, Greatest
  <2>3. {j \in S : j <= h} = L
    <3> DEFINE m == Min(B)
    <3>0. m \in Nat /\ L = {x \in S : x < m}
      BY <1>0, <1>4
    <3> HIDE DEF m, L
    <3>1. \A x \in S : x <= h <=> x < m
      BY <1>0, <2>2, <3>0
    <3> QED
      BY <3>0, <3>1
  <2>4. h \in S /\ h < Min(B) /\ Rank(h, S) = Cardinality(L)
    BY <2>3 DEF Rank
  <2>5. h \in B
    BY <2>4
  <2>6. Min(B) \in Nat /\ h \in Nat
    BY <1>0, <1>4, <2>4
  <2> HIDE DEF B, L
  <2> QED
    BY <1>3, <2>4, <2>5, <2>6
<1>7. Rank(Min(B), S) = k
  <2> HIDE DEF B, L
  <2> QED
    BY <1>4, <1>5, <1>6
<1> QED
  BY <1>4, <1>7

LEMMA SortedIs ==
  ASSUME NEW n \in Nat, NEW S \in SUBSET (1..n)
  PROVE  /\ Cardinality(S) \in Nat
         /\ Sorted(S) \in [1..Cardinality(S) -> S]
         /\ Sorted(S) \in Seq(S) /\ Len(Sorted(S)) = Cardinality(S)
         /\ \A i \in S : \E k \in 1..Cardinality(S) : Sorted(S)[k] = i
         /\ \A j, k \in 1..Cardinality(S) : j < k => Sorted(S)[j] < Sorted(S)[k]
         /\ \A j, k \in 1..Cardinality(S) : j < k <=> Sorted(S)[j] < Sorted(S)[k]
<1> DEFINE s == Sorted(S)
           N == Cardinality(S)
<1>0. \A j \in S : j \in Nat
  OBVIOUS
<1>1. /\ N \in Nat
      /\ \A i \in S : Rank(i, S) \in 1..N
      /\ \A i, j \in S : i < j => Rank(i, S) < Rank(j, S)
  BY RankIs
<1>2. \A k \in 1..N : s[k] \in S /\ Rank(s[k], S) = k
  BY RankOnto DEF Sorted
<1>3. DOMAIN s = 1..N /\ s = [k \in 1..N |-> s[k]]
  BY DEF Sorted
<1> HIDE DEF s, N
<1>4. s \in [1..N -> S]
  BY <1>2, <1>3
<1>5. s \in Seq(S) /\ Len(s) = N
  BY <1>1, <1>4
<1>6. ASSUME NEW i \in S, NEW j \in S, Rank(i, S) = Rank(j, S) PROVE i = j
  BY <1>1, <1>6
<1>7. \A i \in S : \E k \in 1..N : s[k] = i
  <2> TAKE i \in S
  <2>1. Rank(i, S) \in 1..N /\ Rank(s[Rank(i, S)], S) = Rank(i, S) /\ s[Rank(i, S)] \in S
    BY <1>1, <1>2
  <2> QED
    BY <1>6, <2>1
<1>8. ASSUME NEW j \in 1..N, NEW k \in 1..N, j < k PROVE s[j] < s[k]
  <2>1. s[j] \in S /\ s[k] \in S /\ Rank(s[j], S) = j /\ Rank(s[k], S) = k
    BY <1>2
  <2>2. ~(s[k] < s[j])
    <3> SUFFICES ASSUME s[k] < s[j] PROVE FALSE
      OBVIOUS
    <3>1. Rank(s[k], S) < Rank(s[j], S)
      BY <1>1, <2>1
    <3> QED
      BY <1>1, <1>8, <2>1, <3>1
  <2>3. s[j] # s[k]
    BY <1>1, <1>8, <2>1
  <2>4. s[j] \in Nat /\ s[k] \in Nat
    BY <1>0, <2>1
  <2> QED
    BY <2>2, <2>3, <2>4
<1>9. ASSUME NEW j \in 1..N, NEW k \in 1..N, s[j] < s[k] PROVE j < k
  <2>1. s[j] \in 1..n /\ s[k] \in 1..n
    BY <1>2
  <2>2. ~(k < j) /\ j # k
    BY <1>8, <1>9, <2>1
  <2> QED
    BY <2>2
<1> QED
  BY <1>1, <1>4, <1>5, <1>7, <1>8, <1>9 DEF s, N

(* A set counted off in ascending order is sorted that way.                *)
LEMMA CountedOff ==
  ASSUME NEW S \in SUBSET Nat, NEW m \in Nat, NEW number \in [1..m -> S],
         \A j, k \in 1..m : j < k => number[j] < number[k],
         \A i \in S : \E k \in 1..m : number[k] = i
  PROVE  Sorted(S) = number
<1> DEFINE Below(k) == {j \in S : j <= number[k]}
<1>1. \A j, k \in 1..m : j <= k <=> number[j] <= number[k]
  <2> SUFFICES ASSUME NEW j \in 1..m, NEW k \in 1..m PROVE j <= k <=> number[j] <= number[k]
    OBVIOUS
  <2>1. number[j] \in Nat /\ number[k] \in Nat
    OBVIOUS
  <2>2. j < k => number[j] < number[k]
    OBVIOUS
  <2>3. k < j => number[k] < number[j]
    OBVIOUS
  <2> QED
    BY <2>1, <2>2, <2>3
<1>2. \A j, k \in 1..m : number[j] = number[k] => j = k
  <2> SUFFICES ASSUME NEW j \in 1..m, NEW k \in 1..m, number[j] = number[k] PROVE j = k
    OBVIOUS
  <2>1. number[j] \in Nat /\ number[k] \in Nat
    OBVIOUS
  <2>2. j <= k /\ k <= j
    BY <1>1, <2>1
  <2> QED
    BY <2>2
<1>3. Cardinality(S) = m
  <2>1. number \in Bijection(1..m, S)
    BY <1>2 DEF Bijection, Injection, Surjection, IsInjective
  <2>2. IsFiniteSet(1..m) /\ Cardinality(1..m) = m
    BY FS_Interval
  <2> QED
    BY <2>1, <2>2, FS_Bijection DEF ExistsBijection
<1>4. ASSUME NEW k \in 1..m PROVE Rank(number[k], S) = k
  <2> DEFINE first == [j \in 1..k |-> number[j]]
  <2>1. \A j \in 1..k : j \in 1..m /\ j <= k
    OBVIOUS
  <2>2. \A j \in 1..k : number[j] \in Below(k)
    BY <1>1, <2>1
  <2>3. \A i \in Below(k) : \E j \in 1..k : number[j] = i
    <3> TAKE i \in Below(k)
    <3>1. PICK j \in 1..m : number[j] = i
      OBVIOUS
    <3>2. j <= k
      BY <1>1, <3>1
    <3> QED
      BY <3>1, <3>2
  <2> HIDE DEF Below
  <2>4. first \in Bijection(1..k, Below(k))
    BY <1>2, <2>1, <2>2, <2>3 DEF Bijection, Injection, Surjection, IsInjective
  <2>5. IsFiniteSet(1..k) /\ Cardinality(1..k) = k
    BY FS_Interval
  <2>6. Cardinality(Below(k)) = k
    BY <2>4, <2>5, FS_Bijection DEF ExistsBijection
  <2> QED
    BY <2>6 DEF Rank, Below
<1>5. ASSUME NEW k \in 1..m PROVE (CHOOSE i \in S : Rank(i, S) = k) = number[k]
  <2>1. number[k] \in S /\ Rank(number[k], S) = k
    BY <1>4
  <2>2. \A i \in S : Rank(i, S) = k => i = number[k]
    BY <1>4
  <2> QED
    BY <2>1, <2>2
<1>6. Sorted(S) = [k \in 1..m |-> CHOOSE i \in S : Rank(i, S) = k]
  BY <1>3 DEF Sorted
<1> QED
  BY <1>5, <1>6

(* The greatest element comes last, and an empty set leaves nothing.       *)
LEMMA GreatestLast ==
  ASSUME NEW S \in SUBSET Nat, IsFiniteSet(S), NEW last \in S, \A i \in S : i <= last
  PROVE  /\ Cardinality(S) \in Nat \ {0}
         /\ DOMAIN Sorted(S) = 1..Cardinality(S)
         /\ Sorted(S)[Cardinality(S)] = last
<1> DEFINE N == Cardinality(S)
<1>1. N \in Nat \ {0}
  BY FS_CardinalityType, FS_EmptySet
<1>2. Rank(last, S) = N
  <2>1. {j \in S : j <= last} = S
    OBVIOUS
  <2> QED
    BY <2>1 DEF Rank
<1>3. ASSUME NEW i \in S, Rank(i, S) = N PROVE i = last
  <2> DEFINE T == {j \in S : j <= i}
  <2>1. T \in SUBSET S /\ Cardinality(T) = N
    BY <1>3 DEF Rank
  <2>2. T = S
    <3> HIDE DEF T
    <3> QED
      BY <2>1, FS_Subset
  <2>3. last <= i /\ i <= last /\ i \in Nat /\ last \in Nat
    BY <2>2
  <2> QED
    BY <2>3
<1>4. (CHOOSE i \in S : Rank(i, S) = N) = last
  BY <1>2, <1>3
<1>5. Sorted(S) = [k \in 1..N |-> CHOOSE i \in S : Rank(i, S) = k]
  BY DEF Sorted
<1> HIDE DEF N
<1> QED
  BY <1>1, <1>4, <1>5 DEF N

LEMMA NoneSorted == Sorted({}) = <<>>
<1>1. Cardinality({}) = 0
  BY FS_EmptySet
<1> QED
  BY <1>1 DEF Sorted
===============================================================================

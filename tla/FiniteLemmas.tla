---------------------------- MODULE FiniteLemmas ----------------------------
(***************************************************************************)
(* Facts about finite sets of positions, lists without duplicates and order *)
(* statistics: what Subsequences!Keep returns, what a list that grows by    *)
(* appending holds, and why a median is honest when fewer than half of the  *)
(* values it is taken of are not.                                          *)
(***************************************************************************)
EXTENDS Median, Subsequences, FiniteSetTheorems, FunctionTheorems,
        SequenceTheorems, TLAPS

(* Subsequences                                                            *)

\* Ranks number the positions K from 1 to Cardinality(K), in order.
LEMMA RankProperties ==
  ASSUME NEW n \in Nat, NEW K \in SUBSET (1 .. n)
  PROVE  /\ Cardinality(K) \in Nat
         /\ \A i \in K : Rank(K, i) \in 1 .. Cardinality(K)
         /\ \A i, j \in K : i < j => Rank(K, i) < Rank(K, j)
         /\ \A m \in 1 .. Cardinality(K) : \E i \in K : Rank(K, i) = m
<1> DEFINE Below(i) == {j \in K : j <= i}
<1>0. K \in SUBSET Nat
  OBVIOUS
<1>1. IsFiniteSet(K) /\ Cardinality(K) \in Nat
  <2>1. IsFiniteSet(1 .. n)
    BY FS_Interval
  <2>2. IsFiniteSet(K)
    BY <2>1, FS_Subset
  <2> QED BY <2>2, FS_CardinalityType
<1>2. \A i \in K : IsFiniteSet(Below(i)) /\ Cardinality(Below(i)) \in Nat
  BY <1>1, FS_Subset, FS_CardinalityType
<1>3. ASSUME NEW i \in K PROVE Rank(K, i) \in 1 .. Cardinality(K)
  <2>1. Cardinality(Below(i)) <= Cardinality(K)
    BY <1>1, FS_Subset
  <2>2. i \in Below(i)
    BY <1>0
  <2>3. Cardinality(Below(i)) # 0
    BY <1>2, <2>2, FS_EmptySet
  <2> QED BY <1>1, <1>2, <2>1, <2>3 DEF Rank
<1>4. ASSUME NEW i \in K, NEW j \in K, i < j PROVE Rank(K, i) < Rank(K, j)
  <2>1. Below(i) \in SUBSET Below(j)
    <3>1. ASSUME NEW k \in Below(i) PROVE k \in Below(j)
      <4>1. k \in Nat /\ i \in Nat /\ j \in Nat /\ k \in K /\ k <= i
        BY <1>0
      <4>2. k <= j
        BY <1>4, <4>1
      <4> QED BY <4>1, <4>2
    <3> HIDE DEF Below
    <3> QED BY <3>1
  <2>2. j \in Below(j) /\ j \notin Below(i)
    BY <1>0, <1>4
  <2>3. /\ Cardinality(Below(i)) <= Cardinality(Below(j))
        /\ Cardinality(Below(j)) = Cardinality(Below(i)) => Below(j) = Below(i)
    BY <1>2, <2>1, FS_Subset
  <2> HIDE DEF Below
  <2>4. Cardinality(Below(i)) < Cardinality(Below(j))
    BY <1>2, <2>2, <2>3
  <2> QED BY <2>4 DEF Rank, Below
<1>5. ASSUME NEW m \in 1 .. Cardinality(K) PROVE \E i \in K : Rank(K, i) = m
  <2> DEFINE f == [i \in K |-> Rank(K, i)]
             T == 1 .. Cardinality(K)
  <2>1. f \in [K -> T]
    BY <1>3
  <2>2. \A i, j \in K : i # j => f[i] # f[j]
    BY <1>3, <1>4
  <2>3. f \in Injection(K, T)
    BY <2>1, <2>2, Fun_IsInj
  <2>4. IsFiniteSet(T) /\ Cardinality(T) = Cardinality(K)
    BY <1>1, FS_Interval
  <2>5. f \in Surjection(K, T)
    BY <2>3, <2>4, FS_Injection
  <2> QED BY <2>5 DEF Surjection
<1> QED BY <1>1, <1>3, <1>4, <1>5

\* Taking positions out never moves an element back.
LEMMA RankBound ==
  ASSUME NEW n \in Nat, NEW K \in SUBSET (1 .. n), NEW i \in K
  PROVE  Rank(K, i) <= i
<1>1. {j \in K : j <= i} \in SUBSET (1 .. i) /\ i \in Nat
  <2>1. i \in Nat /\ \A j \in K : j \in Nat /\ 1 <= j
    OBVIOUS
  <2>2. \A j \in K : j <= i => j \in 1 .. i
    BY <2>1
  <2> QED BY <2>1, <2>2
<1>2. IsFiniteSet(1 .. i) /\ Cardinality(1 .. i) = i
  BY <1>1, FS_Interval
<1>3. Cardinality({j \in K : j <= i}) <= Cardinality(1 .. i)
  BY <1>1, <1>2, FS_Subset
<1> QED BY <1>2, <1>3 DEF Rank

\* The order of two ranks is that of their positions.
LEMMA RankReflectsOrder ==
  ASSUME NEW n \in Nat, NEW K \in SUBSET (1 .. n)
  PROVE  \A i, j \in K : Rank(K, i) < Rank(K, j) => i < j
<1>1. /\ \A i \in K : Rank(K, i) \in 1 .. Cardinality(K)
      /\ \A i, j \in K : i < j => Rank(K, i) < Rank(K, j)
      /\ Cardinality(K) \in Nat
  BY RankProperties, Zenon
<1> SUFFICES ASSUME NEW i \in K, NEW j \in K, Rank(K, i) < Rank(K, j)
             PROVE  i < j
  OBVIOUS
<1>2. Rank(K, i) \in Nat /\ Rank(K, j) \in Nat
  BY <1>1
<1>3. ~ (j < i) /\ i # j
  BY <1>1, <1>2
<1> QED BY <1>3

\* A nonempty set of positions has a least one: the one of rank 1.
LEMMA LeastPosition ==
  ASSUME NEW n \in Nat, NEW K \in SUBSET (1 .. n), K # {}
  PROVE  \E i \in K : \A j \in K : i <= j
<1>1. K \subseteq Nat /\ IsFiniteSet(K)
  <2>1. IsFiniteSet(1 .. n)
    BY FS_Interval
  <2>2. IsFiniteSet(K)
    BY <2>1, FS_Subset
  <2>3. K \subseteq Nat
    OBVIOUS
  <2> QED BY <2>2, <2>3
<1>2. Cardinality(K) \in Nat /\ Cardinality(K) # 0
  BY <1>1, FS_EmptySet, FS_CardinalityType
<1>3. /\ \A i \in K : Rank(K, i) \in 1 .. Cardinality(K)
      /\ \A i, j \in K : i < j => Rank(K, i) < Rank(K, j)
      /\ \A m \in 1 .. Cardinality(K) : \E i \in K : Rank(K, i) = m
  BY RankProperties, Zenon
<1>4. PICK i \in K : Rank(K, i) = 1
  BY <1>2, <1>3
<1>5. ASSUME NEW j \in K PROVE i <= j
  <2>1. ~ (Rank(K, j) < Rank(K, i))
    BY <1>3, <1>4
  <2>2. ~ (j < i)
    BY <1>3, <2>1
  <2> QED BY <1>1, <2>2
<1> QED BY <1>5

\* Keep(s, K) is a sequence of the elements of s at K, in their order.
LEMMA KeepProperties ==
  ASSUME NEW S, NEW s \in Seq(S), NEW K \in SUBSET DOMAIN s
  PROVE  /\ Keep(s, K) \in Seq(S)
         /\ \A n \in DOMAIN Keep(s, K) : \E i \in K :
              Rank(K, i) = n /\ Keep(s, K)[n] = s[i]
         /\ \A i \in K : /\ Rank(K, i) \in DOMAIN Keep(s, K)
                         /\ Keep(s, K)[Rank(K, i)] = s[i]
<1> DEFINE At(n) == CHOOSE i \in K : Rank(K, i) = n
<1>1. /\ Len(s) \in Nat
      /\ DOMAIN s = 1 .. Len(s)
      /\ K \in SUBSET (1 .. Len(s))
  OBVIOUS
<1>2. /\ Cardinality(K) \in Nat
      /\ \A i \in K : Rank(K, i) \in 1 .. Cardinality(K)
      /\ \A i, j \in K : i < j => Rank(K, i) < Rank(K, j)
      /\ \A n \in 1 .. Cardinality(K) : \E i \in K : Rank(K, i) = n
  BY <1>1, RankProperties
<1>3. \A n \in 1 .. Cardinality(K) : At(n) \in K /\ Rank(K, At(n)) = n
  BY <1>2
<1>4. Keep(s, K) = [n \in 1 .. Cardinality(K) |-> s[At(n)]]
  BY DEF Keep
<1>5. \A n \in 1 .. Cardinality(K) : s[At(n)] \in S
  <2>1. \A i \in DOMAIN s : s[i] \in S
    OBVIOUS
  <2> QED BY <1>3, <2>1
<1>6. \A i \in K : At(Rank(K, i)) = i
  <2> TAKE i \in K
  <2>1. At(Rank(K, i)) \in K /\ Rank(K, At(Rank(K, i))) = Rank(K, i)
    BY <1>2, <1>3
  <2> HIDE DEF At
  <2>2. At(Rank(K, i)) \in Nat /\ i \in Nat
    BY <1>1, <2>1
  <2>3. \A j, k \in K : j < k => Rank(K, j) # Rank(K, k)
    BY <1>2
  <2> QED BY <2>1, <2>2, <2>3
<1> HIDE DEF At
<1>7. Keep(s, K) \in Seq(S)
  BY <1>2, <1>4, <1>5
<1>8. ASSUME NEW n \in DOMAIN Keep(s, K)
      PROVE  \E i \in K : Rank(K, i) = n /\ Keep(s, K)[n] = s[i]
  BY <1>3, <1>4
<1>9. ASSUME NEW i \in K
      PROVE  Rank(K, i) \in DOMAIN Keep(s, K) /\ Keep(s, K)[Rank(K, i)] = s[i]
  BY <1>2, <1>4, <1>6
<1> QED BY <1>7, <1>8, <1>9

-----------------------------------------------------------------------------
(* Lists                                                                   *)

NoDuplicates(s) == \A i, j \in DOMAIN s : s[i] = s[j] => i = j
Holds(s, x) == \E i \in DOMAIN s : s[i] = x

\* Appending an element that a list does not hold.
LEMMA AppendHolds ==
  ASSUME NEW S, NEW s \in Seq(S), NEW x \in S
  PROVE  /\ Append(s, x) \in Seq(S)
         /\ \A y : Holds(Append(s, x), y) <=> Holds(s, y) \/ y = x
         /\ NoDuplicates(s) /\ ~ Holds(s, x) => NoDuplicates(Append(s, x))
<1> DEFINE t == Append(s, x)
<1>1. /\ t \in Seq(S) /\ Len(t) = Len(s) + 1 /\ Len(s) \in Nat
      /\ DOMAIN s = 1 .. Len(s) /\ DOMAIN t = 1 .. Len(t)
      /\ \A i \in 1 .. Len(s) : t[i] = s[i]
      /\ t[Len(s) + 1] = x
  BY AppendProperties, LenProperties
<1> HIDE DEF t
<1>2. \A i \in DOMAIN t : i \in DOMAIN s \/ i = Len(s) + 1
  BY <1>1
<1>3. \A i \in DOMAIN s : i \in DOMAIN t /\ i # Len(s) + 1
  BY <1>1
<1>4. Len(s) + 1 \in DOMAIN t
  BY <1>1
<1>5. \A y : Holds(t, y) <=> Holds(s, y) \/ y = x
  BY <1>1, <1>2, <1>3, <1>4 DEF Holds
<1>6. NoDuplicates(s) /\ ~ Holds(s, x) => NoDuplicates(t)
  BY <1>1, <1>2 DEF Holds, NoDuplicates
<1> QED BY <1>1, <1>5, <1>6 DEF t

\* The positions of a list without duplicates that hold members of T are as many as T
\* has, if the list holds them all.
LEMMA PositionsOf ==
  ASSUME NEW S, NEW s \in Seq(S), NoDuplicates(s),
         NEW T, \A x \in T : Holds(s, x)
  PROVE  /\ IsFiniteSet(T)
         /\ IsFiniteSet({n \in DOMAIN s : s[n] \in T})
         /\ Cardinality({n \in DOMAIN s : s[n] \in T}) = Cardinality(T)
         /\ Cardinality(T) <= Len(s)
<1> DEFINE P == {n \in DOMAIN s : s[n] \in T}
           f == [n \in P |-> s[n]]
<1>1. Len(s) \in Nat /\ DOMAIN s = 1 .. Len(s)
  BY LenProperties
<1>2. IsFiniteSet(DOMAIN s) /\ Cardinality(DOMAIN s) = Len(s)
  BY <1>1, FS_Interval
<1>3. IsFiniteSet(P) /\ Cardinality(P) <= Len(s)
  BY <1>2, FS_Subset
<1>4. /\ f \in [P -> T]
      /\ \A m, n \in P : f[m] = f[n] => m = n
      /\ \A x \in T : \E n \in P : f[n] = x
  BY DEF NoDuplicates, Holds
<1> HIDE DEF P, f
<1>5. f \in Bijection(P, T)
  BY <1>4, Fun_IsBij
<1>6. ExistsBijection(P, T)
  BY <1>5, Fun_ExistsBij
<1>7. IsFiniteSet(T) /\ Cardinality(T) = Cardinality(P)
  BY <1>3, <1>6, FS_Bijection
<1> QED BY <1>3, <1>7 DEF P

-----------------------------------------------------------------------------
(* Order statistics                                                        *)

AtMost(D, v, x) == {d \in D : v[d] <= x}
Below(D, v, x) == {d \in D : v[d] < x}
Above(D, v, x) == {d \in D : v[d] > x}

\* A nonempty set of naturals has a least element.
LEMMA LeastNatural ==
  ASSUME NEW S \in SUBSET Nat, S # {}
  PROVE  \E m \in S : \A x \in S : m <= x
<1>1. PICK n \in S : TRUE
  OBVIOUS
<1> DEFINE K == {i \in 1 .. n + 1 : i - 1 \in S}
<1>2. n \in Nat /\ n + 1 \in Nat /\ K \in SUBSET (1 .. n + 1)
  OBVIOUS
<1>3. n + 1 \in K
  BY <1>1, <1>2
<1>4. PICK i \in K : \A j \in K : i <= j
  <2>1. K # {}
    BY <1>3
  <2> HIDE DEF K
  <2> QED BY <1>2, <2>1, LeastPosition
<1>5. ASSUME NEW x \in S PROVE i - 1 <= x
  <2>1. CASE x <= n
    <3>1. x + 1 \in K
      BY <1>2, <2>1
    <3>2. i <= x + 1 /\ i \in Nat /\ x \in Nat
      BY <1>4, <3>1
    <3> QED BY <3>2
  <2>2. CASE x > n
    BY <1>2, <1>4, <2>2
  <2> QED BY <1>2, <2>1, <2>2
<1> QED BY <1>4, <1>5

\* A finite nonempty family of naturals has a greatest value.
LEMMA GreatestValue ==
  ASSUME NEW D, IsFiniteSet(D), D # {}, NEW v \in [D -> Nat]
  PROVE  \E d \in D : \A e \in D : v[e] <= v[d]
<1> DEFINE size(d) == Cardinality(Above(D, v, v[d]))
<1> DEFINE Sizes == {size(d) : d \in D}
<1>1. \A d \in D : IsFiniteSet(Above(D, v, v[d])) /\ size(d) \in Nat
  <2> TAKE d \in D
  <2>1. Above(D, v, v[d]) \in SUBSET D
    BY DEF Above
  <2>2. IsFiniteSet(Above(D, v, v[d]))
    BY <2>1, FS_Subset
  <2> QED BY <2>2, FS_CardinalityType
<1>2. Sizes \in SUBSET Nat /\ Sizes # {}
  BY <1>1
<1>3. PICK m \in Sizes : \A x \in Sizes : m <= x
  <2> HIDE DEF Sizes
  <2> QED BY <1>2, LeastNatural
<1>4. PICK d \in D : m = size(d)
  OBVIOUS
<1>5. \A e \in D : size(d) <= size(e)
  BY <1>3, <1>4
<1>6. ASSUME NEW e \in D, v[e] > v[d] PROVE FALSE
  <2>1. Above(D, v, v[e]) \in SUBSET Above(D, v, v[d])
    BY <1>6 DEF Above
  <2>2. e \in Above(D, v, v[d]) /\ e \notin Above(D, v, v[e])
    BY <1>6 DEF Above
  <2>3. size(e) <= size(d) /\ size(e) # size(d)
    <3>1. /\ size(e) <= size(d)
          /\ size(d) = size(e) => Above(D, v, v[d]) = Above(D, v, v[e])
      BY <1>1, <2>1, FS_Subset
    <3> QED BY <2>2, <3>1
  <2> HIDE DEF size
  <2> QED BY <1>1, <1>5, <2>3
<1> QED BY <1>6

\* The k-th smallest value is one of the family; fewer than k values are below it
\* and at least k are not above it.
LEMMA KthSmallestProperties ==
  ASSUME NEW D, IsFiniteSet(D), NEW v \in [D -> Nat],
         NEW k \in 1 .. Cardinality(D)
  PROVE  /\ KthSmallest(D, v, k) \in {v[d] : d \in D}
         /\ Cardinality(Below(D, v, KthSmallest(D, v, k))) < k
         /\ Cardinality(AtMost(D, v, KthSmallest(D, v, k))) >= k
<1> DEFINE Values == {v[d] : d \in D}
           Enough == {x \in Values : Cardinality(AtMost(D, v, x)) >= k}
<1>1. Cardinality(D) \in Nat /\ k \in Nat
  BY FS_CardinalityType
<1>2. D # {}
  BY <1>1, FS_EmptySet
<1>3. PICK top \in D : \A e \in D : v[e] <= v[top]
  BY <1>2, GreatestValue
<1>4. AtMost(D, v, v[top]) = D
  BY <1>3 DEF AtMost
<1>5. Enough \in SUBSET Nat /\ Enough # {}
  <2>1. v[top] \in Enough
    BY <1>1, <1>4
  <2> QED BY <2>1
<1>6. PICK x \in Enough : \A y \in Enough : x <= y
  <2> HIDE DEF Enough
  <2> QED BY <1>5, LeastNatural
<1>7. IsFiniteSet(Below(D, v, x)) /\ Cardinality(Below(D, v, x)) \in Nat
  <2>1. Below(D, v, x) \in SUBSET D
    BY DEF Below
  <2>2. IsFiniteSet(Below(D, v, x))
    BY <2>1, FS_Subset
  <2> QED BY <2>2, FS_CardinalityType
<1>8. Cardinality(Below(D, v, x)) < k
  <2> SUFFICES ASSUME Cardinality(Below(D, v, x)) >= k PROVE FALSE
    BY <1>1, <1>7
  <2>1. Below(D, v, x) # {}
    BY <1>1, FS_EmptySet
  <2>2. [d \in Below(D, v, x) |-> v[d]] \in [Below(D, v, x) -> Nat]
    BY DEF Below
  <2>3. PICK e \in Below(D, v, x) : \A d \in Below(D, v, x) : v[d] <= v[e]
    <3>1. \E e \in Below(D, v, x) : \A d \in Below(D, v, x) :
            [f \in Below(D, v, x) |-> v[f]][d] <= [f \in Below(D, v, x) |-> v[f]][e]
      BY <1>7, <2>1, <2>2, GreatestValue
    <3> QED BY <3>1
  <2>4. e \in D /\ v[e] < x
    BY DEF Below
  <2>5. Cardinality(AtMost(D, v, v[e])) >= Cardinality(Below(D, v, x))
    <3>1. AtMost(D, v, v[e]) \in SUBSET D
      BY DEF AtMost
    <3>2. IsFiniteSet(AtMost(D, v, v[e]))
      BY <3>1, FS_Subset
    <3>3. Below(D, v, x) \in SUBSET AtMost(D, v, v[e])
      BY <2>3 DEF Below, AtMost
    <3> QED BY <3>2, <3>3, FS_Subset, FS_CardinalityType
  <2>6. Cardinality(AtMost(D, v, v[e])) \in Nat
    <3>1. AtMost(D, v, v[e]) \in SUBSET D
      BY DEF AtMost
    <3>2. IsFiniteSet(AtMost(D, v, v[e]))
      BY <3>1, FS_Subset
    <3> QED BY <3>2, FS_CardinalityType
  <2>7. v[e] \in Enough
    BY <1>1, <1>7, <2>4, <2>5, <2>6
  <2>8. x <= v[e] /\ x \in Nat /\ v[e] \in Nat
    BY <1>5, <1>6, <2>7
  <2> QED BY <2>4, <2>8
<1>9. \E y \in Values :
        /\ Cardinality({d \in D : v[d] < y}) < k
        /\ Cardinality({d \in D : v[d] <= y}) >= k
  BY <1>6, <1>8 DEF Below, AtMost
<1> QED BY <1>9 DEF KthSmallest, Below, AtMost

\* A later rank has no smaller value.
LEMMA KthSmallestMonotone ==
  ASSUME NEW D, IsFiniteSet(D), NEW v \in [D -> Nat],
         NEW k \in 1 .. Cardinality(D), NEW l \in 1 .. Cardinality(D), k <= l
  PROVE  KthSmallest(D, v, k) <= KthSmallest(D, v, l)
<1> DEFINE x == KthSmallest(D, v, k)
           y == KthSmallest(D, v, l)
<1>1. x \in Nat /\ Cardinality(Below(D, v, x)) < k
  BY KthSmallestProperties
<1>2. y \in Nat /\ Cardinality(AtMost(D, v, y)) >= l
  BY KthSmallestProperties
<1> HIDE DEF x, y
<1> SUFFICES ASSUME y < x PROVE FALSE
  BY <1>1, <1>2 DEF x, y
<1>3. AtMost(D, v, y) \in SUBSET Below(D, v, x) /\ Below(D, v, x) \in SUBSET D
  BY <1>1, <1>2 DEF AtMost, Below
<1>4. IsFiniteSet(Below(D, v, x)) /\ IsFiniteSet(AtMost(D, v, y))
  BY <1>3, FS_Subset
<1>5. Cardinality(AtMost(D, v, y)) <= Cardinality(Below(D, v, x))
  BY <1>3, <1>4, FS_Subset
<1>6. Cardinality(AtMost(D, v, y)) \in Nat /\ Cardinality(Below(D, v, x)) \in Nat
  BY <1>4, FS_CardinalityType
<1> QED BY <1>1, <1>2, <1>5, <1>6

\* With fewer than k values bad, and as many as k good ones left when k - 1 are put
\* aside, the k-th smallest value lies between two good ones.
LEMMA KthSmallestHonest ==
  ASSUME NEW D, IsFiniteSet(D), NEW v \in [D -> Nat], NEW Bad \in SUBSET D,
         NEW k \in 1 .. Cardinality(D),
         Cardinality(Bad) < k, k <= Cardinality(D) - Cardinality(Bad)
  PROVE  \E g, h \in D \ Bad :
           v[g] <= KthSmallest(D, v, k) /\ KthSmallest(D, v, k) <= v[h]
<1> DEFINE x == KthSmallest(D, v, k)
           Good == D \ Bad
<1>1. /\ x \in Nat
      /\ Cardinality(Below(D, v, x)) < k
      /\ Cardinality(AtMost(D, v, x)) >= k
  BY KthSmallestProperties
<1>2. /\ IsFiniteSet(Bad) /\ IsFiniteSet(Good)
      /\ Cardinality(Bad) \in Nat /\ Cardinality(Good) \in Nat
      /\ Cardinality(D) \in Nat
      /\ Cardinality(Good) = Cardinality(D) - Cardinality(Bad)
  <2>1. IsFiniteSet(Bad)
    BY FS_Subset
  <2>2. IsFiniteSet(Good) /\ Cardinality(Good) = Cardinality(D) - Cardinality(D \cap Bad)
    BY FS_Difference
  <2>3. D \cap Bad = Bad
    OBVIOUS
  <2> QED BY <2>1, <2>2, <2>3, FS_CardinalityType
<1> HIDE DEF x
<1>3. \E g \in Good : v[g] <= x
  <2> SUFFICES ASSUME \A g \in Good : ~(v[g] <= x) PROVE FALSE
    OBVIOUS
  <2>1. AtMost(D, v, x) \in SUBSET Bad
    BY DEF AtMost
  <2>2. Cardinality(AtMost(D, v, x)) <= Cardinality(Bad)
    BY <1>2, <2>1, FS_Subset
  <2>3. Cardinality(AtMost(D, v, x)) \in Nat
    BY <1>2, <2>1, FS_Subset, FS_CardinalityType
  <2> QED BY <1>1, <1>2, <2>2, <2>3
<1>4. \E h \in Good : x <= v[h]
  <2> SUFFICES ASSUME \A h \in Good : ~(x <= v[h]) PROVE FALSE
    OBVIOUS
  <2>1. Good \in SUBSET Below(D, v, x)
    BY <1>1 DEF Below
  <2>2. IsFiniteSet(Below(D, v, x))
    <3>1. Below(D, v, x) \in SUBSET D
      BY DEF Below
    <3> QED BY <3>1, FS_Subset
  <2>3. Cardinality(Good) <= Cardinality(Below(D, v, x))
    BY <2>1, <2>2, FS_Subset
  <2>4. Cardinality(Below(D, v, x)) \in Nat
    BY <2>2, FS_CardinalityType
  <2> QED BY <1>1, <1>2, <2>3, <2>4
<1> QED BY <1>3, <1>4 DEF x

\* Halving before adding loses nothing: the midpoint lies between its arguments.
LEMMA MidpointBetween ==
  ASSUME NEW a \in Nat, NEW b \in Nat, a <= b
  PROVE  /\ Midpoint(a, b) \in Nat /\ a <= Midpoint(a, b) /\ Midpoint(a, b) <= b
         /\ Midpoint(b, a) \in Nat /\ a <= Midpoint(b, a) /\ Midpoint(b, a) <= b
  BY DEF Midpoint

\* The median lies between two good values when fewer than half are bad.
LEMMA MedianHonest ==
  ASSUME NEW D, IsFiniteSet(D), NEW v \in [D -> Nat], NEW Bad \in SUBSET D,
         2 * Cardinality(Bad) < Cardinality(D)
  PROVE  /\ Median(D, v) \in Nat
         /\ \E g, h \in D \ Bad : v[g] <= Median(D, v) /\ Median(D, v) <= v[h]
<1> DEFINE n == Cardinality(D)
           x == KthSmallest(D, v, n \div 2)
           y == KthSmallest(D, v, n \div 2 + 1)
<1>1. n \in Nat /\ Cardinality(Bad) \in Nat
  BY FS_Subset, FS_CardinalityType
<1> DEFINE m == Cardinality(Bad)
<1> HIDE DEF n, m
<1>2. 2 * m < n
  BY DEF n, m
<1>3. CASE n % 2 = 1
  <2>1. n \div 2 + 1 \in 1 .. n /\ m < n \div 2 + 1 /\ n \div 2 + 1 <= n - m
    BY <1>1, <1>2, <1>3 DEF m
  <2>2. y \in Nat
    BY <2>1, KthSmallestProperties DEF n
  <2>3. \E g, h \in D \ Bad : v[g] <= y /\ y <= v[h]
    BY <2>1, KthSmallestHonest DEF n, m
  <2> QED BY <1>3, <2>2, <2>3 DEF Median, n
<1>4. CASE n % 2 # 1
  <2>1. /\ n \div 2 \in 1 .. n /\ m < n \div 2 /\ n \div 2 <= n - m
        /\ n \div 2 + 1 \in 1 .. n /\ m < n \div 2 + 1 /\ n \div 2 + 1 <= n - m
    BY <1>1, <1>2, <1>4 DEF m
  <2>2. x \in Nat /\ y \in Nat
    BY <2>1, KthSmallestProperties DEF n
  <2>3. PICK g1, h1 \in D \ Bad : v[g1] <= x /\ x <= v[h1]
    BY <2>1, KthSmallestHonest DEF n, m
  <2>4. PICK g2, h2 \in D \ Bad : v[g2] <= y /\ y <= v[h2]
    BY <2>1, KthSmallestHonest DEF n, m
  <2>5. Median(D, v) = Midpoint(x, y)
    BY <1>4 DEF Median, n
  <2> HIDE DEF x, y
  <2>6. CASE x <= y
    <3>1. Midpoint(x, y) \in Nat /\ x <= Midpoint(x, y) /\ Midpoint(x, y) <= y
      BY <2>2, <2>6, MidpointBetween
    <3>2. v[g1] <= Midpoint(x, y) /\ Midpoint(x, y) <= v[h2]
      BY <2>2, <2>3, <2>4, <3>1
    <3> QED BY <2>5, <3>1, <3>2
  <2>7. CASE y <= x
    <3>1. Midpoint(x, y) \in Nat /\ y <= Midpoint(x, y) /\ Midpoint(x, y) <= x
      BY <2>2, <2>7, MidpointBetween
    <3>2. v[g2] <= Midpoint(x, y) /\ Midpoint(x, y) <= v[h1]
      BY <2>2, <2>3, <2>4, <3>1
    <3> QED BY <2>5, <3>1, <3>2
  <2> QED BY <2>2, <2>6, <2>7
<1> QED BY <1>3, <1>4
=============================================================================

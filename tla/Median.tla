------------------------------- MODULE Median -------------------------------
(***************************************************************************)
(* sui-connector/.../redstone_sdk/median.move: the median of a family of    *)
(* numbers v[d], d \in D, by what its sort leaves at the positions it reads. *)
(***************************************************************************)
EXTENDS Integers, FiniteSets

\* The k-th smallest of the values v[d], d \in D: values[k - 1] once sorted.
KthSmallest(D, v, k) ==
  CHOOSE x \in {v[d] : d \in D} :
    /\ Cardinality({d \in D : v[d] < x}) < k
    /\ Cardinality({d \in D : v[d] <= x}) >= k

Midpoint(a, b) == (a \div 2) + (b \div 2) + (((a % 2) + (b % 2)) \div 2)

\* try_calculate_median of at least one value.
Median(D, v) ==
  LET n == Cardinality(D) IN
    IF n % 2 = 1
    THEN KthSmallest(D, v, n \div 2 + 1)
    ELSE Midpoint(KthSmallest(D, v, n \div 2), KthSmallest(D, v, n \div 2 + 1))
=============================================================================

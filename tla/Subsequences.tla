---------------------------- MODULE Subsequences ----------------------------
(***************************************************************************)
(* The part of a sequence at given positions, as Array.prototype.splice     *)
(* leaves it, defined without recursion so that it can be reasoned about.   *)
(***************************************************************************)
EXTENDS Integers, Sequences, FiniteSets

\* How many of the positions K of a sequence are at or before i.
Rank(K, i) == Cardinality({j \in K : j <= i})

\* The subsequence of s at the positions K.
Keep(s, K) ==
  [n \in 1 .. Cardinality(K) |-> s[CHOOSE i \in K : Rank(K, i) = n]]
=============================================================================

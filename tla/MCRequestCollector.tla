------------------------ MODULE MCRequestCollector ------------------------
(***************************************************************************)
(* Lists that fill a batch of two, overflow it together, and share a key.   *)
(***************************************************************************)
EXTENDS RequestCollector

CONSTANTS k1, k2, k3

TwoOfThree == {<<k1, k2>>, <<k2, k3>>}
=============================================================================

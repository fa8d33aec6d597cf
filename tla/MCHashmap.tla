------------------------------ MODULE MCHashmap ------------------------------
(***************************************************************************)
(* Hashmap with a and aa equal, b of the same hash and different, c and d  *)
(* in the same bucket as a until the second and the third expansion.       *)
(***************************************************************************)
EXTENDS Hashmap

ContentDef == [a |-> 1, aa |-> 1, b |-> 2, c |-> 3, d |-> 4]
HashDef == [a |-> 0, aa |-> 0, b |-> 0, c |-> 2, d |-> 4]
=============================================================================

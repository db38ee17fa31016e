-------------------------------- MODULE Lists --------------------------------
(***************************************************************************)
(* Vectors of indices that the code fills in a loop over a vector or a map *)
(* (adak in ControlStrategy.cpp), and the community modules on sequences   *)
(* and sums under names that proofs can refer to.                          *)
(***************************************************************************)
EXTENDS Integers, FiniteSets, Sequences

FSE == INSTANCE FiniteSetsExt
SE == INSTANCE SequencesExt

(* The members of S in the order of the loop, from the first to the last.  *)
(* (A set with one member.)                                                *)
Ascending(S) ==
    { list \in [1 .. Cardinality(S) -> S] : \A i, k \in DOMAIN list : i < k => list[i] < list[k] }
=============================================================================

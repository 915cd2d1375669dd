---------------------------- MODULE MCMatching -----------------------------
(***************************************************************************)
(* Matching for TLC.  Order ids are interchangeable.                       *)
(***************************************************************************)
EXTENDS Matching, TLC

Symmetry == Permutations(Ids)

============================================================================

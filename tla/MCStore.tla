------------------------------ MODULE MCStore ------------------------------
(* Instances of Store for TLC.                                             *)
EXTENDS StoreRefinement, TLC

Symmetry == Permutations(Keys) \cup Permutations(Values)
=============================================================================

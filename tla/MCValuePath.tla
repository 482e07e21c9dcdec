---------------------------- MODULE MCValuePath ----------------------------
(* Bounds and symmetry for checking ValuePath with TLC. *)
EXTENDS ValuePath, TLC

Symmetric == Permutations(Values)
=============================================================================

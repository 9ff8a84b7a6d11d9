------------------------- MODULE MCObjectCollection -------------------------
(* Instances of ObjectCollection for TLC.                                  *)
EXTENDS ObjectCollection, TLC

(* Objects are only compared with each other.                              *)
Symmetry == Permutations(Objects)

=============================================================================

--------------------------- MODULE MCLayeredAssets ---------------------------
(* Instances of LayeredAssets for TLC.                                     *)
EXTENDS LayeredAssets, TLC

(* Sprites, and pets, are only compared with each other.                   *)
Symmetry == Permutations(Sprites) \cup Permutations(Groups)

=============================================================================

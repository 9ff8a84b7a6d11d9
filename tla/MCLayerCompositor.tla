------------------------- MODULE MCLayerCompositor -------------------------
(* Instances of LayerCompositor for TLC.                                   *)
EXTENDS LayerCompositor, TLC

(* Black, transparent, an ink; no tint and one that blackens the ink.      *)
Inks  == {"black", "ink", "transparent"}
Plain == [p \in Inks |-> p]
Dim   == [Plain EXCEPT !["ink"] = "black"]
Tints == {Plain, Dim}

(* Tiles are only compared with each other.                                *)
Symmetry == Permutations(Tiles)

=============================================================================

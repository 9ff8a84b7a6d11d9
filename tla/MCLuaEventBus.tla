---------------------------- MODULE MCLuaEventBus ----------------------------
(* Instances of LuaEventBus for TLC.                                       *)
EXTENDS LuaEventBus, TLC

(* No name is too long for its channel.                                    *)
Short == [name \in Names |-> name]

(* Names and references are only compared with each other.                 *)
Symmetry == Permutations(Names) \cup Permutations(Refs)

=============================================================================

----------------------------- MODULE MCLuaAsync -----------------------------
(* Instances of LuaAsync for TLC.                                          *)
EXTENDS LuaAsync, TLC

(* Threads, and fields, are only compared with each other.                 *)
Symmetry == Permutations(Threads) \cup Permutations(Fields)

=============================================================================

----------------------------- MODULE MCLuaStore -----------------------------
(* Instances of LuaStore for TLC.                                          *)
EXTENDS LuaStore, TLC

(* 2 stands for a number of more than six digits, read back as another.    *)
SixDigits(v) == IF v = 2 THEN 1 ELSE v

Text1Or2(v) == IF v = Partial THEN 2 ELSE 1

Symmetry == Permutations(Keys) \cup Permutations(Owners)

=============================================================================

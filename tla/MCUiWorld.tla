----------------------------- MODULE MCUiWorld -----------------------------
(* Instances of UiWorld for TLC.                                           *)
EXTENDS UiWorld

=============================================================================

--------------------------- MODULE MCStateMachine ---------------------------
(* Instances of StateMachine for TLC.                                      *)
EXTENDS StateMachine

(* No callback, one, or all three.                                         *)
MCHookSets == {{}, {"enter"}, {"exit"}, {"update"}, {"enter", "exit", "update"}}

=============================================================================

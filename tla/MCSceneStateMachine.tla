------------------------ MODULE MCSceneStateMachine ------------------------
(* Instances of SceneStateMachine for TLC.                                 *)
EXTENDS SceneStateMachine, TLC

(* Scene ids and object addresses are only compared with each other.       *)
Symmetry == Permutations(Scenes) \cup Permutations(Objects)

=============================================================================

------------------------------ MODULE MCScenePass ------------------------------
(***************************************************************************)
(* ScenePass with two cameras that show a view and one that does not.      *)
(***************************************************************************)
EXTENDS ScenePass, TLC

Views == Permutations(Cameras \ Flat)
==============================================================================

-------------------------- MODULE MCFrameLifecycle --------------------------
(***************************************************************************)
(* Two textures, three descriptor slots, two back buffers.                 *)
(***************************************************************************)
EXTENDS FrameLifecycle, TLC

Symmetry == Permutations(Textures) \cup Permutations(Descriptors)
=============================================================================

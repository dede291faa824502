---------------------------- MODULE TranslationCase ----------------------------
(***************************************************************************)
(* The parts of the program that only translate, from D3D8's notions to    *)
(* D3D12's, keep no state: each is a module of operators with a set of     *)
(* cases to check them on.  This is the case at hand, a record whose       *)
(* "kind" names the module it is for.                                      *)
(***************************************************************************)
VARIABLE given
==============================================================================

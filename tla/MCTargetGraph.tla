---------------------------- MODULE MCTargetGraph ----------------------------
(***************************************************************************)
(* Makefiles over a few names.  Which object stands for which target does  *)
(* not matter, nor do the names.                                           *)
(***************************************************************************)
EXTENDS TargetGraph, TLC

Interchangeable == Permutations(Name) \cup Permutations(Object)
=============================================================================

------------------------- MODULE MCRuntimeOwnership -------------------------
(***************************************************************************)
(* Small instances of RuntimeOwnership: model values for the processes and *)
(* threads, interchangeable where no liveness property is checked.         *)
(***************************************************************************)
EXTENDS RuntimeOwnership, TLC

Interchangeable ==
  Permutations(Desktops) \union Permutations(Workers) \union Permutations(Calls)
=============================================================================

---------------------------- MODULE MCFvmBridge ----------------------------
(***************************************************************************)
(* Small instances of FvmBridge for TLC.                                   *)
(***************************************************************************)
EXTENDS FvmBridge, TLC

\* Goroutines, FVMs and Externs are interchangeable for safety.
Symmetry ==
  Permutations(Goroutine) \cup Permutations(Fvm) \cup Permutations(Externs)
=============================================================================

----------------------------- MODULE MCFfiCall -----------------------------
(* FfiCall for TLC: the goroutines are interchangeable. *)
EXTENDS FfiCall, TLC

Symmetry == Permutations(Goroutine)
=============================================================================

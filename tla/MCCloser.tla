------------------------------- MODULE MCCloser -------------------------------
(* Closing functions and callers are interchangeable.                      *)
EXTENDS Closer, TLC

Symmetry == Permutations(Funcs) \cup Permutations(Callers)
=============================================================================

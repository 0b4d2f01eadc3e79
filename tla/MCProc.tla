------------------------------- MODULE MCProc -------------------------------
(* Small instances of Proc.  The CPUs are interchangeable. *)
EXTENDS Proc, TLC

Symmetry == Permutations(CPUs)
=============================================================================

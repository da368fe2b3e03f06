---------------------------- MODULE MCRunSession ----------------------------
(* RunSession for TLC: processes are interchangeable. *)
EXTENDS RunSession, TLC

Symmetry == Permutations(Owner)
=============================================================================

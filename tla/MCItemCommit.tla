----------------------------- MODULE MCItemCommit -----------------------------
(* An instance of ItemCommit for TLC: files that are alike.                *)
EXTENDS ItemCommit, TLC

CONSTANTS f1, f2, guarded

Symmetry == Permutations({f1, f2})
=============================================================================

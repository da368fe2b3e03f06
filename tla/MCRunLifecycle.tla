--------------------------- MODULE MCRunLifecycle ---------------------------
(* Instances of RunLifecycle for TLC.  The processes are interchangeable   *)
(* where all or none of them may run cleanup.                              *)
EXTENDS RunLifecycle, TLC

Symmetry == Permutations(Owner)
=============================================================================

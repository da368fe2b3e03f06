--------------------------- MODULE MCPullRequest ---------------------------
(* Instances of PullRequest for TLC.                                       *)
EXTENDS PullRequest, TLC

Symmetry == Permutations(Process)
=============================================================================

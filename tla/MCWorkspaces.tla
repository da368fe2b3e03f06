---------------------------- MODULE MCWorkspaces ----------------------------
(* Instances of Workspaces for TLC: two ids with the same safe characters, *)
(* one of which had others as well.                                        *)
EXTENDS Workspaces, TLC

CONSTANTS r1, r2, text

Everything ==
  {[force |-> f, branches |-> TRUE, remotes |-> TRUE] : f \in BOOLEAN}
SameText == (r1 :> text) @@ (r2 :> text)
=============================================================================

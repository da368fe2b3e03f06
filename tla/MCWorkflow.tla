----------------------------- MODULE MCWorkflow -----------------------------
(* Instances of Workflow for TLC: items with ids of their own.             *)
EXTENDS Workflow

DistinctIds == [i \in 1..N |-> i]
=============================================================================

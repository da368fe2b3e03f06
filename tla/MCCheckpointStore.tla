-------------------------- MODULE MCCheckpointStore --------------------------
(* An instance of CheckpointStore for TLC.                                 *)
EXTENDS CheckpointStore, TLC

Symmetry == Permutations(Process)

(* A state of a version with the fields of its time.                       *)
StateOf(v, finished, content) ==
  [version |-> v, finished |-> finished,
   fields |-> [f \in Field |-> IF Introduced[f] <= v THEN content ELSE "missing"]]

(* One that was stamped before it had those of version two.                *)
Stamped(values) == [values EXCEPT !.fields["cancel_requested"] = "missing"]

OldAndNew ==
  {StateOf(1, FALSE, "default"), StateOf(4, FALSE, "set"),
   Stamped(StateOf(8, TRUE, "set")), StateOf(9, FALSE, "set")}
=============================================================================

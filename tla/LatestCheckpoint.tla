-------------------------- MODULE LatestCheckpoint ---------------------------
(***************************************************************************)
(* What a checkpoint store promises to whoever resumes a run: the state    *)
(* that was saved last, with the writes that were added to it since.  It   *)
(* changes when a state is saved or a write is added, and by nothing else. *)
(***************************************************************************)
EXTENDS Naturals

CONSTANT Thread

VARIABLES latest,    \* thread -> its last checkpoint; id 0 where there is none
          pending    \* the threads whose last checkpoint has writes

Init ==
  /\ \A t \in Thread : latest[t].id \in {0, 1}
  /\ pending = {}

Save(t) ==
  /\ latest'[t].id = latest[t].id + 1
  /\ \A u \in Thread \ {t} : latest'[u] = latest[u]
  /\ pending' = pending \ {t}

AddWrite(t) ==
  /\ pending' = pending \cup {t}
  /\ UNCHANGED latest

Next == \E t \in Thread : Save(t) \/ AddWrite(t)

Spec == Init /\ [][Next]_<<latest, pending>>
=============================================================================

----------------------------- MODULE LeaseToken -----------------------------
(***************************************************************************)
(* What run leases promise: one token per run.  A process gets the token   *)
(* of a run only while no other process has it, and tokens lapse, by time, *)
(* by being given back or with the process.                                *)
(***************************************************************************)
CONSTANTS Owner, Run

VARIABLE entitled   (* the processes entitled to each run *)

Init == entitled = [r \in Run |-> {}]

Grant(o, r) ==
  /\ entitled[r] \subseteq {o}
  /\ entitled' = [entitled EXCEPT ![r] = {o}]

Lapse ==
  /\ entitled' \in [Run -> SUBSET Owner]
  /\ \A r \in Run : entitled'[r] \subseteq entitled[r]

Next == (\E o \in Owner, r \in Run : Grant(o, r)) \/ Lapse

Spec == Init /\ [][Next]_entitled
=============================================================================

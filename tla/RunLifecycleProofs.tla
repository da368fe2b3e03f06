------------------------- MODULE RunLifecycleProofs -------------------------
(***************************************************************************)
(* Proofs about run leases, for any number of processes and runs, any      *)
(* lease duration, clean-up age and bound on takeovers.                    *)
(***************************************************************************)
EXTENDS RunLifecycle, TLAPS

USE ConstantsOK

(* A lease row's fields, as the provers need them spelt out. *)
LEMMA LeaseFields ==
  ASSUME TypeOK, NEW r \in Run, HasLease(r)
  PROVE  /\ leases[r] \in Lease
         /\ leases[r].owner \in Owner
         /\ leases[r].ttl \in 0..TTL
         /\ leases[r].recoveries \in 0..MaxRecoveries
  BY DEF TypeOK, HasLease, Lease

(* A record row's fields. *)
LEMMA RecordFields ==
  ASSUME TypeOK, NEW r \in Run, records[r] # NoRow
  PROVE  /\ records[r] \in Record
         /\ records[r].status \in RecordStatus
         /\ records[r].age \in 0..(MaxAge + 1)
         /\ records[r].finished \in BOOLEAN
         /\ records[r].recoveries \in 0..MaxRecoveries
  BY DEF TypeOK, Record

LEMMA RecoveryCountType ==
  ASSUME TypeOK, NEW r \in Run
  PROVE  RecoveryCount(r) \in 0..MaxRecoveries
  BY LeaseFields DEF RecoveryCount

(* An upsert keeps the table a table. *)
LEMMA UpsertType ==
  ASSUME TypeOK, NEW r \in Run, NEW status \in RecordStatus,
         NEW count \in 0..MaxRecoveries, NEW finished \in BOOLEAN,
         Upsert(r, status, count, finished)
  PROVE  records' \in [Run -> Record \cup {NoRow}]
  BY DEF TypeOK, Upsert, Record

LEMMA GotoType ==
  ASSUME TypeOK, NEW o \in Owner, NEW phase \in Phase, NEW runs \in SUBSET Run,
         Goto(o, phase, runs)
  PROVE  /\ pc' \in [Owner -> Phase]
         /\ scope' \in [Owner -> SUBSET Run]
  BY DEF TypeOK, Goto

LEMMA StatusType ==
  ASSUME NEW status
  PROVE  LifecycleStatus(status) \in Released
  BY DEF LifecycleStatus, Released

(* What a release does to the tables, whether or not the owner had a row.  *)
LEMMA ReleaseType ==
  ASSUME TypeOK, NEW o \in Owner, NEW r \in Run, NEW status,
         Release(o, r, status)
  PROVE  /\ leases' \in [Run -> Lease \cup {NoRow}]
         /\ records' \in [Run -> Record \cup {NoRow}]
         /\ writer' \in Owner \cup {Nobody}
         /\ granted' \in [Owner -> [Run -> 0..TTL]]
  <1>1. LifecycleStatus(status) \in RecordStatus
    BY StatusType DEF RecordStatus
  <1>2. granted' = [granted EXCEPT ![o][r] = 0]
    BY DEF Release
  <1>3. granted' \in [Owner -> [Run -> 0..TTL]]
    BY <1>2 DEF TypeOK
  <1>4. CASE Owns(o, r)
    <2>1. records' \in [Run -> Record \cup {NoRow}]
      BY <1>1, <1>4, UpsertType, RecoveryCountType DEF Release
    <2>2. QED
      BY <1>3, <1>4, <2>1 DEF Release, TypeOK
  <1>5. CASE ~Owns(o, r)
    BY <1>3, <1>5 DEF Release, TypeOK, tables
  <1>6. QED
    BY <1>4, <1>5

(* Every step keeps the types. *)
LEMMA TypeStep ==
  ASSUME TypeOK, [Next]_vars
  PROVE  TypeOK'
  <1>1. ASSUME NEW o \in Owner, NEW r \in Run, AcquireBusy(o, r) PROVE TypeOK'
    BY <1>1 DEF AcquireBusy, TypeOK, tables, process
  <1>2. ASSUME NEW o \in Owner, NEW r \in Run, Acquire(o, r) PROVE TypeOK'
    <2> DEFINE count == RecoveryCount(r) + IF Recovered(o, r) THEN 1 ELSE 0
    <2>1. count \in 0..MaxRecoveries
      BY <1>2, RecoveryCountType DEF Acquire, Recovered
    <2>2. records' \in [Run -> Record \cup {NoRow}]
      BY <1>2, <2>1, UpsertType DEF Acquire, RecordStatus
    <2>3. leases' \in [Run -> Lease \cup {NoRow}]
      <3>1. [owner |-> o, ttl |-> TTL, recoveries |-> count] \in Lease
        BY <2>1 DEF Lease
      <3>2. leases' = [leases EXCEPT ![r] =
              [owner |-> o, ttl |-> TTL, recoveries |-> count]]
        BY <1>2 DEF Acquire
      <3>3. QED
        BY <3>1, <3>2 DEF TypeOK
    <2>4. /\ pc' \in [Owner -> Phase]
          /\ scope' \in [Owner -> SUBSET Run]
      BY <1>2, GotoType DEF Acquire, Phase
    <2>5. granted' \in [Owner -> [Run -> 0..TTL]]
      BY <1>2 DEF Acquire, TypeOK
    <2>6. QED
      BY <1>2, <2>2, <2>3, <2>4, <2>5 DEF Acquire, TypeOK
  <1>3. ASSUME NEW o \in Owner, NEW r \in Run, Heartbeat(o, r) PROVE TypeOK'
    <2>1. records' \in [Run -> Record \cup {NoRow}]
      BY <1>3, UpsertType, RecoveryCountType DEF Heartbeat, RecordStatus
    <2>2. leases' \in [Run -> Lease \cup {NoRow}]
      <3>1. /\ Owns(o, r)
            /\ leases' = [leases EXCEPT ![r].ttl = TTL]
        BY <1>3 DEF Heartbeat
      <3>2. QED
        BY <3>1, LeaseFields DEF TypeOK, Lease, Owns
    <2>3. /\ pc' \in [Owner -> Phase]
          /\ scope' \in [Owner -> SUBSET Run]
      BY <1>3, GotoType DEF Heartbeat, Phase
    <2>4. granted' \in [Owner -> [Run -> 0..TTL]]
      BY <1>3 DEF Heartbeat, TypeOK
    <2>5. QED
      BY <1>3, <2>1, <2>2, <2>3, <2>4 DEF Heartbeat, TypeOK
  <1>4. ASSUME NEW o \in Owner, NEW r \in Run, HeartbeatLost(o, r) PROVE TypeOK'
    BY <1>4, GotoType DEF HeartbeatLost, TypeOK, tables, Phase
  <1>5. ASSUME NEW o \in Owner, NEW r \in Run, StopEarly(o, r) \/ NodeRaises(o, r)
        PROVE TypeOK'
    BY <1>5, GotoType DEF StopEarly, NodeRaises, TypeOK, tables, Phase
  <1>6. ASSUME NEW o \in Owner, NEW r \in Run, MarkInterrupted(o, r) PROVE TypeOK'
    <2>1. records' \in [Run -> Record \cup {NoRow}]
      BY <1>6, UpsertType, RecoveryCountType DEF MarkInterrupted, RecordStatus
    <2>2. leases' \in [Run -> Lease \cup {NoRow}]
      <3>1. CASE Owns(o, r)
        <4>1. leases' = [leases EXCEPT ![r].ttl = TTL]
          BY <1>6, <3>1 DEF MarkInterrupted
        <4>2. QED
          BY <3>1, <4>1, LeaseFields DEF TypeOK, Lease, Owns
      <3>2. CASE ~Owns(o, r)
        BY <1>6, <3>2 DEF MarkInterrupted, TypeOK
      <3>3. QED
        BY <3>1, <3>2
    <2>3. /\ pc' \in [Owner -> Phase]
          /\ scope' \in [Owner -> SUBSET Run]
      BY <1>6, GotoType DEF MarkInterrupted, Phase
    <2>4. granted' \in [Owner -> [Run -> 0..TTL]]
      BY <1>6 DEF MarkInterrupted, TypeOK
    <2>5. QED
      BY <1>6, <2>1, <2>2, <2>3, <2>4 DEF MarkInterrupted, TypeOK
  <1>7. ASSUME NEW o \in Owner, NEW r \in Run, ReleaseUnprepared(o, r) PROVE TypeOK'
    BY <1>7, ReleaseType, GotoType DEF ReleaseUnprepared, TypeOK, Phase
  <1>8. ASSUME NEW o \in Owner, NEW r \in Run, PutOpen(o, r) PROVE TypeOK'
    BY <1>8, GotoType DEF PutOpen, TypeOK, tables, Phase
  <1>9. ASSUME NEW o \in Owner, NEW r \in Run, NEW status, PutTerminal(o, r, status)
        PROVE TypeOK'
    BY <1>9, ReleaseType, GotoType DEF PutTerminal, TypeOK, Phase
  <1>19. ASSUME NEW o \in Owner, NEW r \in Run, PutLater(o, r) PROVE TypeOK'
    BY <1>19, GotoType DEF PutLater, TypeOK, tables, Phase
  <1>20. ASSUME NEW o \in Owner, NEW r \in Run, NEW status, PutPending(o, r, status)
         PROVE TypeOK'
    BY <1>20, ReleaseType DEF PutPending, TypeOK, process
  <1>21. ASSUME NEW o \in Owner, NEW r \in Run, Cancel(o, r) PROVE TypeOK'
    BY <1>21 DEF Cancel, TypeOK, tables, process
  <1>22. ASSUME NEW o \in Owner, PutWrites(o) PROVE TypeOK'
    BY <1>22 DEF PutWrites, TypeOK, tables, process
  <1>23. ASSUME NEW o \in Owner, NEW r \in Run, RunStep(o, r) PROVE TypeOK'
    BY <1>1, <1>2, <1>3, <1>4, <1>5, <1>6, <1>7, <1>8, <1>9, <1>19, <1>20, <1>21,
       <1>23
    DEF RunStep
  <1>10. ASSUME NEW o \in Owner, NEW runs \in SUBSET Run, BeginMaintenance(o, runs)
         PROVE TypeOK'
    BY <1>10, GotoType DEF BeginMaintenance, TypeOK, tables, Phase
  <1>11. ASSUME NEW o \in Owner, ScanStale(o) PROVE TypeOK'
    BY <1>11, GotoType DEF ScanStale, TypeOK, tables, Phase
  <1>12. ASSUME NEW o \in Owner, MarkStale(o) PROVE TypeOK'
    <2>1. records' \in [Run -> Record \cup {NoRow}]
      <3>1. SUFFICES ASSUME NEW q \in Run PROVE records'[q] \in Record \cup {NoRow}
        BY <1>12 DEF MarkStale
      <3>2. CASE records'[q] = records[q]
        BY <3>2 DEF TypeOK
      <3>3. CASE /\ records[q] # NoRow
                 /\ records'[q] = [records[q] EXCEPT !.status = "abandoned", !.age = 0]
        <4>1. records[q] \in Record
          BY <3>3, RecordFields
        <4>2. "abandoned" \in RecordStatus /\ 0 \in 0..(MaxAge + 1)
          BY DEF RecordStatus
        <4>3. [records[q] EXCEPT !.status = "abandoned", !.age = 0] \in Record
          BY <4>1, <4>2 DEF Record
        <4>4. QED
          BY <3>3, <4>3
      <3>4. QED
        BY <1>12, <3>2, <3>3 DEF MarkStale, Stale
    <2>2. QED
      BY <1>12, <2>1, GotoType DEF MarkStale, CloseTransaction, TypeOK, Phase
  <1>13. ASSUME NEW o \in Owner, SelectOld(o) PROVE TypeOK'
    BY <1>13, GotoType DEF SelectOld, TypeOK, tables, Phase
  <1>14. ASSUME NEW o \in Owner, DeleteOld(o) PROVE TypeOK'
    BY <1>14, GotoType DEF DeleteOld, CloseTransaction, TypeOK, Phase
  <1>15. ASSUME NEW o \in Owner, Exit(o) \/ Crash(o) PROVE TypeOK'
    <2>1. End(o)
      BY <1>15 DEF Exit, Crash
    <2>2. granted' \in [Owner -> [Run -> 0..TTL]]
      <3> DEFINE none == [r \in Run |-> 0]
      <3>1. none \in [Run -> 0..TTL]
        OBVIOUS
      <3>2. granted' = [granted EXCEPT ![o] = none]
        BY <2>1 DEF End
      <3> HIDE DEF none
      <3>3. QED
        BY <3>1, <3>2 DEF TypeOK
    <2>3. QED
      BY <2>1, <2>2, GotoType DEF End, CloseTransaction, TypeOK, tables, Phase
  <1>16. CASE Tick
    <2>1. leases' \in [Run -> Lease \cup {NoRow}]
      <3>1. SUFFICES ASSUME NEW q \in Run PROVE leases'[q] \in Lease \cup {NoRow}
        BY <1>16 DEF Tick
      <3>2. CASE HasLease(q)
        <4>1. leases'[q] = [leases[q] EXCEPT !.ttl = Elapse(leases[q].ttl)]
          BY <1>16, <3>2, LeaseFields DEF Tick, Lease
        <4>2. Elapse(leases[q].ttl) \in 0..TTL
          BY <3>2, LeaseFields DEF Elapse
        <4>3. QED
          BY <3>2, <4>1, <4>2, LeaseFields DEF Lease
      <3>3. CASE ~HasLease(q)
        BY <1>16, <3>3 DEF Tick
      <3>4. QED
        BY <3>2, <3>3
    <2>2. records' \in [Run -> Record \cup {NoRow}]
      <3>1. SUFFICES ASSUME NEW q \in Run PROVE records'[q] \in Record \cup {NoRow}
        BY <1>16 DEF Tick
      <3>2. CASE records[q] = NoRow
        BY <1>16, <3>2 DEF Tick
      <3>3. CASE records[q] # NoRow
        <4> DEFINE age == IF records[q].age > MaxAge THEN records[q].age
                          ELSE records[q].age + 1
        <4>1. records'[q] = [records[q] EXCEPT !.age = age]
          BY <1>16, <3>3, RecordFields DEF Tick, Record
        <4>2. age \in 0..(MaxAge + 1)
          BY <3>3, RecordFields
        <4> HIDE DEF age
        <4>3. QED
          BY <3>3, <4>1, <4>2, RecordFields DEF Record
      <3>4. QED
        BY <3>2, <3>3
    <2>3. granted' \in [Owner -> [Run -> 0..TTL]]
      <3>1. \A n \in 0..TTL : Elapse(n) \in 0..TTL
        BY DEF Elapse
      <3>2. \A p \in Owner, q \in Run : granted[p][q] \in 0..TTL
        BY DEF TypeOK
      <3>3. granted' = [p \in Owner |-> [q \in Run |-> Elapse(granted[p][q])]]
        BY <1>16 DEF Tick
      <3>4. QED
        BY <3>1, <3>2, <3>3, Zenon
    <2>4. QED
      BY <1>16, <2>1, <2>2, <2>3 DEF Tick, TypeOK, process
  <1>17. CASE UNCHANGED vars
    BY <1>17 DEF vars, TypeOK
  <1>18. QED
    BY <1>10, <1>11, <1>12, <1>13, <1>14, <1>15, <1>16, <1>17, <1>22, <1>23
    DEF Next, ProcessStep, MaintenanceStep

(* Both tables, the processes and the history keep their types.            *)
THEOREM TypeCorrect == Spec => []TypeOK
  <1>1. Init => TypeOK
    BY DEF Init, TypeOK, Phase
  <1>2. TypeOK /\ [Next]_vars => TypeOK'
    BY TypeStep
  <1>3. QED
    BY <1>1, <1>2, PTL DEF Spec
-----------------------------------------------------------------------------
(* The inductive invariant of the leases: GrantBacked relates every grant  *)
(* to the table, and only a process that may run cleanup is ever in the    *)
(* part of a maintenance call that deletes rows.                           *)
SweepsBySweepers ==
  \A o \in Owner :
    /\ pc[o] \in {"selecting", "deleting"} => o \in Sweepers
    /\ pc[o] \in {"scan", "marking"} /\ scope[o] # {} => o \in Sweepers
LeaseInv ==
  /\ TypeOK
  /\ GrantBacked
  /\ SweepsBySweepers
  /\ sweptLive # {} => Sweepers # {}

(* A step that leaves leases, grants and the history alone keeps GrantBacked. *)
LEMMA GrantBackedSame ==
  ASSUME GrantBacked, UNCHANGED <<leases, granted, sweptLive>>
  PROVE  GrantBacked'
  BY DEF GrantBacked, Owns, HasLease

(* Releasing, whoever owns the row, leaves no other grant on the run.      *)
LEMMA GrantBackedRelease ==
  ASSUME TypeOK, GrantBacked, NEW o \in Owner, NEW r \in Run, NEW status,
         Release(o, r, status), UNCHANGED sweptLive
  PROVE  GrantBacked'
  <1> SUFFICES ASSUME NEW p \in Owner, NEW q \in Run \ sweptLive, granted'[p][q] > 0
               PROVE  Owns(p, q)' /\ leases'[q].ttl = granted'[p][q]
    BY DEF GrantBacked
  <1>1. granted' = [granted EXCEPT ![o][r] = 0]
    BY DEF Release
  <1>2. ~(p = o /\ q = r) /\ granted'[p][q] = granted[p][q]
    BY <1>1 DEF TypeOK
  <1>3. Owns(p, q) /\ leases[q].ttl = granted[p][q]
    BY <1>2 DEF GrantBacked
  <1>4. leases'[q] = leases[q]
    BY <1>2, <1>3 DEF Release, tables, Owns, TypeOK
  <1>5. QED
    BY <1>2, <1>3, <1>4 DEF Owns, HasLease

LEMMA GrantBackedStep ==
  ASSUME LeaseInv, [Next]_vars
  PROVE  GrantBacked'
  <1> USE DEF LeaseInv
  <1>1. ASSUME NEW o \in Owner, NEW r \in Run, Acquire(o, r) PROVE GrantBacked'
    <2> SUFFICES ASSUME NEW p \in Owner, NEW q \in Run \ sweptLive, granted'[p][q] > 0
                 PROVE  Owns(p, q)' /\ leases'[q].ttl = granted'[p][q]
      BY <1>1 DEF GrantBacked, Acquire
    <2>1. CASE q # r
      <3>1. leases'[q] = leases[q] /\ granted'[p][q] = granted[p][q]
        BY <1>1, <2>1 DEF Acquire, TypeOK
      <3>2. QED
        BY <3>1 DEF GrantBacked, Owns, HasLease
    <2>2. CASE q = r /\ p = o
      <3>1. leases'[r].owner = o /\ leases'[r].ttl = TTL /\ granted'[o][r] = TTL
        BY <1>1 DEF Acquire, TypeOK
      <3>2. leases'[r] # NoRow
        <4>1. RecoveryCount(r) \in 0..MaxRecoveries
          BY RecoveryCountType
        <4>2. QED
          BY <1>1, <4>1 DEF Acquire, TypeOK, Lease
      <3>3. QED
        BY <2>2, <3>1, <3>2 DEF Owns, HasLease
    <2>3. CASE q = r /\ p # o
      <3>1. granted[p][r] > 0
        BY <1>1, <2>3 DEF Acquire, TypeOK
      <3>2. Owns(p, r) /\ leases[r].ttl > 0
        BY <2>3, <3>1 DEF GrantBacked
      <3>3. HasLease(r) /\ ~Owns(o, r) /\ Live(r)
        BY <2>3, <3>2 DEF Owns, Live
      <3>4. QED
        BY <1>1, <3>3 DEF Acquire, Blocked
    <2>4. QED
      BY <2>1, <2>2, <2>3
  <1>2. ASSUME NEW o \in Owner, NEW r \in Run,
               Heartbeat(o, r) \/ (MarkInterrupted(o, r) /\ Owns(o, r))
        PROVE  GrantBacked'
    <2>1. /\ Owns(o, r)
          /\ leases' = [leases EXCEPT ![r].ttl = TTL]
          /\ granted' = [granted EXCEPT ![o][r] = TTL]
          /\ sweptLive' = sweptLive
      BY <1>2 DEF Heartbeat, MarkInterrupted
    <2> SUFFICES ASSUME NEW p \in Owner, NEW q \in Run \ sweptLive, granted'[p][q] > 0
                 PROVE  Owns(p, q)' /\ leases'[q].ttl = granted'[p][q]
      BY <2>1 DEF GrantBacked
    <2>2. CASE q # r
      <3>1. leases'[q] = leases[q] /\ granted'[p][q] = granted[p][q]
        BY <2>1, <2>2 DEF TypeOK
      <3>2. QED
        BY <3>1 DEF GrantBacked, Owns, HasLease
    <2>3. CASE q = r
      <3>1. leases'[r] = [leases[r] EXCEPT !.ttl = TTL] /\ leases[r] \in Lease
        BY <2>1, LeaseFields DEF TypeOK, Owns
      <3>2. leases'[r] \in Lease /\ leases'[r].owner = o /\ leases'[r].ttl = TTL
        BY <2>1, <3>1 DEF Lease, Owns
      <3>3. p = o
        BY <2>1, <2>3 DEF TypeOK, GrantBacked, Owns
      <3>4. QED
        BY <2>1, <2>3, <3>2, <3>3 DEF TypeOK, Owns, HasLease
    <2>4. QED
      BY <2>2, <2>3
  <1>3. ASSUME NEW o \in Owner, NEW r \in Run,
               HeartbeatLost(o, r) \/ (MarkInterrupted(o, r) /\ ~Owns(o, r))
        PROVE  GrantBacked'
    <2>1. /\ leases' = leases
          /\ granted' = [granted EXCEPT ![o][r] = 0]
          /\ sweptLive' = sweptLive
      BY <1>3 DEF HeartbeatLost, MarkInterrupted, tables
    <2>2. \A p \in Owner, q \in Run :
            granted'[p][q] > 0 => granted'[p][q] = granted[p][q]
      BY <2>1 DEF TypeOK
    <2>3. QED
      BY <2>1, <2>2 DEF GrantBacked, Owns, HasLease
  <1>4. ASSUME NEW o \in Owner, NEW r \in Run, NEW status,
               \/ ReleaseUnprepared(o, r)
               \/ PutTerminal(o, r, status) \/ PutPending(o, r, status)
        PROVE  GrantBacked'
    BY <1>4, GrantBackedRelease DEF ReleaseUnprepared, PutTerminal, PutPending
  <1>5. ASSUME NEW o \in Owner, NEW r \in Run,
               \/ AcquireBusy(o, r) \/ StopEarly(o, r) \/ NodeRaises(o, r)
               \/ PutOpen(o, r) \/ PutLater(o, r) \/ Cancel(o, r)
        PROVE  GrantBacked'
    BY <1>5, GrantBackedSame DEF AcquireBusy, StopEarly, NodeRaises, PutOpen, PutLater,
                                 Cancel, tables
  <1>6. ASSUME NEW o \in Owner, NEW runs,
               \/ BeginMaintenance(o, runs) \/ ScanStale(o)
               \/ MarkStale(o) \/ SelectOld(o) \/ PutWrites(o)
        PROVE  GrantBacked'
    BY <1>6, GrantBackedSame DEF BeginMaintenance, ScanStale, MarkStale, SelectOld,
                                 PutWrites, tables
  <1>7. ASSUME NEW o \in Owner, DeleteOld(o) PROVE GrantBacked'
    <2> SUFFICES ASSUME NEW p \in Owner, NEW q \in Run, q \notin sweptLive',
                        granted'[p][q] > 0
                 PROVE  Owns(p, q)' /\ leases'[q].ttl = granted'[p][q]
      BY DEF GrantBacked
    <2>1. granted' = granted /\ q \notin sweptLive
      BY <1>7 DEF DeleteOld
    <2>2. Owns(p, q) /\ leases[q].ttl = granted[p][q]
      BY <2>1 DEF GrantBacked
    <2>3. Live(q)
      BY <2>1, <2>2 DEF Live, Owns
    <2>4. leases'[q] = leases[q]
      BY <1>7, <2>3 DEF DeleteOld
    <2>5. QED
      BY <2>1, <2>2, <2>4 DEF Owns, HasLease
  <1>8. ASSUME NEW o \in Owner, Exit(o) \/ Crash(o) PROVE GrantBacked'
    <2>1. End(o)
      BY <1>8 DEF Exit, Crash
    <2>2. \A p \in Owner, q \in Run :
            granted'[p][q] > 0 => granted'[p][q] = granted[p][q]
      <3> TAKE p \in Owner, q \in Run
      <3>1. CASE p = o
        BY <2>1, <3>1 DEF End, TypeOK
      <3>2. CASE p # o
        BY <2>1, <3>2 DEF End, TypeOK
      <3>3. QED
        BY <3>1, <3>2
    <2>3. QED
      BY <2>1, <2>2 DEF End, tables, GrantBacked, Owns, HasLease
  <1>9. CASE Tick
    <2> SUFFICES ASSUME NEW p \in Owner, NEW q \in Run \ sweptLive, granted'[p][q] > 0
                 PROVE  Owns(p, q)' /\ leases'[q].ttl = granted'[p][q]
      BY <1>9 DEF GrantBacked, Tick
    <2>1. granted'[p][q] = Elapse(granted[p][q]) /\ granted[p][q] \in 0..TTL
      BY <1>9 DEF Tick, TypeOK
    <2>2. granted[p][q] > 0
      BY <2>1 DEF Elapse
    <2>3. Owns(p, q) /\ leases[q].ttl = granted[p][q]
      BY <2>2 DEF GrantBacked
    <2>4. HasLease(q) /\ leases[q] \in Lease
      BY <2>3, LeaseFields DEF Owns
    <2>5. leases'[q] = [leases[q] EXCEPT !.ttl = Elapse(leases[q].ttl)]
      BY <1>9, <2>4 DEF Tick, Lease
    <2>6. Elapse(leases[q].ttl) \in 0..TTL
      BY <2>1, <2>3 DEF Elapse
    <2>7. /\ leases'[q] \in Lease
          /\ leases'[q].owner = leases[q].owner
          /\ leases'[q].ttl = Elapse(leases[q].ttl)
      BY <2>4, <2>5, <2>6 DEF Lease
    <2>8. QED
      BY <2>1, <2>3, <2>7 DEF Owns, HasLease
  <1>10. CASE UNCHANGED vars
    BY <1>10, GrantBackedSame DEF vars
  <1>11. ASSUME NEW o \in Owner, NEW r \in Run, RunStep(o, r) PROVE GrantBacked'
    BY <1>1, <1>2, <1>3, <1>4, <1>5, <1>11 DEF RunStep
  <1>12. QED
    BY <1>6, <1>7, <1>8, <1>9, <1>10, <1>11 DEF Next, ProcessStep, MaintenanceStep

LEMMA SweepsStep ==
  ASSUME LeaseInv, [Next]_vars
  PROVE  /\ SweepsBySweepers'
         /\ sweptLive' # {} => Sweepers # {}
  <1> USE DEF LeaseInv
  <1>1. ASSUME NEW o \in Owner, NEW r \in Run, RunStep(o, r)
        PROVE  SweepsBySweepers' /\ sweptLive' = sweptLive
    <2>1. /\ sweptLive' = sweptLive
          /\ \/ UNCHANGED <<pc, scope>>
             \/ \E phase \in {"idle", "node", "put", "putFinal"}, runs \in {{}, {r}} :
                  Goto(o, phase, runs)
      BY <1>1 DEF RunStep, AcquireBusy, Acquire, Heartbeat, HeartbeatLost, StopEarly,
                  NodeRaises, MarkInterrupted, ReleaseUnprepared, PutOpen, PutTerminal,
                  PutLater, PutPending, Cancel, process
    <2>2. QED
      BY <2>1 DEF SweepsBySweepers, Goto, TypeOK
  <1>2. ASSUME NEW o \in Owner, NEW runs \in SUBSET Run, BeginMaintenance(o, runs)
        PROVE  SweepsBySweepers' /\ sweptLive' = sweptLive
    BY <1>2 DEF BeginMaintenance, Goto, SweepsBySweepers, TypeOK
  <1>3. ASSUME NEW o \in Owner, ScanStale(o) \/ MarkStale(o) \/ SelectOld(o)
        PROVE  SweepsBySweepers' /\ sweptLive' = sweptLive
    BY <1>3 DEF ScanStale, MarkStale, SelectOld, Goto, SweepsBySweepers, TypeOK
  <1>4. ASSUME NEW o \in Owner, DeleteOld(o)
        PROVE  SweepsBySweepers' /\ Sweepers # {}
    BY <1>4 DEF DeleteOld, Goto, SweepsBySweepers, TypeOK
  <1>5. ASSUME NEW o \in Owner, Exit(o) \/ Crash(o)
        PROVE  SweepsBySweepers' /\ sweptLive' = sweptLive
    BY <1>5 DEF Exit, Crash, End, Goto, SweepsBySweepers, TypeOK
  <1>6. ASSUME \/ Tick \/ \E o \in Owner : PutWrites(o)
        PROVE  SweepsBySweepers' /\ sweptLive' = sweptLive
    BY <1>6 DEF Tick, PutWrites, process, SweepsBySweepers
  <1>7. CASE UNCHANGED vars
    BY <1>7 DEF vars, SweepsBySweepers
  <1>8. QED
    BY <1>1, <1>2, <1>3, <1>4, <1>5, <1>6, <1>7 DEF Next, ProcessStep, MaintenanceStep

(* The inductive invariant behind the leases: types, every unexpired grant *)
(* backed by the row of its owner, and only cleanup deletes a live lease.  *)
THEOREM LeaseInvariant == Spec => []LeaseInv
  <1>1. Init => LeaseInv
    <2> SUFFICES ASSUME Init PROVE LeaseInv
      OBVIOUS
    <2>1. TypeOK
      BY DEF Init, TypeOK, Phase
    <2>2. GrantBacked
      BY DEF Init, GrantBacked
    <2>3. QED
      BY <2>1, <2>2 DEF Init, LeaseInv, SweepsBySweepers
  <1>2. LeaseInv /\ TypeOK' /\ [Next]_vars => LeaseInv'
    BY GrantBackedStep, SweepsStep DEF LeaseInv
  <1>3. QED
    BY <1>1, <1>2, TypeCorrect, PTL DEF Spec

(* A process that acquire or heartbeat told it has the run finds its row in *)
(* the table for as long, unless cleanup deleted a live lease of that run.  *)
THEOREM GrantsAreBacked == Spec => []GrantBacked
  <1>1. LeaseInv => GrantBacked
    BY DEF LeaseInv
  <1>2. QED
    BY <1>1, LeaseInvariant, PTL

(* Two processes never hold unexpired leases of one run, whatever the      *)
(* interleaving, unless cleanup deleted a live lease of that run.          *)
THEOREM MutualExclusion == Spec => []OneLiveHolder
  <1>1. LeaseInv => OneLiveHolder
    BY DEF LeaseInv, GrantBacked, OneLiveHolder, Owns
  <1>2. QED
    BY <1>1, LeaseInvariant, PTL

(* Where nobody runs cleanup the leases implement the abstract token: two  *)
(* processes never both hold unexpired leases of one run, and each grant,  *)
(* renewal, takeover, release and expiry is a step of LeaseToken.          *)
THEOREM Refinement == ASSUME Sweepers = {} PROVE Spec => LeasesAreTokens
  <1> DEFINE tokens == [r \in Run |-> {o \in Owner : granted[o][r] > 0}]
  <1>1. Init => Token!Init
    BY DEF Init, Token!Init
  <1>2. LeaseInv /\ LeaseInv' /\ [Next]_vars => [Token!Next]_tokens
    <2> SUFFICES ASSUME LeaseInv, LeaseInv', [Next]_vars
                 PROVE  [Token!Next]_tokens
      OBVIOUS
    <2>1. \A p \in Owner, q \in Run :
            granted[p][q] \in 0..TTL /\ granted'[p][q] \in 0..TTL
      BY DEF LeaseInv, TypeOK
    <2>2. ASSUME NEW o \in Owner, NEW r \in Run,
                 granted' = [granted EXCEPT ![o][r] = TTL]
          PROVE  Token!Grant(o, r)
      <3>1. sweptLive' = {}
        BY DEF LeaseInv
      <3>2. Owns(o, r)' /\ \A p \in Owner : granted'[p][r] > 0 => p = o
        BY <2>2, <3>1 DEF LeaseInv, TypeOK, GrantBacked, Owns
      <3>3. \A p \in Owner : granted[p][r] > 0 => p = o
        <4> SUFFICES ASSUME NEW p \in Owner, p # o, granted[p][r] > 0 PROVE FALSE
          OBVIOUS
        <4>1. granted'[p][r] = granted[p][r]
          BY <2>2 DEF LeaseInv, TypeOK
        <4>2. QED
          BY <3>2, <4>1
      <3>4. tokens[r] \subseteq {o}
        BY <3>3
      <3>5. ASSUME NEW q \in Run PROVE tokens'[q] = [tokens EXCEPT ![r] = {o}][q]
        <4>1. CASE q = r
          <5>1. granted'[o][r] > 0
            BY <2>2 DEF LeaseInv, TypeOK
          <5>2. tokens'[r] = {o}
            BY <3>2, <5>1
          <5>3. QED
            BY <4>1, <5>2
        <4>2. CASE q # r
          <5>1. \A p \in Owner : granted'[p][q] = granted[p][q]
            BY <2>2, <4>2 DEF LeaseInv, TypeOK
          <5>2. QED
            BY <4>2, <5>1
        <4>3. QED
          BY <4>1, <4>2
      <3>6. tokens' = [tokens EXCEPT ![r] = {o}]
        BY <3>5
      <3>7. QED
        BY <3>4, <3>6 DEF Token!Grant
    <2>3. ASSUME \A p \in Owner, q \in Run : granted'[p][q] > 0 => granted[p][q] > 0
          PROVE  Token!Lapse
      BY <2>3 DEF Token!Lapse
    <2>4. ASSUME granted' = granted
          PROVE  Token!Lapse
      BY <2>3, <2>4
    <2>5. ASSUME NEW o \in Owner, NEW r \in Run, granted' = [granted EXCEPT ![o][r] = 0]
          PROVE  Token!Lapse
      <3>1. ASSUME NEW p \in Owner, NEW q \in Run, granted'[p][q] > 0
            PROVE  granted[p][q] > 0
        BY <2>5, <3>1 DEF LeaseInv, TypeOK
      <3>2. QED
        BY <2>3, <3>1
    <2>6. ASSUME NEW o \in Owner, NEW r \in Run, RunStep(o, r)
          PROVE  Token!Grant(o, r) \/ Token!Lapse
      <3>1. \/ granted' = granted
            \/ granted' = [granted EXCEPT ![o][r] = TTL]
            \/ granted' = [granted EXCEPT ![o][r] = 0]
        BY <2>6 DEF RunStep, AcquireBusy, Acquire, Heartbeat, HeartbeatLost, StopEarly,
                    NodeRaises, MarkInterrupted, ReleaseUnprepared, PutOpen,
                    PutTerminal, PutLater, PutPending, Cancel, Release
      <3>2. QED
        BY <2>2, <2>4, <2>5, <3>1
    <2>7. ASSUME NEW o \in Owner, MaintenanceStep(o) \/ PutWrites(o)
          PROVE  Token!Lapse
      BY <2>4, <2>7 DEF MaintenanceStep, BeginMaintenance, ScanStale, MarkStale,
                        SelectOld, DeleteOld, PutWrites
    <2>8. ASSUME NEW o \in Owner, Exit(o) \/ Crash(o)
          PROVE  Token!Lapse
      <3>1. granted' = [granted EXCEPT ![o] = [r \in Run |-> 0]]
        BY <2>8 DEF Exit, Crash, End
      <3>2. ASSUME NEW p \in Owner, NEW q \in Run, granted'[p][q] > 0
            PROVE  granted[p][q] > 0
        <4>1. CASE p = o
          BY <3>1, <3>2, <4>1 DEF LeaseInv, TypeOK
        <4>2. CASE p # o
          BY <3>1, <3>2, <4>2 DEF LeaseInv, TypeOK
        <4>3. QED
          BY <4>1, <4>2
      <3>3. QED
        BY <2>3, <3>2
    <2>9. CASE Tick
      <3>1. ASSUME NEW p \in Owner, NEW q \in Run, granted'[p][q] > 0
            PROVE  granted[p][q] > 0
        BY <2>1, <2>9, <3>1 DEF Tick, Elapse
      <3>2. QED
        BY <2>3, <3>1 DEF Token!Next
    <2>10. CASE UNCHANGED vars
      BY <2>10 DEF vars
    <2>11. QED
      BY <2>6, <2>7, <2>8, <2>9, <2>10 DEF Next, ProcessStep, Token!Next
  <1>3. QED
    BY <1>1, <1>2, LeaseInvariant, PTL DEF Spec, LeasesAreTokens, Token!Spec
-----------------------------------------------------------------------------
(* The two tables.  TablesAgree and FinishedIsReleased are inductive       *)
(* together: a release closes the record and deletes the lease at once,    *)
(* and a scan leaves closed records alone.                                 *)
TablesInv == TypeOK /\ TablesAgree /\ FinishedIsReleased

(* The rows of one run are consistent.                                     *)
RowsOK(lease, record) ==
  /\ lease # NoRow => record # NoRow /\ record.recoveries = lease.recoveries
  /\ record # NoRow /\ record.status = "running" => lease # NoRow
  /\ record # NoRow => /\ record.finished <=> record.status \in Released
                       /\ record.finished => lease = NoRow

LEMMA TablesInvRows ==
  TablesInv <=> TypeOK /\ \A r \in Run : RowsOK(leases[r], records[r])
  BY DEF TablesInv, TablesAgree, FinishedIsReleased, RowsOK, HasLease

LEMMA TablesInvRowsNext ==
  TablesInv' <=> TypeOK' /\ \A r \in Run : RowsOK(leases'[r], records'[r])
  BY DEF TablesInv, TablesAgree, FinishedIsReleased, RowsOK, HasLease

(* Writing the rows of one run leaves those of the others alone.           *)
LEMMA OthersKept ==
  ASSUME TypeOK, NEW r \in Run, NEW q \in Run, q # r, NEW row,
         leases' = leases \/ leases' = [leases EXCEPT ![r] = row],
         NEW status, NEW count, NEW finished, Upsert(r, status, count, finished)
  PROVE  leases'[q] = leases[q] /\ records'[q] = records[q]
  BY DEF TypeOK, Upsert

LEMMA UpsertedRecord ==
  ASSUME TypeOK, NEW r \in Run, NEW status \in RecordStatus,
         NEW count \in 0..MaxRecoveries, NEW finished \in BOOLEAN,
         Upsert(r, status, count, finished)
  PROVE  /\ records'[r] # NoRow
         /\ records'[r].status = status
         /\ records'[r].finished = finished
         /\ records'[r].recoveries = count
  <1>1. records'[r] = [status |-> status, age |-> 0, finished |-> finished,
                       recoveries |-> count]
    BY DEF Upsert, TypeOK
  <1>2. records'[r] \in Record
    BY <1>1 DEF Record
  <1>3. QED
    BY <1>1, <1>2

LEMMA ReleaseRows ==
  ASSUME TablesInv, NEW o \in Owner, NEW r \in Run, NEW status,
         Release(o, r, status), NEW q \in Run
  PROVE  RowsOK(leases'[q], records'[q])
  <1>1. RowsOK(leases[q], records[q]) /\ TypeOK
    BY TablesInvRows
  <1>2. CASE ~Owns(o, r)
    BY <1>1, <1>2 DEF Release, tables
  <1>3. CASE Owns(o, r)
    <2>1. /\ leases' = [leases EXCEPT ![r] = NoRow]
          /\ Upsert(r, LifecycleStatus(status), RecoveryCount(r), TRUE)
      BY <1>3 DEF Release
    <2>2. LifecycleStatus(status) \in Released
      BY StatusType
    <2>3. CASE q # r
      BY <1>1, <2>1, <2>3, OthersKept
    <2>4. CASE q = r
      <3>1. leases'[r] = NoRow
        BY <1>1, <2>1 DEF TypeOK
      <3>2. LifecycleStatus(status) \in RecordStatus
        BY <2>2 DEF RecordStatus
      <3>3. /\ records'[r] # NoRow
            /\ records'[r].status \in Released
            /\ records'[r].finished = TRUE
        BY <1>1, <2>1, <2>2, <3>2, UpsertedRecord, RecoveryCountType
      <3>4. records'[r].status # "running"
        BY <3>3 DEF Released
      <3>5. QED
        BY <2>4, <3>1, <3>3, <3>4 DEF RowsOK
    <2>5. QED
      BY <2>3, <2>4
  <1>4. QED
    BY <1>2, <1>3

LEMMA TablesInvStep ==
  ASSUME TablesInv, TypeOK', [Next]_vars
  PROVE  TablesInv'
  <1>1. TypeOK /\ \A q \in Run : RowsOK(leases[q], records[q])
    BY TablesInvRows
  <1> SUFFICES ASSUME NEW q \in Run PROVE RowsOK(leases'[q], records'[q])
    BY TablesInvRowsNext
  <1> DEFINE Goal == RowsOK(leases'[q], records'[q])
  <1>2. ASSUME UNCHANGED tables PROVE Goal
    BY <1>1, <1>2 DEF tables
  <1>3. ASSUME NEW o \in Owner, NEW r \in Run, Acquire(o, r) PROVE Goal
    <2> DEFINE count == RecoveryCount(r) + IF Recovered(o, r) THEN 1 ELSE 0
               row == [owner |-> o, ttl |-> TTL, recoveries |-> count]
    <2>1. /\ leases' = [leases EXCEPT ![r] = row]
          /\ Upsert(r, "running", count, FALSE)
          /\ count <= MaxRecoveries
      BY <1>3 DEF Acquire
    <2>2. count \in 0..MaxRecoveries
      BY <1>1, <2>1, RecoveryCountType DEF Recovered
    <2> HIDE DEF count
    <2>3. row \in Lease /\ row.recoveries = count
      BY <2>2 DEF Lease
    <2>4. CASE q # r
      BY <1>1, <2>1, <2>4, OthersKept
    <2>5. CASE q = r
      <3>1. leases'[r] = row /\ row # NoRow
        BY <1>1, <2>1, <2>3 DEF TypeOK
      <3>2. /\ records'[r] # NoRow
            /\ records'[r].status = "running"
            /\ records'[r].finished = FALSE
            /\ records'[r].recoveries = count
        BY <1>1, <2>1, <2>2, UpsertedRecord DEF RecordStatus
      <3> HIDE DEF row
      <3>3. QED
        BY <2>3, <2>5, <3>1, <3>2 DEF RowsOK, Released
    <2>6. QED
      BY <2>4, <2>5
  <1>4. ASSUME NEW o \in Owner, NEW r \in Run,
               Heartbeat(o, r) \/ (MarkInterrupted(o, r) /\ Owns(o, r))
        PROVE  Goal
    <2>1. PICK status \in {"running", "interrupted"} :
            /\ Owns(o, r)
            /\ leases' = [leases EXCEPT ![r].ttl = TTL]
            /\ Upsert(r, status, RecoveryCount(r), FALSE)
      BY <1>4 DEF Heartbeat, MarkInterrupted
    <2>2. CASE q # r
      <3>1. leases'[q] = leases[q]
        BY <1>1, <2>1, <2>2 DEF TypeOK
      <3>2. records'[q] = records[q]
        BY <1>1, <2>1, <2>2 DEF TypeOK, Upsert
      <3>3. QED
        BY <1>1, <3>1, <3>2
    <2>3. CASE q = r
      <3>1. HasLease(r) /\ leases[r] \in Lease
        BY <1>1, <2>1, LeaseFields DEF Owns
      <3>2. leases'[r] = [leases[r] EXCEPT !.ttl = TTL]
        BY <1>1, <2>1 DEF TypeOK
      <3>3. leases'[r] \in Lease /\ leases'[r].recoveries = leases[r].recoveries
        BY <3>1, <3>2 DEF Lease
      <3>4. RecoveryCount(r) = leases[r].recoveries
        BY <3>1 DEF RecoveryCount
      <3>5. /\ records'[r] # NoRow
            /\ records'[r].status = status
            /\ records'[r].finished = FALSE
            /\ records'[r].recoveries = RecoveryCount(r)
        BY <1>1, <2>1, UpsertedRecord, RecoveryCountType DEF RecordStatus
      <3>6. QED
        BY <2>3, <3>3, <3>4, <3>5 DEF RowsOK, Released
    <2>4. QED
      BY <2>2, <2>3
  <1>5. ASSUME NEW o \in Owner, NEW r \in Run, MarkInterrupted(o, r), ~Owns(o, r)
        PROVE  Goal
    <2>1. leases' = leases /\ Upsert(r, "interrupted", RecoveryCount(r), FALSE)
      BY <1>5 DEF MarkInterrupted
    <2>2. CASE q # r
      BY <1>1, <2>1, <2>2 DEF TypeOK, Upsert
    <2>3. CASE q = r
      <3>1. /\ records'[r] # NoRow
            /\ records'[r].status = "interrupted"
            /\ records'[r].finished = FALSE
            /\ records'[r].recoveries = RecoveryCount(r)
        BY <1>1, <2>1, UpsertedRecord, RecoveryCountType DEF RecordStatus
      <3>2. leases[r] # NoRow => RecoveryCount(r) = leases[r].recoveries
        BY DEF RecoveryCount, HasLease
      <3>3. QED
        BY <2>1, <2>3, <3>1, <3>2 DEF RowsOK, Released
    <2>4. QED
      BY <2>2, <2>3
  <1>6. ASSUME NEW o \in Owner, NEW r \in Run, NEW status,
               \/ ReleaseUnprepared(o, r)
               \/ PutTerminal(o, r, status) \/ PutPending(o, r, status)
        PROVE  Goal
    BY <1>6, ReleaseRows DEF ReleaseUnprepared, PutTerminal, PutPending
  <1>7. ASSUME NEW o \in Owner, MarkStale(o) PROVE Goal
    <2>1. leases' = leases
      BY <1>7 DEF MarkStale
    <2>2. CASE records'[q] = records[q]
      BY <1>1, <2>1, <2>2
    <2>3. CASE /\ records[q] # NoRow /\ records[q].status \notin Released
               /\ records'[q] = [records[q] EXCEPT !.status = "abandoned", !.age = 0]
      <3>1. records[q] \in Record
        BY <1>1, <2>3, RecordFields
      <3>2. /\ records'[q].status = "abandoned"
            /\ records'[q].finished = records[q].finished
            /\ records'[q].recoveries = records[q].recoveries
        BY <2>3, <3>1 DEF Record
      <3>3. [records[q] EXCEPT !.status = "abandoned", !.age = 0] \in Record
        <4>1. "abandoned" \in RecordStatus /\ 0 \in 0..(MaxAge + 1)
          BY DEF RecordStatus
        <4>2. QED
          BY <3>1, <4>1 DEF Record
      <3>4. records'[q] # NoRow /\ ~records[q].finished
        BY <1>1, <2>3, <3>3, RecordFields DEF RowsOK
      <3>5. QED
        BY <1>1, <2>1, <2>3, <3>2, <3>4, RecordFields DEF RowsOK, Released
    <2>4. QED
      BY <1>7, <2>2, <2>3 DEF MarkStale, Stale
  <1>8. ASSUME NEW o \in Owner, DeleteOld(o) PROVE Goal
    <2>1. CASE q \in rows[o]
      BY <1>8, <2>1 DEF DeleteOld, RowsOK
    <2>2. CASE q \notin rows[o]
      BY <1>1, <1>8, <2>2 DEF DeleteOld
    <2>3. QED
      BY <2>1, <2>2
  <1>9. CASE Tick
    <2>1. /\ leases'[q] = NoRow <=> leases[q] = NoRow
          /\ leases[q] # NoRow => leases'[q].recoveries = leases[q].recoveries
      <3>1. CASE HasLease(q)
        <4>1. leases[q] \in Lease
          BY <1>1, <3>1, LeaseFields
        <4>2. leases'[q] = [leases[q] EXCEPT !.ttl = Elapse(leases[q].ttl)]
          BY <1>9, <3>1, <4>1 DEF Tick, Lease
        <4>3. Elapse(leases[q].ttl) \in 0..TTL
          BY <1>1, <3>1, LeaseFields DEF Elapse
        <4>4. leases'[q] \in Lease /\ leases'[q].recoveries = leases[q].recoveries
          BY <4>1, <4>2, <4>3 DEF Lease
        <4>5. QED
          BY <3>1, <4>4 DEF HasLease
      <3>2. CASE ~HasLease(q)
        BY <1>9, <3>2 DEF Tick, HasLease
      <3>3. QED
        BY <3>1, <3>2
    <2>2. CASE records[q] = NoRow
      <3>1. records'[q] = NoRow
        BY <1>9, <2>2 DEF Tick
      <3>2. QED
        BY <1>1, <2>1, <2>2, <3>1 DEF RowsOK
    <2>3. CASE records[q] # NoRow
      <3> DEFINE age == IF records[q].age > MaxAge THEN records[q].age
                        ELSE records[q].age + 1
      <3>1. records[q] \in Record
        BY <1>1, <2>3, RecordFields
      <3>2. records'[q] = [records[q] EXCEPT !.age = age]
        BY <1>9, <2>3, <3>1 DEF Tick, Record
      <3>3. age \in 0..(MaxAge + 1)
        BY <1>1, <2>3, RecordFields
      <3> HIDE DEF age
      <3>4. /\ records'[q] \in Record
            /\ records'[q].status = records[q].status
            /\ records'[q].finished = records[q].finished
            /\ records'[q].recoveries = records[q].recoveries
        BY <3>1, <3>2, <3>3 DEF Record
      <3>5. records'[q] # NoRow
        BY <3>4
      <3>6. QED
        BY <1>1, <2>1, <2>3, <3>4, <3>5 DEF RowsOK
    <2>4. QED
      BY <2>2, <2>3
  <1>10. ASSUME NEW o \in Owner, NEW r \in Run, RunStep(o, r) PROVE Goal
    BY <1>2, <1>3, <1>4, <1>5, <1>6, <1>10
    DEF RunStep, AcquireBusy, HeartbeatLost, StopEarly, NodeRaises, PutOpen, PutLater,
        Cancel
  <1>11. QED
    BY <1>2, <1>7, <1>8, <1>9, <1>10
    DEF Next, ProcessStep, MaintenanceStep, PutWrites, BeginMaintenance, ScanStale,
        SelectOld, Exit, Crash, End, vars, tables

(* No lease without a record of the same recovery count, no record that    *)
(* says running without a lease, and a finish time exactly on the records  *)
(* whose lease was released.                                               *)
THEOREM TablesConsistent == Spec => [](TablesAgree /\ FinishedIsReleased)
  <1>1. Init => TablesAgree /\ FinishedIsReleased
    BY DEF Init, TablesAgree, FinishedIsReleased, HasLease
  <1>2. TypeOK /\ TypeOK' /\ (TablesAgree /\ FinishedIsReleased) /\ [Next]_vars
          => (TablesAgree /\ FinishedIsReleased)'
    BY TablesInvStep DEF TablesInv
  <1>3. QED
    BY <1>1, <1>2, TypeCorrect, PTL DEF Spec

(* Lease and record of a run agree (acquire, heartbeat, release, put).     *)
THEOREM LeaseAndRecordAgree == Spec => []TablesAgree
  <1>1. TablesAgree /\ FinishedIsReleased => TablesAgree
    OBVIOUS
  <1>2. QED
    BY <1>1, TablesConsistent, PTL

(* A run whose record is finished has no lease (release, recover_stale).   *)
THEOREM FinishedHasNoLease == Spec => []FinishedIsReleased
  <1>1. TablesAgree /\ FinishedIsReleased => FinishedIsReleased
    OBVIOUS
  <1>2. QED
    BY <1>1, TablesConsistent, PTL
-----------------------------------------------------------------------------
(* One step of one process: the rows it deletes are its own or were read   *)
(* by its cleanup, and a row it leaves or writes keeps a live owner and    *)
(* counts a change of owner.                                               *)
LEMMA LeaseRowStep ==
  ASSUME TypeOK, [Next]_vars, NEW q \in Run, HasLease(q)
  PROVE  \/ /\ leases'[q] # NoRow
            /\ Live(q) => leases'[q].owner = leases[q].owner
            /\ leases'[q].recoveries = leases[q].recoveries
                 + IF leases'[q].owner = leases[q].owner THEN 0 ELSE 1
         \/ /\ leases'[q] = NoRow
            /\ Live(q) => \/ pc'[leases[q].owner] # pc[leases[q].owner]
                          \/ pending'[leases[q].owner] # pending[leases[q].owner]
                          \/ q \in sweptLive'
  <1> DEFINE Goal ==
         \/ /\ leases'[q] # NoRow
            /\ Live(q) => leases'[q].owner = leases[q].owner
            /\ leases'[q].recoveries = leases[q].recoveries
                 + IF leases'[q].owner = leases[q].owner THEN 0 ELSE 1
         \/ /\ leases'[q] = NoRow
            /\ Live(q) => \/ pc'[leases[q].owner] # pc[leases[q].owner]
                          \/ pending'[leases[q].owner] # pending[leases[q].owner]
                          \/ q \in sweptLive'
  <1>1. leases[q] \in Lease /\ leases[q].recoveries \in Nat
    BY LeaseFields
  <1>2. ASSUME leases'[q] = leases[q] PROVE Goal
    BY <1>1, <1>2 DEF HasLease
  <1>3. ASSUME NEW ttl \in 0..TTL, leases'[q] = [leases[q] EXCEPT !.ttl = ttl]
        PROVE  Goal
    <2>1. /\ leases'[q] \in Lease
          /\ leases'[q].owner = leases[q].owner
          /\ leases'[q].recoveries = leases[q].recoveries
      BY <1>1, <1>3 DEF Lease
    <2>2. QED
      BY <1>1, <2>1
  <1>4. ASSUME NEW o \in Owner, NEW r \in Run, Acquire(o, r) PROVE Goal
    <2> DEFINE count == RecoveryCount(r) + IF Recovered(o, r) THEN 1 ELSE 0
               row == [owner |-> o, ttl |-> TTL, recoveries |-> count]
    <2>1. /\ leases' = [leases EXCEPT ![r] = row]
          /\ count <= MaxRecoveries
          /\ HasLease(r) /\ ~Owns(o, r) => ~Live(r)
      BY <1>4 DEF Acquire, Blocked
    <2>2. CASE q # r
      BY <1>2, <2>1, <2>2 DEF TypeOK
    <2>3. CASE q = r
      <3>1. count \in 0..MaxRecoveries
        BY <2>1, RecoveryCountType DEF Recovered
      <3>2. count = leases[q].recoveries + IF leases[q].owner = o THEN 0 ELSE 1
        BY <1>1, <2>3 DEF RecoveryCount, Recovered, Owns
      <3> HIDE DEF count
      <3>3. row \in Lease /\ row.owner = o /\ row.recoveries = count
        BY <3>1 DEF Lease
      <3>4. leases'[q] = row
        BY <2>1, <2>3 DEF TypeOK
      <3>5. Live(q) => leases[q].owner = o
        BY <2>1, <2>3 DEF Owns
      <3> HIDE DEF row
      <3>6. QED
        BY <3>2, <3>3, <3>4, <3>5
    <2>4. QED
      BY <2>2, <2>3
  <1>5. ASSUME NEW o \in Owner, NEW r \in Run,
               Heartbeat(o, r) \/ MarkInterrupted(o, r)
        PROVE  Goal
    <2>1. leases' = leases \/ leases' = [leases EXCEPT ![r].ttl = TTL]
      BY <1>5 DEF Heartbeat, MarkInterrupted
    <2>2. leases'[q] = leases[q] \/ leases'[q] = [leases[q] EXCEPT !.ttl = TTL]
      BY <2>1 DEF TypeOK
    <2>3. QED
      BY <1>2, <1>3, <2>2
  <1>6. ASSUME NEW o \in Owner, NEW r \in Run, NEW status, Release(o, r, status),
               pc'[o] # pc[o] \/ pending'[o] # pending[o]
        PROVE  Goal
    <2>1. leases' = leases \/ (Owns(o, r) /\ leases' = [leases EXCEPT ![r] = NoRow])
      BY <1>6 DEF Release, tables
    <2>2. QED
      BY <1>2, <1>6, <2>1 DEF Owns, TypeOK
  <1>7. ASSUME NEW o \in Owner, NEW r \in Run, NEW status,
               \/ ReleaseUnprepared(o, r)
               \/ PutTerminal(o, r, status) \/ PutPending(o, r, status)
        PROVE  Goal
    <2>1. CASE ReleaseUnprepared(o, r) \/ PutTerminal(o, r, status)
      <3>1. Release(o, r, "preflight_failed") \/ Release(o, r, status)
        BY <2>1 DEF ReleaseUnprepared, PutTerminal
      <3>2. pc'[o] # pc[o]
        BY <2>1 DEF ReleaseUnprepared, PutTerminal, Goto, TypeOK
      <3>3. QED
        BY <1>6, <3>1, <3>2
    <2>2. CASE PutPending(o, r, status)
      <3>1. Release(o, r, status) /\ pending'[o] # pending[o]
        BY <2>2 DEF PutPending, TypeOK
      <3>2. QED
        BY <1>6, <3>1
    <2>3. QED
      BY <1>7, <2>1, <2>2
  <1>8. ASSUME NEW o \in Owner, DeleteOld(o) PROVE Goal
    <2>1. CASE q \in rows[o]
      BY <1>8, <2>1 DEF DeleteOld
    <2>2. CASE q \notin rows[o]
      BY <1>2, <1>8, <2>2 DEF DeleteOld
    <2>3. QED
      BY <2>1, <2>2
  <1>9. CASE Tick
    <2>1. leases'[q] = [leases[q] EXCEPT !.ttl = Elapse(leases[q].ttl)]
      BY <1>1, <1>9 DEF Tick, Lease
    <2>2. Elapse(leases[q].ttl) \in 0..TTL
      BY LeaseFields DEF Elapse
    <2>3. QED
      BY <1>3, <2>1, <2>2
  <1>10. ASSUME UNCHANGED leases PROVE Goal
    BY <1>2, <1>10
  <1>11. ASSUME NEW o \in Owner, NEW r \in Run, RunStep(o, r) PROVE Goal
    BY <1>4, <1>5, <1>7, <1>10, <1>11
    DEF RunStep, AcquireBusy, HeartbeatLost, StopEarly, NodeRaises, PutOpen, PutLater,
        Cancel, tables
  <1>12. QED
    BY <1>8, <1>9, <1>10, <1>11
    DEF Next, ProcessStep, MaintenanceStep, PutWrites, BeginMaintenance, ScanStale,
        MarkStale, SelectOld, Exit, Crash, End, vars, tables

(* A live lease changes owner only by being removed first, by its own      *)
(* owner or by a cleanup that is then on record as having done so.         *)
THEOREM LiveLeaseIsKept == Spec => LiveLeaseKept
  <1>1. TypeOK /\ [Next]_vars =>
          [\A r \in Run : Live(r) =>
             \/ HasLease(r)' /\ leases'[r].owner = leases[r].owner
             \/ /\ ~HasLease(r)'
                /\ \/ pc'[leases[r].owner] # pc[leases[r].owner]
                   \/ pending'[leases[r].owner] # pending[leases[r].owner]
                   \/ r \in sweptLive']_vars
    BY LeaseRowStep DEF Live, HasLease
  <1>2. QED
    BY <1>1, TypeCorrect, PTL DEF Spec, LiveLeaseKept

(* While the row of a run exists, its recovery count goes up by one with   *)
(* each change of owner and with nothing else.                             *)
THEOREM RecoveriesAreCounted == Spec => RecoveryCountsTakeovers
  <1>1. TypeOK /\ [Next]_vars =>
          [\A r \in Run : HasLease(r) /\ HasLease(r)' =>
             leases'[r].recoveries = leases[r].recoveries
               + IF leases'[r].owner = leases[r].owner THEN 0 ELSE 1]_vars
    BY LeaseRowStep DEF HasLease
  <1>2. QED
    BY <1>1, TypeCorrect, PTL DEF Spec, RecoveryCountsTakeovers
=============================================================================

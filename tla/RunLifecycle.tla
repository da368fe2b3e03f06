---------------------------- MODULE RunLifecycle ----------------------------
(***************************************************************************)
(* Run leases and lifecycle records (workflow/lifecycle.py), with the      *)
(* processes that use them: a graph process takes the lease before every   *)
(* node, renews it after the node and releases it after a terminal         *)
(* checkpoint; a maintenance process (`runs list`, `recover`, `cleanup`)   *)
(* scans the two tables.  All of them share one SQLite file.               *)
(*                                                                         *)
(* Every manager has a fresh owner_id, so an owner is one process.  Time   *)
(* is relative: a lease keeps the time left before expires_at and a record *)
(* the time since updated_at, so the clock itself needs no bound.          *)
(*                                                                         *)
(* A definition named after the one that follows it (BlockedTooShort       *)
(* before Blocked) is a slip in that code which the properties below must  *)
(* notice; nothing else uses it.                                           *)
(***************************************************************************)
EXTENDS Naturals, FiniteSets

CONSTANTS
  Owner,          (* processes, each with its own owner_id               *)
  Run,            (* run ids, which are LangGraph thread ids             *)
  Sweepers,       (* owners that may run `runs cleanup --delete-records` *)
  TTL,            (* lease_ttl_seconds, in clock ticks                   *)
  MaxAge,         (* max_age_seconds of cleanup, in clock ticks          *)
  MaxRecoveries,  (* bound on takeovers of one lease row                 *)
  NoRow,          (* the absent row of either table                      *)
  Nobody          (* no process                                          *)

Released == {"complete", "failed", "cancelled", "blocked"}
RecordStatus == Released \cup {"running", "interrupted", "abandoned"}
TerminalLifecycleStatuses == {"complete", "failed", "cancelled", "abandoned"}
TerminalRunStatuses ==
  {"complete", "pr_created", "pull_request_preview", "failed",
   "preflight_failed", "cancelled", "budget_exceeded",
   "attempt_limit_reached", "approval_denied"}

Lease == [owner : Owner, ttl : 0..TTL, recoveries : 0..MaxRecoveries]
Record == [status : RecordStatus, age : 0..(MaxAge + 1), finished : BOOLEAN,
           recoveries : 0..MaxRecoveries]
Phase == {"idle", "node", "put", "putFinal", "scan", "marking", "selecting",
          "deleting", "gone"}

ASSUME ConstantsOK ==
  /\ Sweepers \subseteq Owner
  /\ TTL \in Nat \ {0}
  /\ MaxAge \in Nat
  /\ MaxRecoveries \in Nat
  /\ NoRow \notin Lease
  /\ NoRow \notin Record
  /\ Nobody \notin Owner

VARIABLES
  leases,     (* table run_leases                                         *)
  records,    (* table run_records                                        *)
  writer,     (* the connection with an uncommitted write transaction     *)
  pc,         (* what each process is doing                               *)
  scope,      (* the runs the current call of a process is about          *)
  rows,       (* run ids a maintenance call has read and not yet used     *)
  pending,    (* runs whose terminal checkpoint is yet to be put          *)
  granted,    (* time left on the lease last returned to an owner         *)
  sweptLive   (* history: runs that lost a live lease to cleanup          *)

vars == <<leases, records, writer, pc, scope, rows, pending, granted, sweptLive>>
tables == <<leases, records>>
process == <<pc, scope, rows>>

HasLease(r) == leases[r] # NoRow
Live(r) == HasLease(r) /\ leases[r].ttl > 0
Owns(o, r) == HasLease(r) /\ leases[r].owner = o
RecoveryCount(r) == IF HasLease(r) THEN leases[r].recoveries ELSE 0

(* acquire looks at the row of another owner: a live one blocks, an        *)
(* expired one is taken over.                                              *)
BlockedTooShort(o, r) == HasLease(r) /\ leases[r].ttl > 1 /\ ~Owns(o, r)
Blocked(o, r) == Live(r) /\ ~Owns(o, r)
RecoveredOnExpiry(o, r) == HasLease(r) /\ ~Live(r)
Recovered(o, r) == HasLease(r) /\ ~Owns(o, r)

LifecycleStatus(status) ==
  CASE status \in {"complete", "pr_created", "pull_request_preview"} -> "complete"
    [] status \in {"cancelled", "budget_exceeded"} -> "cancelled"
    [] status = "run_locked" -> "blocked"
    [] OTHER -> "failed"

(* A write waits for, and then holds, SQLite's single write transaction. *)
CanWrite(o) == writer \in {o, Nobody}
CloseTransactionNever(o) == UNCHANGED writer
CloseTransaction(o) == writer' = IF writer = o THEN Nobody ELSE writer

(* _upsert_record, updated_at being the present. *)
UpsertUncounted(r, status, recoveries, finished) ==
  records' = [records EXCEPT ![r] =
    [status |-> status, age |-> 0, finished |-> finished, recoveries |-> 0]]
Upsert(r, status, recoveries, finished) ==
  records' = [records EXCEPT ![r] =
    [status |-> status, age |-> 0, finished |-> finished,
     recoveries |-> recoveries]]

Goto(o, phase, runs) ==
  /\ pc' = [pc EXCEPT ![o] = phase]
  /\ scope' = [scope EXCEPT ![o] = runs]

Init ==
  /\ leases = [r \in Run |-> NoRow]
  /\ records = [r \in Run |-> NoRow]
  /\ writer = Nobody
  /\ pc = [o \in Owner |-> "idle"]
  /\ scope = [o \in Owner |-> {}]
  /\ rows = [o \in Owner |-> {}]
  /\ granted = [o \in Owner |-> [r \in Run |-> 0]]
  /\ pending = [o \in Owner |-> {}]
  /\ sweptLive = {}
-----------------------------------------------------------------------------
(* acquire raises RunBusyError: the node is not run and its update, status *)
(* run_locked, is checkpointed, which commits and releases nothing.        *)
AcquireBusyExtends(o, r) ==
  /\ pc[o] = "idle"
  /\ CanWrite(o)
  /\ Blocked(o, r)
  /\ leases' = [leases EXCEPT ![r].ttl = TTL]
  /\ writer' = Nobody
  /\ UNCHANGED <<records, process, granted, pending, sweptLive>>
AcquireBusy(o, r) ==
  /\ pc[o] = "idle"
  /\ CanWrite(o)
  /\ Blocked(o, r)
  /\ writer' = Nobody
  /\ UNCHANGED <<tables, process, granted, pending, sweptLive>>

(* acquire succeeds: a first lease, a renewal, or the takeover of an       *)
(* expired one, which alone counts as a recovery.                          *)
Acquire(o, r) ==
  LET count == RecoveryCount(r) + IF Recovered(o, r) THEN 1 ELSE 0
  IN
  /\ pc[o] = "idle"
  /\ CanWrite(o)
  /\ ~Blocked(o, r)
  /\ count <= MaxRecoveries
  /\ leases' = [leases EXCEPT ![r] =
       [owner |-> o, ttl |-> TTL, recoveries |-> count]]
  /\ Upsert(r, "running", count, FALSE)
  /\ writer' = Nobody
  /\ granted' = [granted EXCEPT ![o][r] = TTL]
  /\ Goto(o, "node", {r})
  /\ UNCHANGED <<rows, pending, sweptLive>>

(* heartbeat after the node, when the row is still the owner's: expires_at *)
(* is not looked at, so an expired lease nobody took over is revived.      *)
HeartbeatAnyOwner(o, r) ==
  /\ pc[o] = "node" /\ r \in scope[o]
  /\ CanWrite(o)
  /\ HasLease(r)
  /\ leases' = [leases EXCEPT ![r].ttl = TTL]
  /\ Upsert(r, "running", RecoveryCount(r), FALSE)
  /\ writer' = Nobody
  /\ granted' = [granted EXCEPT ![o][r] = TTL]
  /\ Goto(o, "put", {r})
  /\ UNCHANGED <<rows, pending, sweptLive>>
Heartbeat(o, r) ==
  /\ pc[o] = "node" /\ r \in scope[o]
  /\ CanWrite(o)
  /\ Owns(o, r)
  /\ leases' = [leases EXCEPT ![r].ttl = TTL]
  /\ Upsert(r, "running", RecoveryCount(r), FALSE)
  /\ writer' = Nobody
  /\ granted' = [granted EXCEPT ![o][r] = TTL]
  /\ Goto(o, "put", {r})
  /\ UNCHANGED <<rows, pending, sweptLive>>

(* heartbeat raises LeaseLostError between the UPDATE, which opened the    *)
(* connection's write transaction, and the commit.                         *)
HeartbeatLost(o, r) ==
  /\ pc[o] = "node" /\ r \in scope[o]
  /\ CanWrite(o)
  /\ ~Owns(o, r)
  /\ writer' = o
  /\ granted' = [granted EXCEPT ![o][r] = 0]
  /\ Goto(o, "putFinal", {r})
  /\ UNCHANGED <<tables, rows, pending, sweptLive>>

(* The wrapper stops before the node (cancelled, a budget exceeded) and    *)
(* returns a terminal status, or the node raises and nothing is recorded.  *)
StopEarly(o, r) ==
  /\ pc[o] = "node" /\ r \in scope[o]
  /\ Goto(o, "putFinal", {r})
  /\ UNCHANGED <<tables, writer, rows, granted, pending, sweptLive>>

NodeRaises(o, r) ==
  /\ pc[o] = "node" /\ r \in scope[o]
  /\ Goto(o, "idle", {})
  /\ UNCHANGED <<tables, writer, rows, granted, pending, sweptLive>>

(* The node raised GraphInterrupt: mark_interrupted extends the lease only *)
(* if the owner still has it, and writes the record in either case.        *)
MarkInterruptedAnyOwner(o, r) ==
  /\ pc[o] = "node" /\ r \in scope[o]
  /\ CanWrite(o)
  /\ leases' = IF HasLease(r) THEN [leases EXCEPT ![r].ttl = TTL] ELSE leases
  /\ Upsert(r, "interrupted", RecoveryCount(r), FALSE)
  /\ writer' = Nobody
  /\ granted' = [granted EXCEPT ![o][r] = IF HasLease(r) THEN TTL ELSE 0]
  /\ Goto(o, "idle", {})
  /\ UNCHANGED <<rows, pending, sweptLive>>
MarkInterrupted(o, r) ==
  /\ pc[o] = "node" /\ r \in scope[o]
  /\ CanWrite(o)
  /\ leases' = IF Owns(o, r) THEN [leases EXCEPT ![r].ttl = TTL] ELSE leases
  /\ Upsert(r, "interrupted", RecoveryCount(r), FALSE)
  /\ writer' = Nobody
  /\ granted' = [granted EXCEPT ![o][r] = IF Owns(o, r) THEN TTL ELSE 0]
  /\ Goto(o, "idle", {})
  /\ UNCHANGED <<rows, pending, sweptLive>>

(* release: deletes the owner's row and closes the record; when the row is *)
(* not the owner's it returns False with the transaction of its DELETE     *)
(* still open.                                                             *)
ReleaseAnyOwner(o, r, status) ==
  /\ leases' = [leases EXCEPT ![r] = NoRow]
  /\ Upsert(r, LifecycleStatus(status), RecoveryCount(r), TRUE)
  /\ writer' = Nobody
  /\ granted' = [granted EXCEPT ![o][r] = 0]
Release(o, r, status) ==
  \/ /\ Owns(o, r)
     /\ leases' = [leases EXCEPT ![r] = NoRow]
     /\ Upsert(r, LifecycleStatus(status), RecoveryCount(r), TRUE)
     /\ writer' = Nobody
     /\ granted' = [granted EXCEPT ![o][r] = 0]
  \/ /\ ~Owns(o, r)
     /\ writer' = o
     /\ granted' = [granted EXCEPT ![o][r] = 0]
     /\ UNCHANGED tables

(* The worktree could not be prepared: the wrapper releases the lease      *)
(* before the node runs and returns status preflight_failed.               *)
ReleaseUnprepared(o, r) ==
  /\ pc[o] = "node" /\ r \in scope[o]
  /\ CanWrite(o)
  /\ Release(o, r, "preflight_failed")
  /\ Goto(o, "putFinal", {r})
  /\ UNCHANGED <<rows, pending, sweptLive>>

(* VersionedSqliteSaver.put commits the checkpoint; a terminal status then *)
(* releases the lease, any other leaves it to the next node.  One put      *)
(* follows the other.                                                      *)
PutOpen(o, r) ==
  /\ pc[o] = "put" /\ r \in scope[o] \ pending[o]
  /\ CanWrite(o)
  /\ writer' = Nobody
  /\ Goto(o, "idle", {})
  /\ UNCHANGED <<tables, rows, granted, pending, sweptLive>>

PutTerminal(o, r, status) ==
  /\ pc[o] \in {"put", "putFinal"} /\ r \in scope[o] \ pending[o]
  /\ CanWrite(o)
  /\ Release(o, r, status)
  /\ Goto(o, "idle", {})
  /\ UNCHANGED <<rows, pending, sweptLive>>

(* LangGraph puts checkpoints in the background: the next node may begin,  *)
(* and take the lease again, before a terminal status that is not the end  *)
(* of the graph has released it.                                           *)
PutLater(o, r) ==
  /\ pc[o] \in {"put", "putFinal"} /\ r \in scope[o] \ pending[o]
  /\ pending' = [pending EXCEPT ![o] = @ \cup {r}]
  /\ Goto(o, "idle", {})
  /\ UNCHANGED <<tables, writer, rows, granted, sweptLive>>

PutPending(o, r, status) ==
  /\ r \in pending[o]
  /\ CanWrite(o)
  /\ Release(o, r, status)
  /\ pending' = [pending EXCEPT ![o] = @ \ {r}]
  /\ UNCHANGED <<process, sweptLive>>

(* The first step of a session on a run writes the operator's answer;      *)
(* put_writes touches neither table and commits.                           *)
PutWrites(o) ==
  /\ pc[o] = "idle"
  /\ CanWrite(o)
  /\ writer' = Nobody
  /\ UNCHANGED <<tables, process, granted, pending, sweptLive>>

(* `runs cancel` puts a checkpoint with status cancelled beside the run,   *)
(* unless the record says that it has finished.                            *)
Cancel(o, r) ==
  /\ pc[o] = "idle"
  /\ records[r] # NoRow => records[r].status \notin {"complete", "failed", "cancelled"}
  /\ pending' = [pending EXCEPT ![o] = @ \cup {r}]
  /\ UNCHANGED <<tables, writer, process, granted, sweptLive>>
-----------------------------------------------------------------------------
(* `runs list` and `runs recover` mark stale leases; `runs cleanup` goes   *)
(* on to delete, for one run or for all.                                   *)
BeginMaintenance(o, runs) ==
  /\ pc[o] = "idle"
  /\ runs # {} => o \in Sweepers
  /\ Goto(o, "scan", runs)
  /\ UNCHANGED <<tables, writer, rows, granted, pending, sweptLive>>

(* recover_stale reads the expired leases outside any transaction ...      *)
ScanStale(o) ==
  /\ pc[o] = "scan"
  /\ rows' = [rows EXCEPT ![o] = {r \in Run : HasLease(r) /\ ~Live(r)}]
  /\ Goto(o, "marking", scope[o])
  /\ UNCHANGED <<tables, writer, granted, pending, sweptLive>>

(* ... and then updates the records of those runs, refreshing updated_at   *)
(* even when the record is abandoned already.                              *)
StaleAnyStatus(r) == records[r] # NoRow
Stale(r) == records[r] # NoRow /\ records[r].status \notin Released

MarkStale(o) ==
  /\ pc[o] = "marking"
  /\ rows[o] = {} \/ CanWrite(o)
  /\ records' = [r \in Run |->
       IF r \in rows[o] /\ Stale(r)
       THEN [records[r] EXCEPT !.status = "abandoned", !.age = 0]
       ELSE records[r]]
  /\ CloseTransaction(o)
  /\ rows' = [rows EXCEPT ![o] = {}]
  /\ Goto(o, IF scope[o] = {} THEN "idle" ELSE "selecting", scope[o])
  /\ UNCHANGED <<leases, granted, pending, sweptLive>>

(* cleanup reads the old finished or abandoned records ...                 *)
SelectOld(o) ==
  /\ pc[o] = "selecting"
  /\ rows' = [rows EXCEPT ![o] =
       {r \in scope[o] : /\ records[r] # NoRow
                         /\ records[r].age > MaxAge
                         /\ records[r].status \in TerminalLifecycleStatuses}]
  /\ Goto(o, "deleting", scope[o])
  /\ UNCHANGED <<tables, writer, granted, pending, sweptLive>>

(* ... and deletes lease and record of every run it read.                  *)
DeleteOld(o) ==
  /\ pc[o] = "deleting"
  /\ rows[o] = {} \/ CanWrite(o)
  /\ leases' = [r \in Run |-> IF r \in rows[o] THEN NoRow ELSE leases[r]]
  /\ records' = [r \in Run |-> IF r \in rows[o] THEN NoRow ELSE records[r]]
  /\ sweptLive' = sweptLive \cup {r \in rows[o] : Live(r)}
  /\ CloseTransaction(o)
  /\ rows' = [rows EXCEPT ![o] = {}]
  /\ Goto(o, "idle", {})
  /\ UNCHANGED <<granted, pending>>
-----------------------------------------------------------------------------
(* A process ends between calls or is killed in the middle of one; SQLite  *)
(* rolls its open transaction back.  Its successor has a new owner_id.     *)
End(o) ==
  /\ CloseTransaction(o)
  /\ granted' = [granted EXCEPT ![o] = [r \in Run |-> 0]]
  /\ rows' = [rows EXCEPT ![o] = {}]
  /\ pending' = [pending EXCEPT ![o] = {}]
  /\ Goto(o, "gone", {})
  /\ UNCHANGED <<tables, sweptLive>>

Exit(o) == pc[o] = "idle" /\ pending[o] = {} /\ End(o)

Crash(o) ==
  /\ pc[o] \notin {"idle", "gone"} \/ pending[o] # {}
  /\ End(o)

InMaintenanceCall(o) == pc[o] \in {"marking", "selecting", "deleting"}

Elapse(left) == IF left = 0 THEN 0 ELSE left - 1

(* One unit of time passes.  A maintenance call reads the clock once and   *)
(* is short against the unit, so none is in progress.                      *)
Tick ==
  /\ \A o \in Owner : ~InMaintenanceCall(o)
  /\ leases' = [r \in Run |->
       IF HasLease(r) THEN [leases[r] EXCEPT !.ttl = Elapse(@)] ELSE NoRow]
  /\ records' = [r \in Run |->
       IF records[r] = NoRow THEN NoRow
       ELSE [records[r] EXCEPT !.age = IF @ > MaxAge THEN @ ELSE @ + 1]]
  /\ granted' = [o \in Owner |-> [r \in Run |-> Elapse(granted[o][r])]]
  /\ UNCHANGED <<writer, process, pending, sweptLive>>

RunStep(o, r) ==
  \/ AcquireBusy(o, r)
  \/ Acquire(o, r)
  \/ Heartbeat(o, r)
  \/ HeartbeatLost(o, r)
  \/ StopEarly(o, r)
  \/ NodeRaises(o, r)
  \/ MarkInterrupted(o, r)
  \/ ReleaseUnprepared(o, r)
  \/ PutOpen(o, r)
  \/ PutLater(o, r)
  \/ Cancel(o, r)
  \/ \E status \in TerminalRunStatuses :
       PutTerminal(o, r, status) \/ PutPending(o, r, status)

MaintenanceStep(o) ==
  \/ \E runs \in {{}, Run} \cup {{r} : r \in Run} : BeginMaintenance(o, runs)
  \/ ScanStale(o)
  \/ MarkStale(o)
  \/ SelectOld(o)
  \/ DeleteOld(o)

ProcessStep(o) ==
  (\E r \in Run : RunStep(o, r)) \/ PutWrites(o) \/ MaintenanceStep(o) \/ Exit(o)

Next == (\E o \in Owner : ProcessStep(o) \/ Crash(o)) \/ Tick

Spec == Init /\ [][Next]_vars

(* Time never stops: maintenance calls are short against its unit, so they *)
(* do not overlap for ever.  A process that is not killed goes on, and     *)
(* `runs cancel`, a process of its own, does not cancel for ever.          *)
FairSpec ==
  /\ Spec
  /\ \A o \in Owner : <>[][\A r \in Run : ~Cancel(o, r)]_vars
  /\ SF_vars(Tick)
  /\ []<>(\A o \in Owner : ~InMaintenanceCall(o))
  /\ \A o \in Owner : WF_vars(ProcessStep(o))
-----------------------------------------------------------------------------
(* Types of the two tables, of the processes and of the history variable.  *)
TypeOK ==
  /\ leases \in [Run -> Lease \cup {NoRow}]
  /\ records \in [Run -> Record \cup {NoRow}]
  /\ writer \in Owner \cup {Nobody}
  /\ pc \in [Owner -> Phase]
  /\ scope \in [Owner -> SUBSET Run]
  /\ rows \in [Owner -> SUBSET Run]
  /\ pending \in [Owner -> SUBSET Run]
  /\ granted \in [Owner -> [Run -> 0..TTL]]
  /\ sweptLive \subseteq Run

(* An owner whose lease has not run out by its own account is the owner    *)
(* the table names, unless cleanup deleted that lease under it.            *)
GrantBacked ==
  \A o \in Owner, r \in Run \ sweptLive :
    granted[o][r] > 0 => Owns(o, r) /\ leases[r].ttl = granted[o][r]

(* Coordinate one active owner: two processes never hold unexpired leases  *)
(* of one run, whatever they, a takeover, a late heartbeat or a scan do.   *)
OneLiveHolder ==
  \A r \in Run \ sweptLive : \A o1, o2 \in Owner :
    granted[o1][r] > 0 /\ granted[o2][r] > 0 => o1 = o2

(* Lease and record rows come and go together: no lease without a record,  *)
(* none with a different recovery count, no record that says running (and  *)
(* so would be shown as active for ever) without a lease that can expire.  *)
TablesAgree ==
  \A r \in Run :
    /\ HasLease(r) => /\ records[r] # NoRow
                      /\ records[r].recoveries = leases[r].recoveries
    /\ records[r] # NoRow /\ records[r].status = "running" => HasLease(r)

(* A record that says complete, failed or cancelled has its finish time    *)
(* and no lease; every other record has no finish time, so an abandoned    *)
(* one never counts as finished, even when a late scan wrote it.           *)
FinishedIsReleased ==
  \A r \in Run : records[r] # NoRow =>
    /\ records[r].finished <=> records[r].status \in Released
    /\ records[r].finished => ~HasLease(r)

(* A live lease never passes from one owner to another in one step, and    *)
(* only its own owner or a cleanup that read the run earlier removes it.   *)
LiveLeaseKept ==
  [][\A r \in Run : Live(r) =>
       \/ HasLease(r)' /\ leases'[r].owner = leases[r].owner
       \/ /\ ~HasLease(r)'
          /\ \/ pc'[leases[r].owner] # pc[leases[r].owner]
             \/ pending'[leases[r].owner] # pending[leases[r].owner]
             \/ r \in sweptLive']_vars

(* While a lease row exists its recovery count counts its changes of       *)
(* owner, one each, and no heartbeat, pause or scan changes it.            *)
RecoveryCountsTakeovers ==
  [][\A r \in Run : HasLease(r) /\ HasLease(r)' =>
       leases'[r].recoveries =
         leases[r].recoveries + IF leases'[r].owner = leases[r].owner THEN 0 ELSE 1]_vars

(* The write transaction a failed heartbeat or release leaves open is      *)
(* closed in the end, so the other processes can write again.              *)
WriteLockIsFreed == \A o \in Owner : writer = o ~> writer # o

(* The lease of a process that is gone runs out: nobody can extend it by   *)
(* mistake, so the run can be taken over.                                  *)
OrphanExpires ==
  \A o \in Owner, r \in Run :
    pc[o] = "gone" /\ Owns(o, r) ~> ~(Owns(o, r) /\ Live(r))
(* Without cleanup the leases implement the token: it is granted only to   *)
(* a process no other is entitled beside, through renewals and takeovers.  *)
Token == INSTANCE LeaseToken WITH
  entitled <- [r \in Run |-> {o \in Owner : granted[o][r] > 0}]
LeasesAreTokens == Token!Spec
=============================================================================

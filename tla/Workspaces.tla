------------------------------ MODULE Workspaces ------------------------------
(***************************************************************************)
(* The worktree and the branches of a run (workflow/workspaces.py), and    *)
(* the commands that remove them, `runs remove` and `runs prune` of        *)
(* workflow/cli.py, against runs that start, work, pause, end and are      *)
(* resumed in the meantime.  The commands read the lifecycle tables first, *)
(* then what is on disk, and remove one thing after the other.             *)
(*                                                                         *)
(* Leases are as in RunLifecycle, seen from outside: one process at a time *)
(* has a run.  A run has a row in run_leases while its record is live or   *)
(* abandoned.                                                              *)
(*                                                                         *)
(* A definition named after the one that follows it is a slip in that code *)
(* which the properties must notice; nothing else uses it.                 *)
(***************************************************************************)
EXTENDS Naturals, FiniteSets

CONSTANTS
  Run,      (* run ids                                                     *)
  Clean,    (* each id with its unsafe characters replaced                 *)
  Changed,  (* ids that the replacement changes                            *)
  Workers,  (* bound: the runs that change files                           *)
  Cleaner,  (* processes that remove worktrees and branches                *)
  Flags     (* what --force, --delete-branch(es) and --include-remote may  *)
            (* be; the last two need SHANKS_MODE=development, as here      *)

(* An id of 80 characters or more is cut, digest and all, and one that     *)
(* differs from another by the whitespace around it has the other's name;  *)
(* there are neither here.  An id that needs no replacement is its own     *)
(* name.                                                                   *)
ASSUME ConstantsOK ==
  /\ Changed \subseteq Run
  /\ Workers \subseteq Run
  /\ DOMAIN Clean = Run
  /\ \A r, s \in Run \ Changed : Clean[r] = Clean[s] => r = s
  /\ Flags \subseteq [force : BOOLEAN, branches : BOOLEAN, remotes : BOOLEAN]

(* _normalize_component: an id that was changed gets its digest, which is  *)
(* taken to tell ids apart.                                                *)
NameOfBare(r) == <<Clean[r]>>
NameOf(r) == IF r \in Changed THEN <<Clean[r], r>> ELSE <<Clean[r]>>
Name == {NameOf(r) : r \in Run}

VARIABLES
  record,  (* the lifecycle record: live is running or interrupted         *)
  leased,  (* the run has a lease that has not run out                     *)
  at,      (* its process: none or between nodes, before ensure, in a     *)
           (* node, dead with its lease still running                      *)
  tree,    (* the worktree directory of a name                             *)
  branch,  (* its local branch: at the base, with commits of the run that  *)
           (* are not pushed, with all of them pushed, or made anew from   *)
           (* the base and grown apart from what was pushed                *)
  remote,  (* names whose branch is on the remote, with commits of the run *)
  call,    (* what each cleaner is doing, and what it has read             *)
  steady   (* history: runs live ever since the cleaner's call began       *)

runVars == <<record, leased, at>>
disk == <<tree, branch, remote>>
vars == <<runVars, disk, call, steady>>

NoFlags == [force |-> FALSE, branches |-> FALSE, remotes |-> FALSE]
Idle == [phase |-> "idle", flags |-> NoFlags, live |-> {},
         trees |-> {}, locals |-> {}, heads |-> {}]

Init ==
  /\ record = [r \in Run |-> "none"]
  /\ leased = [r \in Run |-> FALSE]
  /\ at = [r \in Run |-> "out"]
  /\ tree = [n \in Name |-> "none"]
  /\ branch = [n \in Name |-> "none"]
  /\ remote = {}
  /\ call = [c \in Cleaner |-> Idle]
  /\ steady = [c \in Cleaner |-> {}]
-----------------------------------------------------------------------------
(* A run.  Before a node its process takes the lease, for which a lease of *)
(* a dead process must have run out; then ensure finds or makes the tree.  *)
SetRun(r, status, lease, place) ==
  /\ record' = [record EXCEPT ![r] = status]
  /\ leased' = [leased EXCEPT ![r] = lease]
  /\ at' = [at EXCEPT ![r] = place]

Acquire(r) ==
  /\ at[r] = "out"
  /\ SetRun(r, "live", TRUE, "acquired")
  /\ UNCHANGED <<disk, call>>

Ensure(r) ==
  LET n == NameOf(r) IN
  /\ at[r] = "acquired"
  /\ at' = [at EXCEPT ![r] = "node"]
  /\ IF tree[n] # "none" THEN UNCHANGED <<tree, branch>>
     ELSE /\ tree' = [tree EXCEPT ![n] = "clean"]
          /\ branch' = [branch EXCEPT ![n] = IF @ = "none" THEN "base" ELSE @]
  /\ UNCHANGED <<record, leased, remote, call>>

EnsureFails(r) ==
  /\ at[r] = "acquired"
  /\ SetRun(r, "failed", FALSE, "out")
  /\ UNCHANGED <<disk, call>>

Work(r) ==
  LET n == NameOf(r) IN
  /\ at[r] = "node" /\ tree[n] = "clean" /\ r \in Workers
  /\ tree' = [tree EXCEPT ![n] = "dirty"]
  /\ UNCHANGED <<runVars, branch, remote, call>>

CommitFiles(r) ==
  LET n == NameOf(r) IN
  /\ at[r] = "node" /\ tree[n] = "dirty"
  /\ tree' = [tree EXCEPT ![n] = "clean"]
  /\ branch' = [branch EXCEPT ![n] =
       IF @ = "forked" \/ (@ = "base" /\ n \in remote) THEN "forked" ELSE "ahead"]
  /\ UNCHANGED <<runVars, remote, call>>

(* `git push -u`, which makes the pushed branch the upstream of the local  *)
(* one.  GitHub refuses a branch that grew apart.                          *)
PushBranch(r) ==
  LET n == NameOf(r) IN
  /\ at[r] = "node" /\ tree[n] # "none" /\ branch[n] = "ahead"
  /\ branch' = [branch EXCEPT ![n] = "pushed"]
  /\ remote' = remote \cup {n}
  /\ UNCHANGED <<runVars, tree, call>>

(* The heartbeat after a node, or the pause in it, revives a lease that    *)
(* ran out; a process that paused ends.                                    *)
LeaveNode(r) ==
  /\ at[r] = "node"
  /\ \E place \in {"out", "dead"} : SetRun(r, "live", TRUE, place)
  /\ UNCHANGED <<disk, call>>

Finish(r) ==
  /\ at[r] = "node"
  /\ \E status \in {"complete", "failed"} : SetRun(r, status, FALSE, "out")
  /\ UNCHANGED <<disk, call>>

(* A dead process is out of the way when its lease has run out.            *)
Crash(r) ==
  /\ at[r] # "dead"
  /\ at' = [at EXCEPT ![r] = IF leased[r] THEN "dead" ELSE "out"]
  /\ UNCHANGED <<record, leased, disk, call>>

Expire(r) ==
  /\ leased[r]
  /\ leased' = [leased EXCEPT ![r] = FALSE]
  /\ at' = [at EXCEPT ![r] = IF @ = "dead" THEN "out" ELSE @]
  /\ UNCHANGED <<record, disk, call>>

(* `runs cleanup --delete-records`: of a run that ended.                   *)
Forget(r) ==
  /\ record[r] \in {"complete", "failed"}
  /\ record' = [record EXCEPT ![r] = "none"]
  /\ UNCHANGED <<leased, at, disk, call>>
-----------------------------------------------------------------------------
(* What the commands ask of git.  Without --force it keeps a worktree with *)
(* uncommitted files, and a branch that has commits its upstream, or       *)
(* without one the base, does not have.                                    *)
Removable(n, force) == tree[n] = "clean" \/ force
Deletable(n, force) == branch[n] \in {"base", "pushed"} \/ force

(* RunWorkspaceManager.remove: nothing to do where there is no directory.  *)
RemoveForced(n, force) ==
  /\ tree' = [tree EXCEPT ![n] = "none"]
  /\ UNCHANGED <<branch, remote>>
Remove(n, force) ==
  /\ tree[n] = "none" \/ Removable(n, force)
  /\ tree' = [tree EXCEPT ![n] = "none"]
  /\ UNCHANGED <<branch, remote>>

(* delete_branch, which wants the worktree gone first.                     *)
DeleteBranch(n, force) ==
  /\ tree[n] = "none"
  /\ branch[n] = "none" \/ Deletable(n, force)
  /\ branch' = [branch EXCEPT ![n] = "none"]
  /\ UNCHANGED <<tree, remote>>

(* delete_remote_branch looks at nothing.                                  *)
DeleteRemote(n) ==
  /\ remote' = remote \ {n}
  /\ UNCHANGED <<tree, branch>>

SetCall(c, new) == call' = [call EXCEPT ![c] = new]
Close(c) == SetCall(c, Idle)

(* `runs prune --apply`: list_runs marks the expired leases and reads the  *)
(* records; is_active reads the leases.                                    *)
Marked ==
  [r \in Run |-> IF record[r] = "live" /\ ~leased[r] THEN "abandoned" ELSE record[r]]
LiveIdsOnly(rec) == {<<Clean[r]>> : r \in {s \in Run : rec[s] = "live" \/ leased[s]}}
LiveNames(rec) == {NameOf(r) : r \in {s \in Run : rec[s] = "live" \/ leased[s]}}

Recover ==
  /\ record' = Marked
  /\ UNCHANGED <<leased, at, disk, call>>

BeginPrune(c) ==
  /\ call[c] = Idle
  /\ record' = Marked
  /\ \E flags \in Flags :
       SetCall(c, [Idle EXCEPT !.phase = "listing", !.flags = flags,
                     !.live = LiveNames(Marked)])
  /\ UNCHANGED <<leased, at, disk>>

(* Only then are worktrees and branches listed.                            *)
ListTargets(c) ==
  LET k == call[c] IN
  /\ k.phase = "listing"
  /\ SetCall(c, [k EXCEPT !.phase = "pruning", !.live = {},
       !.trees = {n \in Name : tree[n] # "none"} \ k.live,
       !.locals = {n \in Name : k.flags.branches /\ branch[n] # "none"} \ k.live,
       !.heads = {n \in remote : k.flags.remotes} \ k.live])
  /\ UNCHANGED <<runVars, disk>>

(* `runs remove`: of a run that ended, by force where it did not complete. *)
BeginRemove(c, r) ==
  /\ call[c] = Idle
  /\ record[r] \in {"complete", "failed"} /\ ~leased[r]
  /\ \E flags \in Flags :
       /\ record[r] = "failed" => flags.force
       /\ SetCall(c, [Idle EXCEPT !.phase = "removing", !.flags = flags,
            !.trees = {NameOf(r)},
            !.locals = {n \in {NameOf(r)} : flags.branches}])
  /\ UNCHANGED <<runVars, disk>>

(* One removal, done or refused or failed.  prune reports a failure and    *)
(* goes on, remove stops.                                                  *)
OneRemoval(c, done, rest) ==
  \/ done /\ SetCall(c, rest)
  \/ /\ UNCHANGED disk
     /\ IF call[c].phase = "removing" THEN Close(c) ELSE SetCall(c, rest)

RemoveTree(c, n) ==
  LET k == call[c] IN
  /\ n \in k.trees
  /\ OneRemoval(c, Remove(n, k.flags.force), [k EXCEPT !.trees = @ \ {n}])
  /\ UNCHANGED runVars

RemoveBranch(c, n) ==
  LET k == call[c] IN
  /\ k.trees = {} /\ n \in k.locals
  /\ OneRemoval(c, DeleteBranch(n, k.flags.force), [k EXCEPT !.locals = @ \ {n}])
  /\ UNCHANGED runVars

RemoveRemote(c, n) ==
  LET k == call[c] IN
  /\ k.trees = {} /\ k.locals = {} /\ n \in k.heads
  /\ OneRemoval(c, DeleteRemote(n), [k EXCEPT !.heads = @ \ {n}])
  /\ UNCHANGED runVars

EndCall(c) ==
  /\ call[c].phase \in {"pruning", "removing"}
  /\ call[c].trees \cup call[c].locals \cup call[c].heads = {}
  /\ Close(c)
  /\ UNCHANGED <<runVars, disk>>
-----------------------------------------------------------------------------
RunStep(r) ==
  \/ Acquire(r) \/ Ensure(r) \/ EnsureFails(r) \/ Work(r) \/ CommitFiles(r)
  \/ PushBranch(r) \/ LeaveNode(r) \/ Finish(r) \/ Crash(r) \/ Expire(r) \/ Forget(r)

CleanerStep(c) ==
  \/ BeginPrune(c) \/ ListTargets(c) \/ EndCall(c)
  \/ \E r \in Run : BeginRemove(c, r)
  \/ \E n \in Name : RemoveTree(c, n) \/ RemoveBranch(c, n) \/ RemoveRemote(c, n)

Observe ==
  steady' = [c \in Cleaner |->
    IF call'[c] = Idle THEN {}
    ELSE {r \in (IF call[c] = Idle THEN Run ELSE steady[c]) : record'[r] = "live"}]

Next ==
  /\ (\E r \in Run : RunStep(r)) \/ Recover \/ (\E c \in Cleaner : CleanerStep(c))
  /\ Observe

Spec == Init /\ [][Next]_vars
-----------------------------------------------------------------------------
Busy ==
  [phase : {"listing", "pruning", "removing"}, flags : Flags,
   live : SUBSET Name, trees : SUBSET Name, locals : SUBSET Name,
   heads : SUBSET Name]

(* Types; in them, that a call which is over has forgotten what it read.   *)
TypeOK ==
  /\ record \in [Run -> {"none", "live", "complete", "failed", "abandoned"}]
  /\ leased \in [Run -> BOOLEAN]
  /\ at \in [Run -> {"out", "acquired", "node", "dead"}]
  /\ tree \in [Name -> {"none", "clean", "dirty"}]
  /\ branch \in [Name -> {"none", "base", "ahead", "pushed", "forked"}]
  /\ remote \subseteq Name
  /\ call \in [Cleaner -> Busy \cup {Idle}]
  /\ steady \in [Cleaner -> SUBSET Run]

Acts(c) == call'[c] # call[c]

(* "Only ids belonging to a run this project still considers live are      *)
(* protected from removal": a command takes nothing from a run that has    *)
(* been live since the command began, whatever its id looks like and       *)
(* whatever is paused, resumed or removed in the meantime.  (A run resumed *)
(* after the command read the records is not protected.)                   *)
SteadyRunKeepsWork ==
  [][\A c \in Cleaner : Acts(c) => \A r \in steady[c] : LET n == NameOf(r) IN
       /\ tree[n] # "none" => tree'[n] # "none"
       /\ branch[n] # "none" => branch'[n] # "none"
       /\ n \in remote => n \in remote']_vars

(* What exists only in the worktree or only in the local branch is removed *)
(* by nothing but --force.                                                 *)
UnforcedKeepsLocalWork ==
  [][\A c \in Cleaner : Acts(c) /\ ~call[c].flags.force => \A n \in Name :
       /\ tree[n] = "dirty" => tree'[n] = "dirty"
       /\ branch[n] \in {"ahead", "forked"} => branch'[n] # "none"]_vars
=============================================================================

# Shanks: TLA+ models, checks and proofs

Shanks drives coding agents through a LangGraph workflow: it takes a list of
PRD items, has each one built, reviewed, validated, repaired and committed in a
worktree of its own, and hands the branch over as a pull request. A run is
checkpointed in SQLite after every node, can pause for a human at any approval,
and can be taken up by another process when the first one died.

The modules here model the parts in which order, failure and concurrency decide
whether that works. Source references are to files under `src/`.

## 1. Inventory

| Component | State | Operations | What makes it correct | Modelled |
|---|---|---|---|---|
| Run leases and records, `workflow/lifecycle.py` | tables `run_leases`, `run_records`; the open write transaction of a connection | `acquire`, `heartbeat`, `mark_interrupted`, `release`, `recover_stale`, `list_runs`, `cleanup` | at most one process holds an unexpired lease; the tables agree; a dead process loses its lease; takeovers are counted | `RunLifecycle`, `LeaseToken`, proofs |
| Graph and node wrapper, `graph.py`, `workflow/nodes.py` | the checkpointed `WorkflowState`, the next node | 18 nodes, 14 routers, the wrapper around each node, error handlers | nothing unchecked is committed, nothing incomplete is pushed, every run ends, a stopped run has no effect | `Workflow` |
| Invocations of the graph, `workflow/nodes.py`, `workflow/cli.py` | per process: the checkpoint it goes on from, the lease, the answers it was given | invoke, resume, pause, take over, reconcile, cancel | an answer is used for the question it was given to; a question is not lost; a cancelled run stays cancelled | `RunSession`, proofs |
| Checkpoint store, `VersionedSqliteSaver` in `graph.py` | tables `checkpoints`, `writes` | `get_tuple`, `list`, `put`, `put_writes`, `cleanup` | a resume reads what was saved last; retention keeps what a resume needs and takes the rest; a terminal checkpoint releases the lease | `CheckpointStore`, `LatestCheckpoint`, proofs; the release in `RunLifecycle` and `RunSession` |
| State schema, `workflow/state.py` | version of a state | eight migrations, `migrate_state` | states of any version keep what was set in them, and read alike from the saved row and in memory | `StateSchema`, used by `CheckpointStore`; proofs |
| Commit of an item, `GitHubAdapter` | worktree, index, branch, the baseline of dirty files | `policy_gate`, `commit_item` | nothing the gate refuses is committed; the whole item is | `ItemCommit`, proofs; as one bit in `Workflow` |
| Handoff, `GitHubAdapter` | remote branch, pull requests | `push_branch`, `open_pull_request` | one pull request, complete, and not before the work is pushed | `PullRequest`, proofs; one creation in `Workflow` |
| Run worktrees, `workflow/workspaces.py` | worktrees and branches on disk | `ensure`, `remove`, `delete_branch`, `delete_remote_branch` | a run that stays live loses neither worktree nor branch; what is only local is kept | `Workspaces`, proofs; failure of `ensure` in `Workflow` |
| Command line, `workflow/cli.py` | none of its own | `runs list, status, resume, cancel, recover, cleanup, remove, prune` | commands do not damage a live run | with the component each acts on |
| Failure classes and retries, `workflow/retries.py`, `workflow/contracts.py` | none | `classify_failure`, `retryable_failure`, `retry_delay` | only transient failures are retried | their outcome in `Workflow` |
| Agent adapters, `workflow/adapters.py` | a subprocess per call | run a builder, critic, validator, debugger | parsing of replies | their answers in `Workflow`, an agent that outlives its process in `ItemCommit` |
| Ralph loop, `scripts/ralph/ralph.sh` | metadata and PRD files | loop, archive, signals | a killed loop leaves files that can be read | not modelled (section 6) |
| Viewer, quality gates, hooks | none of a run | | | not modelled: no state of a run |

How they interact. A process builds the graph with one checkpointer, whose
`lifecycle_manager` shares its SQLite connection. Around every node the wrapper
(`_versioned_node`) takes or renews the lease, prepares the worktree, looks for
a reason to stop, compares a recovered run with its repository, runs the node,
renews the lease again and looks for a reason to stop again; LangGraph then asks
the router for the next node and calls `put`, which commits the checkpoint and,
for a terminal status, releases the lease and cleans up the thread. A question
to the operator ends the invocation; the answer starts another, usually in a
new process. Maintenance commands open the same file from other processes.

What is hard: two processes around the expiry of a lease; exceptions between an
SQL statement and its commit; scans that read first and write later; a process
killed between an effect (a commit, a push, a pull request) and its checkpoint;
replies that are lost; an invocation that goes on from a checkpoint another has
passed; answers that are matched to questions by position; a worktree that is
read three times; flags that survive from one attempt or item to the next; four
nested loops bounded by counters that other nodes reset; cancellation and
budgets that meet a failure at the end of the same node. The list with lines
and properties is `hazards` in `PROJECT.json`.

## 2. Modules

| Module | Role |
|---|---|
| `RunLifecycle` | leases, records, the processes that use them, time, crashes |
| `LeaseToken` | what leases promise: one token per run |
| `RunSession` | extends `RunLifecycle` with checkpoints, invocations, questions and answers, takeovers |
| `CheckpointStore` | the checkpoint tables: load, save, add writes, clean up |
| `LatestCheckpoint` | what the store promises: the last state saved and its writes |
| `StateSchema` | versions of a state and their migrations |
| `Workflow` | one run of the graph: nodes, routers, wrapper, delivery |
| `ItemCommit` | gate, approval and commit of an item, file by file |
| `PullRequest` | push, lookup, creation and reconciliation of the pull request |
| `Workspaces` | worktrees and branches of several runs, and the commands that remove them |
| `RunLifecycleProofs`, `RunSessionProofs`, `CheckpointStoreProofs`, `ItemCommitProofs`, `PullRequestProofs`, `WorkspacesProofs`, `WorkflowProofs` | TLAPS proofs |
| `LeastNumbers` | a lemma on natural numbers two of them share |
| `MC...` | instances for TLC |

`RunSession` is built from the actions of `RunLifecycle`: each of its actions
is one of those, conjoined with what happens to checkpoint and repository. The
other modules overlap only in what they take from each other as given, which
each section says.

### RunLifecycle

A process (`Owner`) is one `RunLifecycleManager`: each has a fresh `owner_id`,
so a restarted process is another owner. `pc[o]` says where it is: `idle`
between nodes, `node` after `acquire`, `put` after the heartbeat, `putFinal`
when the wrapper has given up, and the steps of a maintenance call. One action
stands for each call and exception path of the wrapper: `Acquire`,
`AcquireBusy`, `Heartbeat`, `HeartbeatLost`, `MarkInterrupted`,
`ReleaseUnprepared`, `PutOpen`, `PutTerminal`; `ScanStale`/`MarkStale` are the
read and the write of `recover_stale`, `SelectOld`/`DeleteOld` those of
`cleanup`, because other processes can run between them. A terminal checkpoint
from which the run goes on is put in the background (LangGraph's asynchronous
durability): `PutLater` lets the process go on, `PutPending` is the put and its
release, and `PutWrites` a write beside a checkpoint that waits for it.

Time is relative. A lease keeps the time left before `expires_at`, a record the
time since `updated_at`, so no clock has to be bounded; `Tick` lets one unit
pass. A maintenance call reads the clock once; the model lets no whole unit
pass inside one.

`writer` is the connection with an uncommitted write. SQLite allows one, and a
statement of another connection waits for it (in the code for the five seconds
of sqlite3's default timeout, after which it raises; the model waits). A failed
heartbeat and a failed release leave it set.

History variables: `granted`, the time left on the lease as its owner was last
told, and `sweptLive`, the runs that lost a live lease to `cleanup`. Nothing in
the program reads them; the safety properties except the tables' own agreement
are about them.

### RunSession

`head[r]` is the latest checkpoint of a run: the node to run next, whether a
commit is recorded, the cancellation request, `reconciled_recovery_count`, and
what LangGraph keeps beside a checkpoint: the pending question (`asked`), the
answers the node has already had (`given`), and the answer an invocation was
started with (`spare`). `session[o]` is the invocation a process is in. It goes
on from what it loaded and not from what is latest by now; `latest` says whose
checkpoint that is.

An invocation begins with `Invoke` or `Resume`, before any lease is asked for.
At each node it is refused (`Refused`: the busy lease, whose checkpoint
`run_locked` is put all the same), or enters; then `Stop`, `Pause` (the node
asks a question it has no answer to) or `Work` (it runs to its end), `Return`
(the heartbeat), `Save`. `CancelRun` is `runs cancel`, which writes a checkpoint
from a process of its own, `Die` a killed process, `LoseCommit` a branch that
somebody reset, which is what reconciliation looks for.

The nodes are the ones that ask, act outside or end the run; the others are
part of the node before them. What LangGraph does is external and written down
as the program relies on it: answers are matched to the questions of a node by
position when it is run again from its start; the answer of `Command(resume=)`
is written beside the checkpoint that was loaded; the checkpoint written last
is the latest, whoever wrote it; the next node gets no answers of the last one.

History: for each run whether it was taken over while its recorded commit was
gone and nobody has answered for that (`doubt`), whether its lease was released
(`recounted`, recoveries are then counted anew), whether it was cancelled while
nobody was on it (`stopped`), and whether a side effect happened in one of
these conditions or on an answer given elsewhere.

### CheckpointStore, LatestCheckpoint, StateSchema

`rows[t]` are the checkpoints of a thread with an id, a timestamp and the state,
`writes[t]` the checkpoints that have writes. A process is out, works on a
thread with LangGraph's channels in memory (`work[p].values`), or cleans up. A clean-up is what the code
makes of it: one thread after the other is listed (`ListThread`, newest by
timestamp first) and what was found too old is deleted later, in a transaction
of its own (`DeleteRemoved`); a row of a newer program raises in the middle
(`ListRaises`). A `put` of a finished state cleans up its own thread
(`SHANKS_CHECKPOINT_RETENTION`). Databases begin with a state of any version,
also of one this program does not know, and with any fields missing.

In `StateSchema` a state is its version and, for each field a migration brought,
whether it is missing, has its default or was set. `migrate_state` is one
migration after the other and then the defaults that are added whatever the
version. Where it is called makes a difference. `get_tuple` migrates the row it
reads, and the channels are filled from that. `put` migrates the row it saves
(`Saved`) and leaves the channels. The wrapper migrates a copy for the node and
returns a partial update with version 8 in it (`Updated`). A new run starts from
`{"task": ...}` (`Input`), so that its channels say version 8 after the first
node although nothing has given them the fields of version 2, and the rows saved
from then on lack them too: migrated to a state of version 8, they get the late
defaults and no others (`LeftMissing`). No property says that a state is
complete. The nodes tolerate it, since they ask for these fields with the
defaults of the migration (`nodes.py:642-668`, `754`, `802`, `1025-1035`, `1066`,
`1094`), as does `runs status` for `cancel_requested` (`cli.py:966`); the viewer
asks for the limits with 0 (`serve_graph.py:315-320`) and shows 0 where the limit
is 20 attempts or 100,000 tokens. What holds is that a node which is run again
from its row sees what it would have seen in the channels
(`RestartReadsTheSame`), gaps and all.

### Workflow

`state` is the part of `WorkflowState` that decides anything. A node is an
operator from a state and an answer to a state (`planning`, `building`, ...),
named as in the source; a router is an operator of the same name; the wrapper
is `Busy`, `WorkspaceFails`, `StopEarly`, and `Return`, which every node's
action uses: it may find the lease lost and the budget used up, overrides the
status in the order of the code, saves, and routes. `Raise` is an exception
that reached the error handler, `Crash` an effect whose result was lost before
the checkpoint, with the process or with a transient exception after which
LangGraph (`TARGETED_RETRY_POLICY`) runs the node again by itself, `Cancel` the
update `runs cancel` makes in the name of the last node, whose router is then
asked again.

The repository is `dirty` (the worktree has files a commit would take),
`checked` (which checks passed since it last changed), `commits` and `builds`
per item, `pushed`, `prs`. `checked`, `commits` and `builds` are history. One
bit is enough for the worktree here; the files are in `ItemCommit`.

Answers: every agent may succeed, fail transiently or fail for good, the critic
may refuse, a builder may finish without having built, the validator may fail
the tests, the operator may deny any approval. Around a node `Faults` says what
else may happen: `busy`, `workspace`, `lease`, `error`, `status` (git status
fails), `crash`, `cancel`, `budget` (the clock, the tokens or the cost).

### ItemCommit

`head` and `tree` say what each file holds in the last commit and in the
worktree, `renames` which renames the index has staged. `StatusFiles` is what
`_status_files` makes of `git status --short`: a rename is one line, of which
the name after the arrow is taken, so the deletion of the old name is not seen
(`Hidden`). `CandidateFiles` leaves out the baseline, which is the list of files
that were dirty in the checkout Shanks was started in, taken when the adapter
is built; `Approve` and `Restart` may be in another process with another one.

The builder writes, deletes and moves files; the gate reads the candidates and
passes, refuses, or passes without having seen anything when git status fails;
the approval takes any time; `ListFiles` reads the candidates again, and
`CommitFiles` the contents of those once more. In between the process may die,
an agent it had started may go on writing (an agent runs in a session of its
own and is not killed with Shanks), and the operator may edit.

`unseen` is history: the files the last pass of the gate says nothing about.

### PullRequest

`pulls` are the pull requests of the branch as GitHub has them, `commits` and
`remote` the commits of the branch and how many of them the remote has, `state`
the checkpoint with the next node and `pr_url`. A process pushes, looks up,
and goes on as `open_pull_request` and its helpers do: it creates, reports a
merged or closed one, reopens, or edits what differed when it was looked up.
Every command may fail before or after its effect, and `gh pr create` and
`gh pr edit` also with part of it. People open, edit, close, merge and reopen
pull requests at any time, and the thread may be run again with more commits.
What labels, reviewers and text are wanted is a set; a pull request has a part
of it. GitHub allows a branch one open pull request.

A process may overtake another in the handoff when the lease of that one has
run out (`raced`); what the overtaken one does to GitHub it does, but its
result is not saved (`RunSession` has what becomes of its checkpoint). It reads
`pr_url` in that one checkpoint too, where the program has it in a channel of
its own; no property depends on what it reads. How
often a failed node is tried again is left open: any failure retries or ends.
Whether a pull request counts as stale is any answer.

### Workspaces

Each run has a lifecycle record, a lease that has or has not run out, and a
process that is out of any node, about to `ensure` the worktree, in a node, or
dead. This is `RunLifecycle` seen from outside, with one process at a time per
run. On disk there is a directory (`tree`) and a local branch for each name,
and a remote branch; a name is what `_normalize_component` makes of the run id,
so two ids can come close to sharing one.

`runs prune` is what the code makes of it: `BeginPrune` marks stale leases and
reads the live runs, `ListTargets` later lists what is there, and `RemoveTree`,
`RemoveBranch`, `RemoveRemote` take one thing at a time, each done, refused by
git or failed. `runs remove` is `BeginRemove` and the same removals; a failure
ends it. `BeginRemove` reads record and lease in one step: a run that is taken
up between the two reads has an active lease at the second. The reports of a
dry run change nothing and are left out.

What git keeps without `--force` (uncommitted files, commits the upstream does
not have) is external and written down in `Removable` and `Deletable`. Nobody
merges a pull request in the model, so that every commit of a run is unmerged.

`steady` is history: the runs that have been live since a command began.

### Slips

An operator such as `BlockedTooShort`, defined just before `Blocked`, is the
same code with a plausible slip. Put in place of the real one it must break the
property `PROJECT.json` pairs it with. No specification uses it.

## 3. Runs

| Run | Instance | Shows |
|---|---|---|
| `lease_safety` | 3 symmetric processes that may all clean up, 1 run, TTL 1, 1 takeover counted | a grant is backed by the table, one live holder, tables agree, finished means released, live leases are kept, takeovers counted |
| `lease_token` | 2 processes, 1 run, TTL 2, 2 takeovers, no cleanup, fair | the leases implement `LeaseToken`; the write transaction is closed in the end; a dead owner's lease runs out |
| `session_safety` | 2 symmetric processes, 1 run, TTL 1, 1 takeover | answers are used where they were given, questions are kept, cancelled runs stay cancelled, a lost commit is asked about before anything is pushed; the sessions use the leases as `RunLifecycle` has them |
| `store_safety` | 2 processes, 1 thread, 3 checkpoints; `keep_latest` 2 by `put` and 1 by command, age 0 or none; databases of versions 1, 4, 8 (without a field of version 2) and of an unknown one | a resume reads what was saved last; retention keeps the newest, deletes the rest with its writes and nothing of an unfinished thread; migrations keep what was set, and row and channels read alike |
| `commit_safety` | 2 interchangeable files and a guarded one; each absent, old, new or a secret; git status may fail, operator and orphaned agent may write | nothing risky the gate was shown is committed; a commit leaves nothing of the item behind |
| `handoff_safety` | 2 processes, 2 pull requests, 2 commits, one label and the text | one pull request of the run, complete, and not before the work is pushed |
| `graph_safety` | 2 items, 2 attempts each, 3 in all; without a repository, in preview, on GitHub; busy, lease, error, crash, cancel, budget | the safety properties of the graph |
| `graph_ends` | 2 items on GitHub; lost leases, a worktree that fails once, failing git status; fair | every run ends; a commit holds a validated change |
| `workspace_safety` | 2 runs whose ids have the same safe characters, one of which changes files, 1 command at a time, with and without force | a run that stays live keeps its worktree and branches; what is only local is removed only by force |

Type invariants that section 4 proves are not repeated in the runs, except for
`RunSession`; `Workflow`'s is checked by `graph_safety`.

Runs that show a disagreement between the code and what it says of itself:

| Run | What happens |
|---|---|
| `session_cancel` | the request of `runs cancel` for a run with a live owner is overwritten by the owner's next checkpoint |
| `session_resume` | a run that waits for the operator is resumed while the lease of the process that paused is live: it ends `run_locked`, and the question is gone |
| `graph_stale_gate` | the gate's answer for the first item lets the second through when the gate node did not run |

Properties name their exceptions, and an exception is a place where the code
does less than its documentation may lead one to expect. `NothingRiskyIsCommitted`
excepts `unseen`, `HandoffIsComplete` what a person takes away meanwhile,
`NoDuplicate` a run that was overtaken in the handoff, `SteadyRunKeepsWork` a
run that becomes live during a command. Disagreements that were seen with these
models and have no run of their own:

- `cleanup` deletes the live lease of a run that was taken up between its SELECT
  and its DELETE (`lifecycle.py:363`); `OneLiveHolder` excepts it (`sweptLive`).
- `cleanup` first renews the age of every abandoned run that has a lease row,
  and so never deletes it (`lifecycle.py:352`).
- A pause recorded after the lease was lost leaves an `interrupted` record
  without a lease (`lifecycle.py:225`).
- `pr_stale`, `pr_merged`, `pr_closed` and `pr_reopened` end a run but are not
  among the terminal statuses (`lifecycle.py:13`), so its lease stays until it
  runs out, against `README.md:261`; `EndReleasesLease` excepts them.
- A failed `git status` reads as "no changes" (`adapters.py:1471`), at the gate
  as at the commit.
- The line git prints for a rename is read for its new name only
  (`adapters.py:1477`): the deletion of the old name is left out of the commit.
- The baseline of dirty files is taken when the adapter is built, so each
  resume has another (`adapters.py:598`, against the docstring at 783).
- An answer given to a pending approval after a takeover is taken for the answer
  to the question about the recovery, which the same node asks first
  (`nodes.py:445`).
- A thread that is run again keeps `pr_url`, so that neither its push nor its
  pull request is made (`nodes.py:1333`).
- A merged pull request of the branch counts as the handoff also of commits made
  since (`adapters.py:1253`; `README.md:529` reports it as complete).
- Of two PRD items with one id the second is never committed, because
  `planning` resets `commit_sha` only when the id changes (`nodes.py:1038`).
- `runs prune` without `--force` deletes a pushed, unmerged branch locally and
  then on the remote (`workspaces.py:271`, against the help at `cli.py:811`).
- A run that becomes live after `runs prune` read the records is taken for an
  orphan (`cli.py:1324`).

### Bounds

- Leases: three processes are one that lost the lease, one that took it over and
  one that scans. A second run only adds independent rows, except through
  `writer` and through scans of all runs; the proofs are for any number. With
  `TTL = 1` a lease is live or expired, with `TTL = 2`, in `lease_token`, also
  one unit from it. `MaxAge = 0` makes a record old after one unit.
  `MaxRecoveries` bounds a count that is otherwise unbounded.
- Sessions: two processes on one run are the one that has it and the one that
  cancels, resumes or takes over; either may have died and begun again.
- Store: with three checkpoints and a limit of two or one, a clean-up has
  something to delete and something to keep, and a process can save while
  another is between listing and deleting. `MaxTime = 1` gives two timestamps,
  so that rows share one and one may be too old.
- Commit: two plain files are one in the baseline and one not, or a rename's two
  names; the guarded one stands for every path the gate refuses.
- Handoff: two pull requests are the one a reply was lost for and the one that
  would be the duplicate. `gh pr list` is asked for twenty; the model does not
  reach that limit.
- Graph: with two items, `MaxAttempts = 2` and `MaxTotalAttempts = 3`, an item can
  exhaust its own attempts and the run its total in the middle of the second
  item. `MaxMishaps` bounds lost checkpoints and failed worktrees. Failed
  worktrees are otherwise unbounded: nothing routes on `preflight_failed`, so a
  persistent failure goes round between building and critic until the clock
  stops the run. `LearnBound` is how often the operator may ask to learn after
  failures: a lost lease resets the status of a failed learning but not its
  count, so that the count grows as long as the operator keeps asking.
- `Workers`: of the two runs in `workspace_safety` one changes files, commits and
  pushes; the other is started, paused and ended beside it. With the operator's
  flags for branches always set, each removal that is not wanted is one that
  fails. Ids are shorter than 80 characters, and no two differ only in the
  whitespace around them: longer ones are cut, and whitespace is stripped before
  it is asked whether the id changed (`workspaces.py:444`), so that such ids may
  share a name.

Processes, files and labels that play the same part are symmetric where no
liveness is checked.

### Fairness

`RunLifecycle!FairSpec`: time does not stop (`Tick`, strong, because a
maintenance call disables it for a moment; again and again nobody is in such a
call, which is short against the unit of time), nobody calls `runs cancel` for
ever, and each process that is not killed takes its next step (weak, per
process). A killed process owes nothing; the lease of a
dead owner runs out by `Tick` alone.

`Workflow!FairSpec`: some step of the graph is taken while one is possible
(weak, on `NodeStep`: LangGraph goes on by itself, the operator answers every
pause) and the operator does not ask to learn for ever (strong, on
`Intake("implement")`). Nothing is assumed of what agents answer. `graph_ends`
leaves cancellation and the budgets of time, tokens and cost out: they only cut
a run short, and a clock that ends every run would make the property empty.

## 4. Proofs

Every theorem holds for any values of the constants that satisfy the
assumption of its module (`ConstantsOK`, `StoreConstantsOK`, ...), in particular
for any number of processes, runs, threads, files and pull requests. The bounds
of section 3 are values of those constants.

### RunLifecycleProofs

| Theorem | Statement |
|---|---|
| `TypeCorrect` | `Spec => []TypeOK` |
| `LeaseInvariant` | `Spec => []LeaseInv`, the inductive invariant |
| `GrantsAreBacked`, `MutualExclusion` | `Spec => []GrantBacked`, `Spec => []OneLiveHolder` |
| `Refinement` | without cleanup, `Spec => LeasesAreTokens` |
| `TablesConsistent` | `Spec => [](TablesAgree /\ FinishedIsReleased)`; `LeaseAndRecordAgree` and `FinishedHasNoLease` are its halves |
| `LiveLeaseIsKept` | `Spec => LiveLeaseKept` |
| `RecoveriesAreCounted` | `Spec => RecoveryCountsTakeovers` |

`OneLiveHolder` compares two processes' own accounts of time and is not
inductive: nothing in it ties an account to the table. `GrantBacked` does: what
an owner still counts on equals the time left in the row that names it. It is
preserved because a row changes hands only when it has run out, in which case
the former owner's account has too; because heartbeat, pause and release change
a row only under its owner's name and set the account with it; because `Tick`
takes one unit from both; and because `cleanup`, the only step that deletes a
row behind its owner's back, records in `sweptLive` that it did. `LeaseInv` is
`GrantBacked` with the types. Two owners with time left are then both the owner
of one row. Refinement needs the same invariant: a grant happens only when the
row is not another's unexpired one, so nobody else is entitled.

`TablesAgree` and `FinishedIsReleased` are inductive together with the types
and need one step per action. The two action properties follow from the types,
one lemma per action.

### RunSessionProofs

| Theorem | Statement |
|---|---|
| `SessionTypes` | `SessionSpec => [](TypeOK /\ SessionTypeOK)` |
| `SessionsRefineLeases` | `SessionSpec => SessionsAreLeased`, which is `RunLifecycle!Spec` |
| `SessionsExclude` | `SessionSpec => []OneLiveHolder` |
| `AnswersAreUsedWhereGiven` | `SessionSpec => []EffectIsApproved` |
| `StoppedRunsStay` | `SessionSpec => []StoppedStays` |
| `QuestionsAreKept` | `SessionSpec => QuestionIsKept` |
| `LostCommitsAreReviewed` | `SessionSpec => []EffectIsReviewed` |

The refinement has one case per action of the session, each of which is an
action of `RunLifecycle` or leaves its variables alone; `SessionsExclude` is
then `MutualExclusion` and no proof of its own. For the answers, `AnswersInv`
says that those in a checkpoint, and those in what a session loaded, were given
at the node the checkpoint names; that what a session is about to save has no
answers left; and that a session whose checkpoint is the latest stands at the
node of the latest, so that what it writes beside it belongs there. A session
that was passed by another keeps its own answers and writes them nowhere.

For the other three, lemmas first say what each action does to checkpoints,
sessions and leases (`WorkIs`, `EnterIs`, `PauseIs`, `DieIs`, ...), and the
invariants are proved from those.

- `StoppedInv`: every checkpoint of a stopped run carries the request, be it the
  latest, one a session has loaded, or one that is about to be put or put late.
  The latest alone would not do: a process may go on from an older one.
- `QuestionInv`: questions are asked only at nodes that commit or act on a
  commit; a `failed` update comes from `failed_run` or from a process that lost
  its lease; a late put comes from a node that asks nothing or of a cancelled
  run; and a session whose checkpoint is the latest agrees with it. A checkpoint
  with a question is then replaced only by the node that asked. It needs
  `AnswersInv` and the leases (`LeasedInv`): that a process without time on its
  lease is the exception the property names is `GrantBacked`.
- `ReviewInv`: while the recoveries of a run are counted from its first lease,
  no checkpoint has reconciled more of them than there were, one with a commit in
  doubt has reconciled fewer, and only the holder of the lease has counted them
  all. So whoever holds the lease finds a recovery it has not reconciled, also
  from a checkpoint that is no longer the latest, and asks.

### CheckpointStoreProofs

| Theorem | Statement |
|---|---|
| `StoreInvariant` | `Spec => []StoreInv`, the inductive invariant |
| `ResumesReadLastPut` | `Spec => ResumesFromLastPut`, the refinement of `LatestCheckpoint` |
| `MigrationsAreSafe` | for every readable state: `migrate_state` keeps what was set, leaves missing what `LeftMissing` says, and is idempotent |
| `RestartsReadTheSame` | `Spec => []RestartReadsTheSame` |
| `TheNewestAreKept` | `Spec => NewestAreKept` |
| `TheLimitIsApplied` | `Spec => RetentionIsApplied` |
| `TheUnfinishedAreKept` | `Spec => UnfinishedIsKept` |
| `WritesGoWithTheirCheckpoint` | `Spec => WritesGoToo` |

A clean-up lists by timestamp and deletes later what it found, by id, so that
the latest row is safe only if the two orders agree. `StoreInv` says they do
(`InOrder`), and that what a clean-up has yet to delete was saved before the
last checkpoint (`SparesLast`), which stays true because rows are only added
after the last. The migrations are proved to advance a state one version each,
filling the fields of that version and touching no other (`Reached`), and then
composed; nothing is assumed of the fields a state of the database has. That a
migrated state is migrated for good makes the row a process saved, or loaded,
read as its channels do, which is the last part of `StoreInv` (`WorksOn`).

That a clean-up deletes what it should and no more is about two moments with
other processes between them. `SweepsInv` carries what the list established to
the deletion. Of each thread the rows found too old and still there
(`Condemned`) are all earlier than the others (`Spared`), of which there are at
least as many as were to be kept (`KeepsNewest`), and among those listed no more
(`KeepsNoMore`). A `put` only adds to the later ones. A deletion by another
clean-up may take some of them, but then, having been found too old by the same
order, everything earlier goes as well, and nothing is left to delete. Further,
a thread that ends finished while it waits to be listed is in the history
`ended`, because the first of the list, by timestamp, is the row saved last.
That the rows beyond the limit leave as many as the limit is counted from the
last of them, which exists by `LeastNumbers`.

### ItemCommitProofs

| Theorem | Statement |
|---|---|
| `CommitTypes` | `Spec => []TypeOK`; files are listed exactly while they are committed |
| `GateInvariant` | `Spec => []GateInv`, the inductive invariant |
| `RiskStaysOut` | `Spec => NothingRiskyIsCommitted` |
| `ItemIsWhole` | `Spec => WholeItemIsCommitted` |

Both properties speak of the commit; what makes them true is what the gate saw,
several steps and perhaps several processes before. `GateInv` carries it there:
past the gate a risky change is in a file of the baseline or in one the pass
says nothing about, and the files listed are all the changes but those.

### PullRequestProofs

| Theorem | Statement |
|---|---|
| `HandoffTypes` | `Spec => []TypeOK`; a reported pull request is one GitHub has, what is edited was found |
| `HandoffInvariant` | `Spec => []HandoffInv`, the inductive invariant |
| `OpensOnePullRequest` | `Spec => []NoDuplicate` |
| `NothingUnpushedIsHandedOver` | `Spec => HandoffHasTheWork` |
| `HandsOverComplete` | `Spec => HandoffIsComplete` |

`HandoffInv` adds to `NoDuplicate` that, while nobody was overtaken, nobody but
the owner is past the push (`OwnerIsAlone`), that `gh pr create` follows a
lookup that found none of the run's (`CreatesTheFirst`), that the owner stands
where the checkpoint says (`OwnerIsThere`), and that the checkpoint names
`pull_request_node` only with all commits on the remote (`WorkIsPushed`).

### WorkspacesProofs

| Theorem | Statement |
|---|---|
| `WorkspaceTypes` | `Spec => []TypeOK` |
| `WorkspaceInvariant` | `Spec => []WorkspaceInv`, the inductive invariant |
| `SteadyRunIsSpared` | `Spec => SteadyRunKeepsWork` |
| `UnforcedCommandsKeepWork` | `Spec => UnforcedKeepsLocalWork` |

The assumption on ids is that unchanged ones are their own names and that the
digest tells changed ones apart (neither cut nor stripped, see the bounds). The property is about a step; what makes it
true was read several steps before. `WorkspaceInv` carries it there: the names a
command has yet to list or remove are none of the names of its steady runs. For
`prune` that holds because a run that is live after the marking has a name
among the live ones and only leaves `steady` by ceasing to be live; for
`remove`, because the run it is about had ended, and no other run has its name.
Several commands may run at once: each spares the runs that were live since it
began. What `--force` guards needs the types only.

### WorkflowProofs

| Theorem | Statement | Where |
|---|---|---|
| `WorkflowTypes` | `Spec => []TypeOK` | |
| `StoppedRunsDoNothing` | `Spec => StoppedHasNoEffect` | |
| `RetriesAreDue` | `Spec => []RetryIsDue` | |
| `EndsReleaseLeases` | `Spec => []EndReleasesLease` | |
| `OnlyValidatedIsCommitted` | `Spec => CommitsAreValidated` | |
| `CancelledEnds` | `Spec => []CancelledEndsCancelled` | worktrees do not fail |
| `BuildsAreBounded` | `Spec => []BuildsBounded` | worktrees do not fail |
| `ItemsAreCommittedOnce` | `Spec => []CommittedOnce` | worktrees do not fail |
| `OnlyCheckedIsCommitted` | `Spec => CommitsAreChecked` | nor does `git status` |
| `PushesAreComplete` | `Spec => PushIsComplete` | and ids differ |
| `DeliveriesAreComplete` | `Spec => []DeliveredIsComplete` | and ids differ |

The first five hold whatever fails. The hypotheses of the others are
`"workspace" \notin Faults`, `"status" \notin Faults` and `IdOf[i] = IdOf[j] =>
i = j`, and they are the faults of run `graph_safety`, which checks the same
properties. They are needed: a worktree that cannot be prepared lets the routers
read flags of an earlier item (`graph_stale_gate` shows it), a `git status` that
fails is taken for a clean tree, and two items with one id are a hazard listed
without a property. Lost leases, busy runs, exceptions, a crash, cancellation
and the budgets of time, tokens and cost are in all of them.

The graph has too many nodes for a case split in every proof. The module says
once, node by node, what a step leaves (`Planned`, `Built`, `Reviewed`,
`Validated`, `Debugged`, `Gated`, `Committed`, `BranchPushed`,
`PullRequestOpened`, `Passed`) and what stops one (`Halted`, `WorkspaceFailed`,
`Crashed`, `TimeRanOut`, `Cancelled`); `StepCases` collects them, `RouteCases`
does the same for the routers, and everything after is proved from these.

The types and `CancelledEndsCancelled` are inductive, and `StoppedHasNoEffect`
follows from the types step by step. What each of the others needs:

- `RetryIsDue`: the retries of building are among the attempts of the item
  (`RetryCounted`), since the router asks for the attempts and the backoff for
  the retries.
- `EndReleasesLease`: `stop_run` is only reached for a reason to stop
  (`StopIsStopped`), and the reason does not go away.
- `CommitsAreValidated`: `ChecksInv`, that `validation_passed` goes with
  `critic_passed` and with files validated since the builder last ran, and which
  flags hold at the critic, at validation and after it. `CommitsAreChecked` adds
  what the gate has seen when the run stands at `commit_item` (`PolicyInv`).
- `BuildsBounded`, `CommittedOnce`, the deliveries: `ItemInv`, that the items
  before the current one are done, the current one is not until its validation,
  and nothing is handed over before all are. On top of it, that the attempts of
  the current item and the lost checkpoints cover its builds, and no later item
  has any (`BuildInv`); that an item is uncommitted until it is complete and at
  the gate (`CommitInv`); that files nobody committed belong to an item still in
  work and a sha to one that is done (`DirtyInv`); and that the push precedes
  the pull request, of which there is one at most (`HandoffInv`).

That `select_next_item` finds the first incomplete item needs a least number in
a non-empty set (`LeastNumbers`), which is proved from the library's well-founded
order on finite sets in place of an induction. TLC checked every one of these
invariants, on the instances of section 3, before it was proved.

### What stays with TLC

Liveness: `WriteLockIsFreed`, `OrphanExpires` and `RunEnds`. Fairness and ENABLED
are out of the prover's reach. And the violations. Every other property of a
run that passes is proved; those of the graph that assume that worktrees or
`git status` do not fail, or that ids differ, are proved for the instances of
`graph_safety` and larger ones alike, and not beyond these assumptions.

## 5. Plan

1. Done: `RunLifecycle`, `LeaseToken`, `RunSession`, `CheckpointStore`,
   `LatestCheckpoint`, `StateSchema`, `ItemCommit`, `PullRequest`, `Workspaces`,
   `Workflow`, with their proofs.
2. `Workspaces` composed with `RunLifecycle` in place of its outside view of
   leases and records.

## 6. Not modelled

- Ralph loop (`scripts/ralph/ralph.sh`): a sequential shell loop around one
  agent. `Workflow` has its outcome, `ItemCommit` what it writes. Its own hazard,
  a temporary file shared with the adapter that rewrites the PRD, needs two
  loops in one worktree, which the lease and the worktree of the run exclude.
- Viewer (`serve_graph.py`), quality gates and test index (`scripts/*.py`),
  hooks: development tools that keep no state of a run.
- `doctor`, `dev`, the reports of the command line, the previews of delivery and
  the checks of the installation: they read and print.
- Operator guidance and the manifest: records on which nothing decides.
- Command lines, prompts, parsing of replies, the wording by which a failure is
  classified: text; the models start at the class.
- The copying of hooks and skills into a new worktree.
- A clock that is set back: time only passes.
- A wait for SQLite's write lock that exceeds its timeout: the model waits. The
  exception it would raise is that of any failing statement.

External, and written down only as the program relies on it: how LangGraph
matches answers to questions and stores them beside a checkpoint, retries a
node and puts checkpoints in the background; SQLite's transactions; what git
refuses to remove without `--force` and how it prints a status; what `gh` and
GitHub do with pull requests.

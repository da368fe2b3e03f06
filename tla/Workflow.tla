------------------------------ MODULE Workflow ------------------------------
(***************************************************************************)
(* One run of the workflow graph (graph.py, workflow/nodes.py): the nodes, *)
(* the router after each node, the wrapper around every node, and what the *)
(* run does to its worktree, its branch and its pull request through       *)
(* GitHubAdapter (workflow/adapters.py).                                   *)
(*                                                                         *)
(* `state` is the checkpointed WorkflowState.  A node is a function of the *)
(* state and of what an agent, the repository or the operator answered;    *)
(* the wrapper checkpoints its result and the router picks the next node.  *)
(* A process that dies in a node leaves the effect of the node without its *)
(* checkpoint, and the node is run again.                                  *)
(*                                                                         *)
(* Items are numbered from 1.  A run with an empty PRD list is the run     *)
(* with the one default item that intake gives it.                         *)
(*                                                                         *)
(* A definition named after the one that follows it is a slip in that code *)
(* which the properties must notice; nothing else uses it.                 *)
(***************************************************************************)
EXTENDS Naturals, FiniteSets

CONSTANTS
  N,                 (* number of PRD items                                *)
  IdOf,              (* the id of each item                                *)
  NoItem,            (* current_item_id before the first plan              *)
  MaxAttempts,       (* max_attempts                                       *)
  MaxTotalAttempts,  (* max_total_attempts                                 *)
  Deliveries,        (* how the run may deliver                            *)
  Faults,            (* what may happen around a node                      *)
  MaxMishaps         (* bound on lost checkpoints and failed worktrees     *)

Item == 1..N

ASSUME WorkflowConstants ==
  /\ N \in Nat \ {0}
  /\ DOMAIN IdOf = Item
  /\ \A i \in Item : IdOf[i] # NoItem
  /\ MaxAttempts \in Nat \ {0}
  /\ MaxTotalAttempts \in Nat \ {0}
  /\ Deliveries \subseteq {"none", "dry_run", "github"}
  /\ Faults \subseteq {"busy", "workspace", "lease", "error", "status", "crash",
                       "cancel", "budget"}
  /\ MaxMishaps \in Nat

RetryableNodes ==
  {"preflight", "learning", "planning", "building", "critic_auditor",
   "validation", "debugger", "push_node", "pull_request_node"}
Node == RetryableNodes \cup
  {"intake", "pre_commit_policy_gate", "commit_item", "item_router",
   "retry_backoff", "attempt_limit", "failed_build", "failed_run", "stop_run"}
FailureClass == {"", "transient", "validation", "guardrail", "permanent"}
StopStatuses == {"cancelled", "budget_exceeded", "run_locked"}
TerminalRunStatuses ==
  {"complete", "pr_created", "pull_request_preview", "failed",
   "preflight_failed", "cancelled", "budget_exceeded",
   "attempt_limit_reached", "approval_denied"}
PullRequestStatuses ==
  {"pr_created", "pr_stale", "pr_merged", "pr_closed", "pr_reopened"}
Status == TerminalRunStatuses \cup StopStatuses \cup PullRequestStatuses \cup
  {"", "preflight_skipped", "preflight_passed", "intake_learn",
   "intake_implement", "learned", "learning_failed", "planned", "built",
   "build_approved_for_validation", "critic_audited", "validated",
   "validation_failed", "debugged", "policy_gate_passed",
   "policy_gate_skipped", "policy_gate_failed", "committed", "no_changes",
   "commit_skipped", "commit_preview", "next_item_ready",
   "github_handoff_ready", "branch_pushed", "branch_push_preview",
   "retry_scheduled", "retrying"}

VARIABLES
  pc,        (* the node that runs next, or "end"                          *)
  last,      (* the node that wrote the last checkpoint, "" before any     *)
  state,     (* the checkpointed WorkflowState                             *)
  spent,     (* the wall-clock, token or cost budget is used up            *)
  dirty,     (* the worktree has files a commit of the run would take: the *)
             (* builders name none, so git status decides, item by item    *)
  checked,   (* history: the checks passed since the worktree last changed *)
  commits,   (* history: commits made for each item                        *)
  builds,    (* history: builder runs for each item                        *)
  pushed,    (* the remote branch has been pushed to                       *)
  prs,       (* pull requests GitHub has for the branch                    *)
  mishaps,   (* checkpoints lost and worktrees failed so far               *)
  delivery   (* no repository, SHANKS_MODE=dry-run, or GitHub: fixed       *)

repository == <<dirty, checked, commits, builds, pushed, prs>>
control == <<pc, last, state>>
vars == <<control, spent, repository, mishaps, delivery>>

Init ==
  /\ pc = "preflight"
  /\ last = ""
  /\ state \in
       [status : {""}, failure_class : {""},
        workflow_mode : {"none", "implement"},
        prd_items : [Item -> {[passes |-> p, validation |-> p] : p \in BOOLEAN}],
        current_item_index : {1}, current_item_id : {NoItem},
        attempts_count : {0}, total_attempts : {0},
        critic_passed : {FALSE}, build_completed : {FALSE},
        validation_passed : {FALSE}, policy_gate_passed : {FALSE},
        commit_sha : {FALSE}, cancel_requested : {FALSE},
        retry_counts : {[n \in RetryableNodes |-> 0]}, retry_target : {""}]
  /\ spent = FALSE
  /\ dirty = FALSE
  /\ checked = {}
  /\ commits = [i \in Item |-> 0]
  /\ builds = [i \in Item |-> 0]
  /\ pushed = FALSE
  /\ prs = 0
  /\ mishaps = 0
  /\ delivery \in Deliveries
-----------------------------------------------------------------------------
(* select_next_item: the first item from the current index on that is not  *)
(* both built and validated.                                               *)
Incomplete(s, i) == ~(s.prd_items[i].passes /\ s.prd_items[i].validation)
HasNextItemAfter(s) == \E i \in s.current_item_index + 1..N : Incomplete(s, i)
HasNextItem(s) == \E i \in s.current_item_index..N : Incomplete(s, i)
NextItem(s) ==
  CHOOSE i \in s.current_item_index..N :
    /\ Incomplete(s, i)
    /\ \A j \in s.current_item_index..(i - 1) : ~Incomplete(s, j)

StopReasonLate(s, out) ==
  s.cancel_requested \/ out \/ s.total_attempts > MaxTotalAttempts
StopReason(s, out) ==
  s.cancel_requested \/ out \/ s.total_attempts >= MaxTotalAttempts
StopStatusBudgetFirst(s) ==
  IF s.total_attempts >= MaxTotalAttempts \/ ~s.cancel_requested
  THEN "budget_exceeded" ELSE "cancelled"
StopStatus(s) == IF s.cancel_requested THEN "cancelled" ELSE "budget_exceeded"
RunStopped(s, out) == s.status \in StopStatuses \/ StopReason(s, out)

Result(s, status, class) ==
  [s EXCEPT !.status = status, !.failure_class = class]

(* A failed attempt counts against its node; a transient one is scheduled  *)
(* again while the node, or for a build the item, has attempts left.       *)
CountRetryNever(s, n) == s
CountRetry(s, n) == [s EXCEPT !.retry_counts[n] = @ + 1]
RetryAvailableOnceMore(s, n) ==
  IF n = "building" THEN s.attempts_count <= MaxAttempts
  ELSE s.retry_counts[n] <= MaxAttempts
RetryAvailable(s, n) ==
  IF n = "building" THEN s.attempts_count < MaxAttempts
  ELSE s.retry_counts[n] < MaxAttempts
ApplyFailurePolicy(s, n) ==
  LET counted == CountRetry(s, n) IN
  IF s.failure_class = "" THEN s
  ELSE IF s.failure_class = "transient" /\ RetryAvailable(counted, n)
  THEN [counted EXCEPT !.status = "retry_scheduled", !.retry_target = n]
  ELSE counted
-----------------------------------------------------------------------------
(* The nodes.  `reply` is "ok" or the class of the failure answered.       *)
Class(reply) == IF reply = "ok" THEN "" ELSE reply
Answer(s, n, reply, good, bad) ==
  ApplyFailurePolicy(
    Result(s, IF reply = "ok" THEN good ELSE bad, Class(reply)), n)

preflight(s, reply) ==
  IF delivery = "none" THEN [s EXCEPT !.status = "preflight_skipped"]
  ELSE Answer(s, "preflight", reply, "preflight_passed", "preflight_failed")

intake(s, mode) ==
  IF s.workflow_mode # "none" THEN s
  ELSE [s EXCEPT !.workflow_mode = mode,
                 !.status = IF mode = "learn" THEN "intake_learn"
                            ELSE "intake_implement"]

learning(s, reply) ==
  Answer([s EXCEPT !.workflow_mode = "none"], "learning", reply,
         "learned", "learning_failed")

SameItemNever(s, i) == FALSE
SameItem(s, i) == s.current_item_id = IdOf[i]
planning(s, reply) ==
  LET i == NextItem(s)
      chosen == [s EXCEPT !.current_item_index = i, !.current_item_id = IdOf[i],
                          !.critic_passed = FALSE, !.validation_passed = FALSE]
      fresh == IF SameItem(s, i) THEN chosen
               ELSE [chosen EXCEPT !.attempts_count = 0,
                       !.build_completed = FALSE, !.commit_sha = FALSE,
                       !.retry_counts = [n \in RetryableNodes |-> 0],
                       !.retry_target = ""]
  IN
  IF ~HasNextItem(s) THEN [s EXCEPT !.status = "complete"]
  ELSE Answer(fresh, "planning", reply, "planned", "failed")

(* The builder is run only for an item that is not approved and has        *)
(* attempts left; an agent may finish without the item being built.        *)
Exhausted(s) == s.attempts_count >= MaxAttempts
NeedsBuild(s) == ~s.critic_passed /\ ~Exhausted(s)
MarkBuilt(s) ==
  [s EXCEPT !.prd_items[s.current_item_index] =
     [passes |-> TRUE, validation |-> FALSE]]
building(s, reply, item_built) ==
  LET attempt == [s EXCEPT !.attempts_count = @ + 1, !.total_attempts = @ + 1,
                           !.critic_passed = FALSE,
                           !.build_completed = reply = "ok"]
  IN
  IF s.critic_passed
  THEN [s EXCEPT !.status = "build_approved_for_validation",
                 !.build_completed = FALSE]
  ELSE IF Exhausted(s)
  THEN [s EXCEPT !.status = "attempt_limit_reached", !.build_completed = FALSE]
  ELSE Answer(IF reply = "ok" /\ item_built THEN MarkBuilt(attempt) ELSE attempt,
              "building", reply, "built", "failed")

critic_auditor(s, reply, approved) ==
  Answer([s EXCEPT !.critic_passed = reply = "ok" /\ approved],
         "critic_auditor", reply, "critic_audited", "failed")

(* A test run that failed has status validation_failed, whatever its class *)
(* is; a validator that failed itself has status failed.                   *)
MarkValidatedNever(s, passed) ==
  [s EXCEPT !.prd_items[s.current_item_index] =
     [passes |-> passed \/ @.passes, validation |-> FALSE]]
MarkValidated(s, passed) ==
  [s EXCEPT !.prd_items[s.current_item_index] =
     [passes |-> passed \/ @.passes, validation |-> passed]]
validation(s, reply) ==
  LET passed == reply = "ok" IN
  Answer(MarkValidated([s EXCEPT !.validation_passed = passed], passed), "validation",
         reply, "validated",
         IF reply = "permanent" THEN "failed" ELSE "validation_failed")

debugger(s, reply) ==
  Answer([s EXCEPT !.critic_passed = FALSE, !.validation_passed = FALSE],
         "debugger", reply, "debugged", "failed")

item_router(s) ==
  [s EXCEPT !.status = IF HasNextItem(s) THEN "next_item_ready"
                       ELSE "github_handoff_ready"]

(* The gate looks at the uncommitted files, unless the item is committed   *)
(* already or there is no repository.                                      *)
GateLooks(s) == ~s.commit_sha /\ delivery # "none"
pre_commit_policy_gate(s, passed) ==
  IF s.commit_sha
  THEN [s EXCEPT !.status = "policy_gate_passed", !.policy_gate_passed = TRUE]
  ELSE IF delivery = "none"
  THEN [s EXCEPT !.status = "policy_gate_skipped", !.policy_gate_passed = TRUE]
  ELSE [Result(s, IF passed THEN "policy_gate_passed" ELSE "policy_gate_failed",
               IF passed THEN "" ELSE "guardrail")
        EXCEPT !.policy_gate_passed = passed]

(* The nodes that only say how the run goes on or ends.                    *)
ClosingAsItIs(s, n) ==
  CASE n = "retry_backoff" -> [s EXCEPT !.status = "retrying"]
    [] n \in {"failed_build", "failed_run"} -> [s EXCEPT !.build_completed = FALSE]
    [] OTHER -> s
Closing(s, n) ==
  CASE n = "retry_backoff" -> [s EXCEPT !.status = "retrying"]
    [] n = "attempt_limit" -> [s EXCEPT !.status = "attempt_limit_reached"]
    [] n \in {"failed_build", "failed_run"} ->
         [s EXCEPT !.status = "failed", !.build_completed = FALSE]
    [] OTHER -> s
-----------------------------------------------------------------------------
(* The routers.                                                            *)
Backoff(s) == s.status = "retry_scheduled"
OrStop(s, out, next) == IF RunStopped(s, out) THEN "stop_run" ELSE next
OrRetry(s, out, next) ==
  OrStop(s, out, IF Backoff(s) THEN "retry_backoff" ELSE next)

route_after_preflight(s, out) ==
  IF Backoff(s) THEN "retry_backoff"
  ELSE IF RunStopped(s, out) \/ s.status = "preflight_failed" THEN "end"
  ELSE "intake"

route_after_planning(s, out) ==
  OrRetry(s, out, IF s.status = "failed" THEN "failed_run"
                  ELSE IF HasNextItem(s) THEN "building" ELSE "item_router")

route_after_building(s, out) ==
  OrRetry(s, out,
    IF s.status = "failed"
    THEN IF s.failure_class = "transient" /\ Exhausted(s) THEN "attempt_limit"
         ELSE "failed_build"
    ELSE IF s.critic_passed THEN "validation"
    ELSE IF ~s.build_completed /\ Exhausted(s) THEN "attempt_limit"
    ELSE "critic_auditor")

route_after_validation_unchecked(s, out) ==
  OrRetry(s, out, IF s.status = "failed" THEN "failed_run"
                  ELSE "pre_commit_policy_gate")
route_after_validation(s, out) ==
  OrRetry(s, out,
    IF s.validation_passed THEN "pre_commit_policy_gate"
    ELSE IF s.status = "failed" /\ s.failure_class # "validation"
    THEN "failed_run" ELSE "debugger")

route_after_policy_gate_unchecked(s, out) == OrStop(s, out, "commit_item")
route_after_policy_gate(s, out) ==
  OrStop(s, out, IF s.policy_gate_passed THEN "commit_item" ELSE "failed_run")

route_after_commit_failed(s, out) ==
  OrStop(s, out, IF s.status = "approval_denied" THEN "end" ELSE "item_router")
route_after_commit(s, out) ==
  OrStop(s, out,
    IF s.status \in {"committed", "no_changes", "commit_skipped", "commit_preview"}
    THEN "item_router" ELSE "end")

route_after_retry_backoff(s, out) ==
  OrStop(s, out, IF s.retry_target \in RetryableNodes THEN s.retry_target
                 ELSE "failed_run")

route_after_push(s) ==
  IF Backoff(s) THEN "retry_backoff"
  ELSE IF s.status \in {"branch_pushed", "branch_push_preview"}
  THEN "pull_request_node" ELSE "end"

Route(n, s, out) ==
  CASE n = "preflight" -> route_after_preflight(s, out)
    [] n = "intake" ->
         OrStop(s, out, IF s.workflow_mode = "learn" THEN "learning" ELSE "planning")
    [] n = "learning" ->
         OrRetry(s, out, IF s.status = "learning_failed" THEN "failed_run"
                         ELSE "intake")
    [] n = "planning" -> route_after_planning(s, out)
    [] n = "building" -> route_after_building(s, out)
    [] n = "critic_auditor" ->
         OrRetry(s, out, IF s.status = "failed" THEN "failed_run" ELSE "building")
    [] n = "validation" -> route_after_validation(s, out)
    [] n = "debugger" ->
         OrRetry(s, out, IF s.status = "failed" THEN "failed_run" ELSE "planning")
    [] n = "pre_commit_policy_gate" -> route_after_policy_gate(s, out)
    [] n = "commit_item" -> route_after_commit(s, out)
    [] n = "item_router" ->
         OrStop(s, out, IF HasNextItem(s) THEN "planning" ELSE "push_node")
    [] n = "push_node" -> route_after_push(s)
    [] n = "pull_request_node" -> IF Backoff(s) THEN "retry_backoff" ELSE "end"
    [] n = "retry_backoff" -> route_after_retry_backoff(s, out)
    [] OTHER -> "end"
-----------------------------------------------------------------------------
(* What a node does outside the checkpoint.                                *)
Unchanged == UNCHANGED repository

RunBuilder ==
  /\ builds' = [builds EXCEPT ![state.current_item_index] = @ + 1]
  /\ \/ UNCHANGED <<dirty, checked>>
     \/ dirty' = TRUE /\ checked' = {}
  /\ UNCHANGED <<commits, pushed, prs>>

PassCheck(check) ==
  /\ checked' = checked \cup {check}
  /\ UNCHANGED <<dirty, commits, builds, pushed, prs>>

CommitFiles ==
  /\ commits' = [commits EXCEPT ![state.current_item_index] = @ + 1]
  /\ dirty' = FALSE
  /\ UNCHANGED <<checked, builds, pushed, prs>>

PushBranch ==
  /\ pushed' = TRUE
  /\ UNCHANGED <<dirty, checked, commits, builds, prs>>

CreatePullRequest ==
  /\ prs' = prs + 1
  /\ UNCHANGED <<dirty, checked, commits, builds, pushed>>

Save(n, s, out) ==
  /\ state' = s
  /\ last' = n
  /\ pc' = Route(n, s, out)
  /\ UNCHANGED delivery

Checkpoint(n, s, out) == Save(n, s, out) /\ spent' = out /\ UNCHANGED mishaps

(* The wrapper before the node: another owner has the lease, the worktree  *)
(* cannot be prepared, or the run is cancelled or out of budget.           *)
Busy(n) ==
  /\ pc = n /\ "busy" \in Faults
  /\ Checkpoint(n, Result(state, "run_locked", "guardrail"), spent)
  /\ Unchanged

WorkspaceFails(n) ==
  /\ pc = n /\ "workspace" \in Faults
  /\ mishaps < MaxMishaps
  /\ mishaps' = mishaps + 1
  /\ Save(n, Result(state, "preflight_failed", "guardrail"), spent)
  /\ UNCHANGED spent
  /\ Unchanged

StopEarly(n) ==
  /\ pc = n /\ StopReason(state, spent)
  /\ Checkpoint(n, [state EXCEPT !.status = StopStatus(state)], spent)
  /\ Unchanged

(* The wrapper around the node: it is started only without a reason to     *)
(* stop, the lease may be lost and the budget used up while it runs.       *)
StartsAnyway(n) == pc = n
Starts(n) == pc = n /\ ~StopReason(state, spent)

Return(n, s) ==
  \E out \in {spent, spent \/ "budget" \in Faults},
     lost \in {FALSE, "lease" \in Faults} :
    LET kept == IF lost THEN Result(s, "failed", "guardrail") ELSE s
        final == IF StopReason(kept, out)
                 THEN [kept EXCEPT !.status = StopStatus(kept)] ELSE kept
    IN Checkpoint(n, final, out)
-----------------------------------------------------------------------------
AgentReply == {"ok", "transient", "permanent"}

Preflight ==
  /\ Starts("preflight")
  /\ \E reply \in AgentReply : Return("preflight", preflight(state, reply))
  /\ Unchanged

(* The operator may ask to learn again and again; the model stops offering *)
(* it when failed attempts that lost their lease have piled up.            *)
LearnBound == MaxAttempts
Intake(mode) ==
  /\ Starts("intake")
  /\ mode = "learn" => state.retry_counts["learning"] < LearnBound
  /\ Return("intake", intake(state, mode))
  /\ Unchanged

Learning ==
  /\ Starts("learning")
  /\ \E reply \in AgentReply : Return("learning", learning(state, reply))
  /\ Unchanged

Planning ==
  /\ Starts("planning")
  /\ \E reply \in AgentReply : Return("planning", planning(state, reply))
  /\ Unchanged

Building ==
  /\ Starts("building")
  /\ \E reply \in AgentReply, item_built \in BOOLEAN :
       Return("building", building(state, reply, item_built))
  /\ IF NeedsBuild(state) THEN RunBuilder ELSE Unchanged

CriticAuditor ==
  /\ Starts("critic_auditor")
  /\ \E reply \in AgentReply, approved \in BOOLEAN :
       Return("critic_auditor", critic_auditor(state, reply, approved))
  /\ Unchanged

Validation ==
  /\ Starts("validation")
  /\ \E reply \in AgentReply \cup {"validation"} :
       /\ Return("validation", validation(state, reply))
       /\ IF reply = "ok" THEN PassCheck("validation") ELSE Unchanged

Debugger ==
  /\ Starts("debugger")
  /\ \E reply \in AgentReply : Return("debugger", debugger(state, reply))
  /\ Unchanged

ItemRouter ==
  /\ Starts("item_router")
  /\ Return("item_router", item_router(state))
  /\ Unchanged

(* A failed `git status` reads as no files: the gate then passes without   *)
(* having looked at any.                                                   *)
PolicyGate ==
  /\ Starts("pre_commit_policy_gate")
  /\ \E passed \in BOOLEAN, seen \in {TRUE, "status" \notin Faults} :
       /\ ~seen => passed
       /\ Return("pre_commit_policy_gate", pre_commit_policy_gate(state, passed))
       /\ IF GateLooks(state) /\ passed /\ seen THEN PassCheck("policy")
          ELSE Unchanged

(* The item is committed already, nothing delivers it, the operator says   *)
(* no, or git shows no file to commit, which a failed `git status` also    *)
(* looks like.                                                             *)
NoCommit ==
  /\ Starts("commit_item")
  /\ \/ /\ state.commit_sha
        /\ Return("commit_item", [state EXCEPT !.status = "committed"])
     \/ /\ ~state.commit_sha /\ delivery = "none"
        /\ Return("commit_item", [state EXCEPT !.status = "commit_skipped"])
     \/ /\ ~state.commit_sha /\ delivery = "github"
        /\ Return("commit_item", [state EXCEPT !.status = "approval_denied"])
     \/ /\ ~state.commit_sha /\ delivery # "none"
        /\ ~dirty \/ "status" \in Faults
        /\ Return("commit_item", Result(state, "no_changes", ""))
  /\ Unchanged

(* The commit is previewed or attempted.  It may be refused, it may time   *)
(* out with its work done, and its sha may not be readable afterwards.     *)
Commits == delivery = "github" /\ ~state.commit_sha /\ dirty
CommitItem ==
  /\ Starts("commit_item")
  /\ \/ /\ ~state.commit_sha /\ delivery # "none" /\ dirty
        /\ \/ delivery = "dry_run"
              /\ Return("commit_item", Result(state, "commit_preview", ""))
           \/ \E class \in {"transient", "permanent"} :
                Return("commit_item", Result(state, "failed", class))
        /\ Unchanged
     \/ /\ Commits
        /\ \/ Return("commit_item", Result(state, "failed", "transient"))
           \/ \E sha \in BOOLEAN :
                Return("commit_item",
                  [Result(state, "committed", "") EXCEPT !.commit_sha = sha])
        /\ CommitFiles

(* push_node and pull_request_node: no repository, or approval denied.     *)
NoHandoff(n) ==
  /\ Starts(n)
  /\ Return(n, [state EXCEPT !.status =
                  IF delivery = "none" THEN "complete" ELSE "approval_denied"])
  /\ delivery # "dry_run"
  /\ Unchanged

Handoff(s, n, reply, good) == Answer(s, n, reply, good, "failed")

PushNode ==
  /\ Starts("push_node") /\ delivery # "none"
  /\ \E reply \in AgentReply :
       /\ Return("push_node", Handoff(state, "push_node", reply,
                  IF delivery = "github" THEN "branch_pushed"
                  ELSE "branch_push_preview"))
       /\ \/ reply # "permanent" /\ delivery = "github" /\ PushBranch
          \/ (reply # "ok" \/ delivery = "dry_run") /\ Unchanged

(* open_pull_request looks the branch up first and creates a pull request  *)
(* only where GitHub has none; one it finds it reconciles.                 *)
LooksUpNone == prs = 0
PullRequestNode ==
  /\ Starts("pull_request_node") /\ delivery # "none"
  /\ \E reply \in AgentReply, good \in PullRequestStatuses \cup {"pull_request_preview"} :
       /\ (good = "pull_request_preview") <=> (delivery = "dry_run")
       /\ Return("pull_request_node", Handoff(state, "pull_request_node", reply, good))
       /\ IF LooksUpNone /\ delivery = "github"
          THEN /\ good = "pr_created"
               /\ \/ reply # "permanent" /\ CreatePullRequest
                  \/ reply # "ok" /\ Unchanged
          ELSE Unchanged

ClosingNode(n) ==
  /\ Starts(n)
  /\ Return(n, Closing(state, n))
  /\ Unchanged
-----------------------------------------------------------------------------
(* The result of a node is lost, though it may have had its effect: with   *)
(* the process, and the node runs again from its last checkpoint; with a   *)
(* transient exception, such as a locked database, after which LangGraph   *)
(* runs the node again on the spot; or with an exception that is not, or   *)
(* no longer, retried, for which the error handler ends the run.  (A lost  *)
(* result without an effect changes nothing.)                              *)
Effect(n) ==
  \/ n = "building" /\ NeedsBuild(state) /\ RunBuilder
  \/ n = "commit_item" /\ Commits /\ CommitFiles
  \/ n = "push_node" /\ delivery = "github" /\ PushBranch
  \/ n = "pull_request_node" /\ delivery = "github" /\ LooksUpNone
     /\ CreatePullRequest

Crash(n) ==
  /\ Starts(n) /\ "crash" \in Faults
  /\ mishaps < MaxMishaps
  /\ mishaps' = mishaps + 1
  /\ Effect(n)
  /\ UNCHANGED <<control, spent, delivery>>

Raise(n) ==
  /\ pc = n /\ "error" \in Faults
  /\ n # "failed_run"
  /\ (Starts(n) /\ Effect(n)) \/ Unchanged
  /\ \E class \in {"transient", "permanent"} :
       state' = [Result(state, "failed", class) EXCEPT
                   !.build_completed = @ /\ n # "building"]
  /\ last' = n
  /\ pc' = IF n = "building" THEN "failed_build" ELSE "failed_run"
  /\ UNCHANGED <<spent, mishaps, delivery>>

(* `runs cancel` of a run that is paused, or whose process is dead: the    *)
(* update is made in the name of the last node, so its router is asked     *)
(* again.  (A live process does not read what is written beside it.)       *)
Cancel ==
  /\ pc # "end" /\ ~state.cancel_requested /\ "cancel" \in Faults
  /\ state' = [state EXCEPT !.cancel_requested = TRUE, !.status = "cancelled"]
  /\ pc' = IF last = "" THEN pc ELSE Route(last, state', spent)
  /\ UNCHANGED <<last, spent, repository, mishaps, delivery>>

(* The clock passes max_runtime_seconds.                                   *)
BudgetSpent ==
  /\ pc # "end" /\ ~spent /\ "budget" \in Faults
  /\ spent' = TRUE
  /\ UNCHANGED <<control, repository, mishaps, delivery>>

NodeStep ==
  \/ Preflight \/ Learning \/ Planning \/ Building \/ CriticAuditor
  \/ Validation \/ Debugger \/ ItemRouter \/ PolicyGate \/ NoCommit
  \/ CommitItem \/ PushNode \/ PullRequestNode
  \/ \E mode \in {"learn", "implement"} : Intake(mode)
  \/ \E n \in {"push_node", "pull_request_node"} : NoHandoff(n)
  \/ \E n \in {"retry_backoff", "attempt_limit", "failed_build", "failed_run",
                "stop_run"} : ClosingNode(n)
  \/ \E n \in Node : Busy(n) \/ WorkspaceFails(n) \/ StopEarly(n) \/ Raise(n)

Next == NodeStep \/ (\E n \in Node : Crash(n)) \/ Cancel \/ BudgetSpent

Spec == Init /\ [][Next]_vars

(* The graph goes on by itself until it pauses, the operator answers every *)
(* pause, and does not ask to learn the codebase for ever.  Nothing is     *)
(* assumed of the budgets: the wall clock would end every run.             *)
FairSpec == Spec /\ WF_vars(NodeStep) /\ SF_vars(Intake("implement"))
-----------------------------------------------------------------------------
State ==
  [status : Status, failure_class : FailureClass,
   workflow_mode : {"none", "learn", "implement"},
   prd_items : [Item -> [passes : BOOLEAN, validation : BOOLEAN]],
   current_item_index : Item,
   current_item_id : {NoItem} \cup {IdOf[i] : i \in Item},
   attempts_count : 0..MaxAttempts, total_attempts : 0..MaxTotalAttempts,
   critic_passed : BOOLEAN, build_completed : BOOLEAN,
   validation_passed : BOOLEAN, policy_gate_passed : BOOLEAN,
   commit_sha : BOOLEAN, cancel_requested : BOOLEAN,
   retry_counts : [RetryableNodes -> Nat],
   retry_target : RetryableNodes \cup {""}]

(* Types; in them, that builds never exceed the attempts the run allows,   *)
(* for an item and in total.                                               *)
TypeOK ==
  /\ pc \in Node \cup {"end"}
  /\ last \in Node \cup {""}
  /\ state \in State
  /\ spent \in BOOLEAN
  /\ dirty \in BOOLEAN
  /\ checked \subseteq {"validation", "policy"}
  /\ commits \in [Item -> Nat]
  /\ builds \in [Item -> Nat]
  /\ pushed \in BOOLEAN
  /\ prs \in Nat
  /\ mishaps \in 0..MaxMishaps
  /\ delivery \in Deliveries

(* "Only let a commit proceed once the policy gate reports a clean pass":  *)
(* a commit holds what validation and the gate passed since the builder    *)
(* last changed it, whatever was retried, resumed or left over from an     *)
(* earlier item.                                                           *)
CommitsAreChecked ==
  [][commits' # commits => checked = {"validation", "policy"}]_vars

(* A commit holds a validated change, even where worktrees fail.           *)
CommitsAreValidated == [][commits' # commits => "validation" \in checked]_vars

(* What is pushed is the whole list: every item built and validated, and   *)
(* no work of the run left out of the commits.                             *)
PushIsComplete ==
  [][pushed' # pushed =>
       ~dirty /\ \A i \in Item : ~Incomplete(state, i)]_vars

(* Commit creation is not retried: an item is committed once at most, even *)
(* when the checkpoint of its commit is lost.                              *)
CommittedOnce == \A i \in Item : commits[i] <= 1

(* The builder runs max_attempts times at most for an item, and one more   *)
(* for every checkpoint that was lost.                                     *)
BuildsBounded == \A i \in Item : builds[i] <= MaxAttempts + mishaps

(* A cancelled run, or one out of budget, has no further effect on the     *)
(* repository and runs no builder.                                         *)
StoppedHasNoEffect ==
  [][StopReason(state, spent) => UNCHANGED repository]_vars

(* A cancelled run ends cancelled, wherever it was and whatever failed at  *)
(* the same time, unless another process has the run.                      *)
CancelledEndsCancelled ==
  pc = "end" /\ state.cancel_requested =>
    state.status \in {"cancelled", "run_locked"}

(* A backoff always waits for a transient failure of a node that still has *)
(* attempts left, whatever failed and succeeded before it.                 *)
RetryIsDue ==
  pc = "retry_backoff" /\ state.status = "retry_scheduled" =>
    /\ state.failure_class = "transient"
    /\ state.retry_counts[state.retry_target] \in 1..(MaxAttempts - 1)

(* A run that ends as delivered has every item built and validated and, on *)
(* GitHub, all its work committed and pushed and one pull request open.    *)
DeliveredIsComplete ==
  pc = "end" /\ state.status \in PullRequestStatuses \cup
                  {"complete", "pull_request_preview"} =>
    /\ \A i \in Item : ~Incomplete(state, i)
    /\ delivery = "github" => ~dirty /\ pushed /\ prs = 1

(* Every run ends: no loop of retries, reviews, repairs and items goes on  *)
(* for ever.                                                               *)
RunEnds == <>(pc = "end")

(* "Terminal checkpoints release their lease": whatever ends a run, the     *)
(* status it ends with is one that does, unless another process has the    *)
(* run, or its pull request was found merged, closed, reopened or stale.   *)
EndReleasesLease ==
  pc = "end" =>
    state.status \in TerminalRunStatuses \cup PullRequestStatuses \cup {"run_locked"}
=============================================================================

--------------------------- MODULE WorkflowProofs ---------------------------
(***************************************************************************)
(* Proofs about the workflow graph, for any number of PRD items, any       *)
(* attempt, retry and pass limits and any bound on mishaps.                *)
(*                                                                         *)
(* The graph has too many nodes for a case split in every proof.  The      *)
(* module first says, node by node, what a step of it leaves (Planned,     *)
(* Built, Reviewed, Validated, Debugged, Gated, Committed, BranchPushed,   *)
(* PullRequestOpened, and Passed for the nodes that only route) and what   *)
(* stops one (Halted, WorkspaceFailed, Crashed, TimeRanOut, Cancelled).    *)
(* StepCases collects them, and the invariants after it are proved from    *)
(* those summaries.                                                        *)
(*                                                                         *)
(* A theorem with no hypothesis holds whatever fails.  Those that assume   *)
(* "workspace" or "status" not in Faults are about runs whose worktrees    *)
(* can be prepared and whose `git status` answers.                         *)
(***************************************************************************)
EXTENDS Workflow, LeastNumbers, TLAPS
-----------------------------------------------------------------------------
(* Fields of a state, for the provers.                                     *)
LEMMA StateFields ==
  ASSUME NEW s \in State
  PROVE  /\ s.status \in Status /\ s.failure_class \in FailureClass
         /\ s.workflow_mode \in {"none", "learn", "implement"}
         /\ s.prd_items \in [Item -> [passes : BOOLEAN, validation : BOOLEAN]]
         /\ s.current_item_index \in Item
         /\ s.current_item_id \in {NoItem} \cup {IdOf[i] : i \in Item}
         /\ s.attempts_count \in 0..MaxAttempts
         /\ s.total_attempts \in 0..MaxTotalAttempts
         /\ s.critic_passed \in BOOLEAN /\ s.build_completed \in BOOLEAN
         /\ s.validation_passed \in BOOLEAN /\ s.policy_gate_passed \in BOOLEAN
         /\ s.commit_sha \in BOOLEAN /\ s.cancel_requested \in BOOLEAN
         /\ s.retry_counts \in [RetryableNodes -> Nat]
         /\ s.retry_target \in RetryableNodes \cup {""}
  BY DEF State

(* t is s, but for its status, failure class and retries.                  *)
SameRun(t, s) ==
  /\ t.workflow_mode = s.workflow_mode /\ t.prd_items = s.prd_items
  /\ t.current_item_index = s.current_item_index
  /\ t.current_item_id = s.current_item_id
  /\ t.attempts_count = s.attempts_count /\ t.total_attempts = s.total_attempts
  /\ t.critic_passed = s.critic_passed /\ t.build_completed = s.build_completed
  /\ t.validation_passed = s.validation_passed
  /\ t.policy_gate_passed = s.policy_gate_passed
  /\ t.commit_sha = s.commit_sha /\ t.cancel_requested = s.cancel_requested

(* t is s, but for its status and failure class.                           *)
Rewritten(t, s) ==
  /\ SameRun(t, s)
  /\ t.retry_counts = s.retry_counts /\ t.retry_target = s.retry_target

(* A state whose status is rewritten is a state, and the rest of it is     *)
(* kept.                                                                   *)
LEMMA StatusChange ==
  ASSUME NEW s \in State, NEW status \in Status,
         NEW t, t = [s EXCEPT !.status = status]
  PROVE  /\ t \in State /\ Rewritten(t, s)
         /\ t.status = status /\ t.failure_class = s.failure_class
  BY DEF State, Rewritten, SameRun

(* So is the state a failing node makes of the one it had.                 *)
LEMMA ResultState ==
  ASSUME NEW s \in State, NEW status \in Status, NEW class \in FailureClass,
         NEW t, t = Result(s, status, class)
  PROVE  /\ t \in State /\ Rewritten(t, s)
         /\ t.status = status /\ t.failure_class = class
  BY DEF State, Rewritten, SameRun, Result

(* A node that returns s: the status may become that of a lost lease, or   *)
(* of a run that stops, and the router decides on what is saved.           *)
Finish(n, s) ==
  /\ state' \in State /\ Rewritten(state', s)
  /\ last' = n /\ pc' = Route(n, state', spent')
  /\ spent' \in BOOLEAN /\ (spent => spent')
  /\ UNCHANGED <<mishaps, delivery>>
  /\ IF StopReason(state', spent') THEN state'.status = StopStatus(state')
     ELSE \/ state'.status = s.status /\ state'.failure_class = s.failure_class
          \/ state'.status = "failed" /\ state'.failure_class = "guardrail"

(* Returning from a node is finishing it, without the wrapper's two        *)
(* choices.                                                                *)
LEMMA ReturnFinishes ==
  ASSUME TypeOK, NEW n, NEW s \in State, Return(n, s)
  PROVE  Finish(n, s)
<1>1. PICK out \in {spent, spent \/ "budget" \in Faults},
           lost \in {FALSE, "lease" \in Faults} :
        LET kept == IF lost THEN Result(s, "failed", "guardrail") ELSE s
            final == IF StopReason(kept, out)
                     THEN [kept EXCEPT !.status = StopStatus(kept)] ELSE kept
        IN  Checkpoint(n, final, out)
  BY DEF Return
<1> DEFINE kept == IF lost THEN Result(s, "failed", "guardrail") ELSE s
           final == IF StopReason(kept, out)
                    THEN [kept EXCEPT !.status = StopStatus(kept)] ELSE kept
<1>2. /\ kept \in State /\ Rewritten(kept, s)
      /\ \/ kept.status = s.status /\ kept.failure_class = s.failure_class
         \/ kept.status = "failed" /\ kept.failure_class = "guardrail"
  <2>1. CASE lost
    <3>1. "failed" \in Status /\ "guardrail" \in FailureClass
      BY DEF Status, TerminalRunStatuses, FailureClass
    <3>2. kept = Result(s, "failed", "guardrail")
      BY <2>1
    <3> HIDE DEF kept
    <3> QED BY <3>1, <3>2, ResultState
  <2>2. CASE ~lost
    BY <2>2 DEF Rewritten, SameRun
  <2> QED BY <2>1, <2>2
<1> HIDE DEF kept
<1>3. StopStatus(kept) \in Status
  BY DEF StopStatus, Status, StopStatuses
<1>4. /\ final \in State /\ Rewritten(final, kept)
      /\ final.failure_class = kept.failure_class
      /\ final.status = IF StopReason(kept, out) THEN StopStatus(kept)
                        ELSE kept.status
  <2>1. CASE StopReason(kept, out)
    BY <1>2, <1>3, <2>1, StatusChange
  <2>2. CASE ~StopReason(kept, out)
    BY <1>2, <2>2 DEF Rewritten, SameRun
  <2> QED BY <2>1, <2>2
<1>5. /\ state' = final /\ last' = n /\ pc' = Route(n, final, out)
      /\ spent' = out /\ UNCHANGED <<mishaps, delivery>>
  BY <1>1 DEF Checkpoint, Save, kept
<1> HIDE DEF final
<1>6. StopReason(final, out) <=> StopReason(kept, out)
  BY <1>4 DEF StopReason, Rewritten, SameRun
<1>7. StopStatus(final) = StopStatus(kept)
  BY <1>4 DEF StopStatus, Rewritten, SameRun
<1>8. Rewritten(final, s)
  BY <1>2, <1>4 DEF Rewritten, SameRun
<1>9. out \in BOOLEAN /\ (spent => out)
  BY DEF TypeOK
<1> QED BY <1>2, <1>4, <1>5, <1>6, <1>7, <1>8, <1>9 DEF Finish

(* The router of each node.                                                *)
LEMMA RouteOf ==
  ASSUME NEW s, NEW out
  PROVE  /\ Route("preflight", s, out) = route_after_preflight(s, out)
         /\ Route("intake", s, out) =
              OrStop(s, out, IF s.workflow_mode = "learn" THEN "learning" ELSE "planning")
         /\ Route("learning", s, out) =
              OrRetry(s, out, IF s.status = "learning_failed" THEN "failed_run"
                              ELSE "intake")
         /\ Route("planning", s, out) = route_after_planning(s, out)
         /\ Route("building", s, out) = route_after_building(s, out)
         /\ Route("critic_auditor", s, out) =
              OrRetry(s, out, IF s.status = "failed" THEN "failed_run" ELSE "building")
         /\ Route("validation", s, out) = route_after_validation(s, out)
         /\ Route("debugger", s, out) =
              OrRetry(s, out, IF s.status = "failed" THEN "failed_run" ELSE "planning")
         /\ Route("pre_commit_policy_gate", s, out) = route_after_policy_gate(s, out)
         /\ Route("commit_item", s, out) = route_after_commit(s, out)
         /\ Route("item_router", s, out) =
              OrStop(s, out, IF HasNextItem(s) THEN "planning" ELSE "push_node")
         /\ Route("push_node", s, out) = route_after_push(s)
         /\ Route("pull_request_node", s, out) =
              (IF Backoff(s) THEN "retry_backoff" ELSE "end")
         /\ Route("retry_backoff", s, out) = route_after_retry_backoff(s, out)
         /\ \A n \in {"attempt_limit", "failed_build", "failed_run", "stop_run"} :
              Route(n, s, out) = "end"
  BY DEF Route
-----------------------------------------------------------------------------
(* What select_next_item finds.                                            *)
LEMMA NextItemIs ==
  ASSUME NEW s \in State, HasNextItem(s)
  PROVE  LET i == NextItem(s)
         IN  /\ i \in Item /\ i >= s.current_item_index /\ Incomplete(s, i)
             /\ \A j \in s.current_item_index..(i - 1) : ~Incomplete(s, j)
<1> DEFINE first == s.current_item_index
           left == {i \in first..N : Incomplete(s, i)}
<1>1. first \in Item /\ left \in SUBSET Nat /\ left # {}
  <2>1. first \in Item
    BY StateFields
  <2>2. \E i \in first..N : Incomplete(s, i)
    BY DEF HasNextItem
  <2> QED BY <2>1, <2>2, WorkflowConstants DEF Item
<1>2. PICK m \in left : \A k \in left : ~(k < m)
  <2> HIDE DEF left
  <2> QED BY <1>1, LeastNumber
<1>3. /\ m \in first..N /\ Incomplete(s, m)
      /\ \A j \in first..(m - 1) : ~Incomplete(s, j)
  <2>1. \A j \in first..(m - 1) : j \in first..N /\ j < m
    BY <1>1, <1>2, WorkflowConstants DEF Item
  <2> QED BY <1>2, <2>1
<1>4. /\ NextItem(s) \in first..N /\ Incomplete(s, NextItem(s))
      /\ \A j \in first..(NextItem(s) - 1) : ~Incomplete(s, j)
  <2> HIDE DEF first, left
  <2> QED BY <1>3 DEF NextItem, first
<1>5. \A i \in first..N : i \in Item /\ i >= first
  BY <1>1, WorkflowConstants DEF Item
<1> QED BY <1>4, <1>5

(* t is what an agent's node makes of s.                                   *)
Answered(t, s, n, reply, good, bad) ==
  /\ t \in State /\ SameRun(t, s)
  /\ IF reply = "ok"
     THEN /\ t.status = good /\ t.failure_class = ""
          /\ t.retry_counts = s.retry_counts /\ t.retry_target = s.retry_target
     ELSE /\ t.failure_class = reply
          /\ t.retry_counts = [s.retry_counts EXCEPT ![n] = @ + 1]
          /\ \/ t.status = bad /\ t.retry_target = s.retry_target
             \/ /\ t.status = "retry_scheduled" /\ t.retry_target = n
                /\ reply = "transient" /\ RetryAvailable(t, n)

(* What counting a retry changes.                                          *)
LEMMA CountRetryIs ==
  ASSUME NEW s \in State, NEW n \in RetryableNodes,
         NEW t, t = CountRetry(s, n)
  PROVE  /\ t \in State /\ SameRun(t, s)
         /\ t.status = s.status /\ t.failure_class = s.failure_class
         /\ t.retry_counts = [s.retry_counts EXCEPT ![n] = @ + 1]
         /\ t.retry_target = s.retry_target
<1> DEFINE counts == [s.retry_counts EXCEPT ![n] = @ + 1]
<1>1. counts \in [RetryableNodes -> Nat]
  <2>1. s.retry_counts \in [RetryableNodes -> Nat]
    BY StateFields
  <2> QED BY <2>1
<1>2. t = [s EXCEPT !.retry_counts = counts]
  BY DEF CountRetry
<1> HIDE DEF counts
<1>3. /\ t \in State /\ SameRun(t, s)
      /\ t.status = s.status /\ t.failure_class = s.failure_class
      /\ t.retry_counts = counts /\ t.retry_target = s.retry_target
  BY <1>1, <1>2 DEF State, SameRun
<1> QED BY <1>2, <1>3 DEF counts

(* What a node makes of an agent's reply: the good status, the bad one, a  *)
(* backoff, or the failure a stopped agent is.                             *)
LEMMA AnswerIs ==
  ASSUME NEW s \in State, NEW n \in RetryableNodes,
         NEW reply \in AgentReply \cup {"validation"},
         NEW good \in Status, NEW bad \in Status
  PROVE  Answered(Answer(s, n, reply, good, bad), s, n, reply, good, bad)
<1> DEFINE class == Class(reply)
           status == IF reply = "ok" THEN good ELSE bad
           result == Result(s, status, class)
           counted == CountRetry(result, n)
           t == Answer(s, n, reply, good, bad)
<1>1. /\ class \in FailureClass
      /\ class = "" <=> reply = "ok"
      /\ reply # "ok" => class = reply
  BY DEF Class, FailureClass, AgentReply
<1>2. status \in Status
  OBVIOUS
<1>3. t = ApplyFailurePolicy(result, n)
  BY DEF Answer
<1>4. /\ result \in State /\ Rewritten(result, s)
      /\ result.status = status /\ result.failure_class = class
  <2>1. result = Result(s, status, class)
    OBVIOUS
  <2> HIDE DEF class, status, result
  <2>2. class \in FailureClass
    BY <1>1
  <2> QED BY ONLY <1>2, <2>1, <2>2, ResultState, s \in State
<1> HIDE DEF class, result
<1>5. CASE reply = "ok"
  <2>1. t = result
    BY <1>1, <1>3, <1>4, <1>5 DEF ApplyFailurePolicy
  <2> QED BY <1>1, <1>4, <1>5, <2>1 DEF Answered, Rewritten
<1>6. CASE reply # "ok"
  <2>1. /\ counted \in State /\ SameRun(counted, s)
        /\ counted.status = bad /\ counted.failure_class = reply
        /\ counted.retry_counts = [s.retry_counts EXCEPT ![n] = @ + 1]
        /\ counted.retry_target = s.retry_target
    <3>1. /\ counted \in State /\ SameRun(counted, result)
          /\ counted.status = result.status
          /\ counted.failure_class = result.failure_class
          /\ counted.retry_counts = [result.retry_counts EXCEPT ![n] = @ + 1]
          /\ counted.retry_target = result.retry_target
      BY <1>4, CountRetryIs
    <3> HIDE DEF counted
    <3> QED BY <1>1, <1>4, <1>6, <3>1 DEF Rewritten, SameRun
  <2>2. CASE class = "transient" /\ RetryAvailable(counted, n)
    <3>1. t = [counted EXCEPT !.status = "retry_scheduled", !.retry_target = n]
      BY <1>1, <1>3, <1>4, <1>6, <2>2 DEF ApplyFailurePolicy
    <3>0. "retry_scheduled" \in Status
      BY DEF Status
    <3> HIDE DEF t, counted
    <3>2. /\ t \in State /\ SameRun(t, counted)
          /\ t.status = "retry_scheduled" /\ t.failure_class = counted.failure_class
          /\ t.retry_counts = counted.retry_counts /\ t.retry_target = n
      BY <2>1, <3>1, <3>0 DEF State, SameRun
    <3>3. RetryAvailable(t, n)
      BY <2>2, <3>2 DEF RetryAvailable, SameRun
    <3>4. SameRun(t, s)
      BY <2>1, <3>2 DEF SameRun
    <3>5. reply = "transient"
      BY <1>1, <1>6, <2>2
    <3>6. Answered(t, s, n, reply, good, bad)
      BY <1>6, <2>1, <3>2, <3>3, <3>4, <3>5 DEF Answered
    <3> QED BY <3>6 DEF t
  <2>3. CASE ~(class = "transient" /\ RetryAvailable(counted, n))
    <3>1. t = counted
      BY <1>1, <1>3, <1>4, <1>6, <2>3 DEF ApplyFailurePolicy
    <3> HIDE DEF t, counted
    <3>2. Answered(t, s, n, reply, good, bad)
      BY <1>6, <2>1, <3>1 DEF Answered
    <3> QED BY <3>2 DEF t
  <2> QED BY <2>2, <2>3
<1> QED BY <1>5, <1>6
-----------------------------------------------------------------------------
(* The retry that is due after this step, if the router asks for one.      *)
Scheduled(n) ==
  /\ state'.status = "retry_scheduled" /\ state'.failure_class = "transient"
  /\ state'.retry_target = n /\ state'.retry_counts[n] >= 1
  /\ RetryAvailable(state', n)

StopReported == state'.status \in {"cancelled", "budget_exceeded"}

(* A run stopped when a node finished says so in its status.               *)
LEMMA StopIsReported ==
  ASSUME NEW s, NEW n, Finish(n, s), StopReason(state', spent')
  PROVE  StopReported
  BY DEF Finish, StopStatus, StopReported

(* A stopped run goes to stop_run, or to the end.                          *)
LEMMA StoppedRoute ==
  ASSUME NEW n \in Node, NEW s, NEW out, s.status \in StopStatuses
  PROVE  Route(n, s, out) \in {"stop_run", "end"}
  BY RouteOf
  DEF Node, RetryableNodes, StopStatuses, OrStop, OrRetry, Backoff, RunStopped,
      route_after_preflight, route_after_planning, route_after_building,
      route_after_validation, route_after_policy_gate, route_after_commit,
      route_after_retry_backoff, route_after_push

(* What follows an agent's node, but for where it goes.                    *)
AgentFinished(n, s, reply, good, bad) ==
  /\ state' \in State /\ SameRun(state', s)
  /\ \A m \in RetryableNodes \ {n} : state'.retry_counts[m] = s.retry_counts[m]
  /\ state'.retry_counts[n] \in {s.retry_counts[n], s.retry_counts[n] + 1}
  /\ state'.retry_target \in {s.retry_target, n}
  /\ Backoff(state') => Scheduled(n)
  /\ \/ StopReported
     \/ /\ ~StopReason(state', spent')
        /\ \/ state'.status = "failed" /\ state'.failure_class = "guardrail"
           \/ reply = "ok" /\ state'.status = good
           \/ reply # "ok" /\ state'.failure_class = reply
              /\ state'.status \in {bad, "retry_scheduled"}
  /\ StopReason(state', spent') => state'.status = StopStatus(state')
  /\ last' = n /\ pc' = Route(n, state', spent')
  /\ spent' \in BOOLEAN /\ (spent => spent') /\ UNCHANGED <<mishaps, delivery>>

(* A node that asks an agent finishes with what it made of the reply.      *)
LEMMA AgentFinishes ==
  ASSUME NEW s \in State, NEW n \in RetryableNodes,
         NEW reply \in AgentReply \cup {"validation"},
         NEW good \in Status \ {"retry_scheduled"},
         NEW bad \in Status \ {"retry_scheduled"},
         Finish(n, Answer(s, n, reply, good, bad))
  PROVE  AgentFinished(n, s, reply, good, bad)
<1> DEFINE t == Answer(s, n, reply, good, bad)
<1>1. Answered(t, s, n, reply, good, bad)
  BY AnswerIs
<1>2. Finish(n, t)
  OBVIOUS
<1> HIDE DEF t
<1>3. s.retry_counts \in [RetryableNodes -> Nat]
  BY StateFields
<1>4. SameRun(state', s)
  BY <1>1, <1>2 DEF Answered, Finish, Rewritten, SameRun
<1>5. \/ t.retry_counts = s.retry_counts
      \/ t.retry_counts = [s.retry_counts EXCEPT ![n] = @ + 1]
  BY <1>1 DEF Answered
<1>6. /\ \A m \in RetryableNodes \ {n} : t.retry_counts[m] = s.retry_counts[m]
      /\ t.retry_counts[n] \in {s.retry_counts[n], s.retry_counts[n] + 1}
  BY <1>3, <1>5
<1>7. state'.retry_counts = t.retry_counts /\ state'.retry_target = t.retry_target
  BY <1>2 DEF Finish, Rewritten
<1>8. t.retry_target \in {s.retry_target, n}
  BY <1>1 DEF Answered
<1>9. ASSUME Backoff(state') PROVE Scheduled(n)
  <2>1. state'.status = "retry_scheduled"
    BY <1>9 DEF Backoff
  <2>2. ~StopReason(state', spent')
    BY <1>2, <2>1, StopIsReported DEF StopReported
  <2>3. t.status = "retry_scheduled" /\ state'.failure_class = t.failure_class
    BY <1>2, <2>1, <2>2 DEF Finish
  <2>4. /\ reply = "transient" /\ t.failure_class = "transient"
        /\ t.retry_target = n /\ RetryAvailable(t, n)
        /\ t.retry_counts = [s.retry_counts EXCEPT ![n] = @ + 1]
    BY <1>1, <2>3 DEF Answered
  <2>5. t.retry_counts[n] >= 1
    BY <1>3, <2>4
  <2>6. RetryAvailable(state', n)
    BY <1>2, <1>7, <2>4 DEF RetryAvailable, Finish, Rewritten, SameRun
  <2> QED BY <1>7, <2>1, <2>3, <2>4, <2>5, <2>6 DEF Scheduled
<1>10. \/ StopReported
       \/ /\ ~StopReason(state', spent')
          /\ \/ state'.status = "failed" /\ state'.failure_class = "guardrail"
             \/ reply = "ok" /\ state'.status = good
             \/ reply # "ok" /\ state'.failure_class = reply
                /\ state'.status \in {bad, "retry_scheduled"}
  BY <1>1, <1>2, StopIsReported DEF Answered, Finish
<1> QED
  BY <1>2, <1>4, <1>6, <1>7, <1>8, <1>9, <1>10 DEF AgentFinished, Finish
-----------------------------------------------------------------------------
(* Where a run ends up; and how a router goes on with one that neither     *)
(* stops nor waits for a retry.                                            *)
Closers == {"attempt_limit", "failed_build", "failed_run", "stop_run", "end"}

Leads(n, m, s) ==
  \/ n = "preflight" /\ m = "intake"
  \/ n = "intake" /\ m \in {"learning", "planning"}
  \/ n = "learning" /\ m = "intake"
  \/ n = "planning" /\ m = "building" /\ HasNextItem(s)
  \/ n = "planning" /\ m = "item_router" /\ ~HasNextItem(s)
  \/ n = "building" /\ m = "validation" /\ s.critic_passed
  \/ n = "building" /\ m = "critic_auditor" /\ ~s.critic_passed
  \/ n = "critic_auditor" /\ m = "building"
  \/ n = "validation" /\ m = "pre_commit_policy_gate" /\ s.validation_passed
  \/ n = "validation" /\ m = "debugger" /\ ~s.validation_passed
  \/ n = "debugger" /\ m = "planning"
  \/ n = "pre_commit_policy_gate" /\ m = "commit_item" /\ s.policy_gate_passed
  \/ /\ n = "commit_item" /\ m = "item_router"
     /\ s.status \in {"committed", "no_changes", "commit_skipped", "commit_preview"}
  \/ n = "item_router" /\ m = "planning"
  \/ n = "item_router" /\ m = "push_node" /\ ~HasNextItem(s)
  \/ /\ n = "push_node" /\ m = "pull_request_node"
     /\ s.status \in {"branch_pushed", "branch_push_preview"}
  \/ n = "retry_backoff" /\ m = s.retry_target /\ m \in RetryableNodes

(* Every edge of the graph: a stopped run goes to stop_run or ends, and    *)
(* another follows one of the pairs of Leads.                              *)
LEMMA RouteCases ==
  ASSUME NEW n \in Node, NEW s \in State, NEW out \in BOOLEAN
  PROVE  \/ Route(n, s, out) \in Closers
         \/ Route(n, s, out) = "retry_backoff" /\ n \in RetryableNodes /\ Backoff(s)
         \/ Leads(n, Route(n, s, out), s)
<1> DEFINE m == Route(n, s, out)
<1>1. CASE n = "preflight"
  BY <1>1, RouteOf DEF Closers, Leads, RetryableNodes, route_after_preflight
<1>2. CASE n = "intake"
  BY <1>2, RouteOf DEF Closers, Leads, OrStop
<1>3. CASE n = "learning"
  BY <1>3, RouteOf DEF Closers, Leads, RetryableNodes, OrRetry, OrStop
<1>4. CASE n = "planning"
  BY <1>4, RouteOf
  DEF Closers, Leads, RetryableNodes, OrRetry, OrStop, route_after_planning
<1>5. CASE n = "building"
  BY <1>5, RouteOf
  DEF Closers, Leads, RetryableNodes, OrRetry, OrStop, route_after_building
<1>6. CASE n = "critic_auditor"
  BY <1>6, RouteOf DEF Closers, Leads, RetryableNodes, OrRetry, OrStop
<1>7. CASE n = "validation"
  BY <1>7, RouteOf
  DEF Closers, Leads, RetryableNodes, OrRetry, OrStop, route_after_validation
<1>8. CASE n = "debugger"
  BY <1>8, RouteOf DEF Closers, Leads, RetryableNodes, OrRetry, OrStop
<1>9. CASE n = "pre_commit_policy_gate"
  BY <1>9, RouteOf DEF Closers, Leads, OrStop, route_after_policy_gate
<1>10. CASE n = "commit_item"
  BY <1>10, RouteOf DEF Closers, Leads, OrStop, route_after_commit
<1>11. CASE n = "item_router"
  BY <1>11, RouteOf DEF Closers, Leads, OrStop
<1>12. CASE n = "push_node"
  BY <1>12, RouteOf DEF Closers, Leads, RetryableNodes, route_after_push
<1>13. CASE n = "pull_request_node"
  BY <1>13, RouteOf DEF Closers, RetryableNodes
<1>14. CASE n = "retry_backoff"
  BY <1>14, RouteOf DEF Closers, Leads, OrStop, route_after_retry_backoff
<1>15. CASE n \in {"attempt_limit", "failed_build", "failed_run", "stop_run"}
  BY <1>15, RouteOf DEF Closers
<1> QED
  BY <1>1, <1>2, <1>3, <1>4, <1>5, <1>6, <1>7, <1>8, <1>9, <1>10, <1>11,
     <1>12, <1>13, <1>14, <1>15
  DEF Node, RetryableNodes

(* An edge leads to a node.                                                *)
LEMMA LeadsToNode ==
  ASSUME NEW n, NEW m, NEW s, Leads(n, m, s)
  PROVE  m \in Node \ Closers /\ m # "retry_backoff"
  BY DEF Leads, Node, RetryableNodes, Closers

(* Only a run that is stopped is sent to stop_run.                         *)
LEMMA StopRoute ==
  ASSUME NEW n \in Node, NEW s \in State, NEW out \in BOOLEAN,
         Route(n, s, out) = "stop_run"
  PROVE  RunStopped(s, out)
  BY RouteOf
  DEF Node, RetryableNodes, OrStop, OrRetry, Backoff,
      route_after_preflight, route_after_planning, route_after_building,
      route_after_validation, route_after_policy_gate, route_after_commit,
      route_after_retry_backoff, route_after_push
-----------------------------------------------------------------------------
(* What the steps do, for the invariants.  n has been run and saved.       *)
Saved(n) ==
  /\ pc = n /\ n \in Node
  /\ state' \in State /\ state'.cancel_requested = state.cancel_requested
  /\ last' = n /\ pc' = Route(n, state', spent')
  /\ spent' \in BOOLEAN /\ delivery' = delivery
  /\ pc' = "retry_backoff" => Scheduled(n) /\ n \in RetryableNodes

(* The node was run to its end, and a reason to stop is in the status.     *)
Returned(n) ==
  /\ Saved(n) /\ mishaps' = mishaps /\ ~StopReason(state, spent)
  /\ StopReason(state', spent') => state'.status = StopStatus(state')

(* t is s for the work on the items.                                       *)
SameItems(t, s) ==
  /\ t.prd_items = s.prd_items /\ t.attempts_count = s.attempts_count
  /\ t.current_item_index = s.current_item_index
  /\ t.current_item_id = s.current_item_id
SameWork(t, s) ==
  /\ SameItems(t, s)
  /\ t.critic_passed = s.critic_passed /\ t.validation_passed = s.validation_passed
BuildRetries(s) == s.retry_counts["building"]

(* A node that finishes has its state saved and its router followed, and   *)
(* comes to a backoff only when it asked for one.                          *)
LEMMA FinishSaves ==
  ASSUME NEW n \in Node, NEW s \in State, Finish(n, s), Starts(n),
         s.status # "retry_scheduled" \/ n \notin RetryableNodes,
         s.cancel_requested = state.cancel_requested
  PROVE  Returned(n)
<1>1. pc' = "retry_backoff" => n \in RetryableNodes /\ Backoff(state')
  BY RouteCases, LeadsToNode DEF Finish, Closers
<1>2. pc' # "retry_backoff"
  <2> SUFFICES ASSUME pc' = "retry_backoff" PROVE FALSE
    OBVIOUS
  <2>1. s.status # "retry_scheduled" /\ state'.status = "retry_scheduled"
    BY <1>1 DEF Backoff
  <2> QED BY <2>1 DEF Finish, StopStatus
<1>3. state'.cancel_requested = state.cancel_requested
  BY DEF Finish, Rewritten, SameRun
<1>4. StopReason(state', spent') => state'.status = StopStatus(state')
  BY DEF Finish
<1> QED BY <1>2, <1>3, <1>4 DEF Returned, Saved, Finish, Starts

(* The step of a node that asked an agent.                                 *)
LEMMA AgentReturns ==
  ASSUME TypeOK, NEW n \in RetryableNodes, NEW s \in State,
         NEW reply \in AgentReply \cup {"validation"},
         NEW good \in Status \ {"retry_scheduled"},
         NEW bad \in Status \ {"retry_scheduled"},
         Starts(n), Return(n, Answer(s, n, reply, good, bad)),
         s.cancel_requested = state.cancel_requested
  PROVE  AgentFinished(n, s, reply, good, bad) /\ Returned(n)
<1>1. AgentFinished(n, s, reply, good, bad)
  <2>1. Answer(s, n, reply, good, bad) \in State
    BY AnswerIs DEF Answered
  <2>2. Finish(n, Answer(s, n, reply, good, bad))
    BY <2>1, ReturnFinishes
  <2> QED BY <2>2, AgentFinishes
<1>2. pc' = "retry_backoff" => Scheduled(n)
  BY <1>1, RouteCases, LeadsToNode DEF AgentFinished, Closers, Node
<1>3. state'.cancel_requested = state.cancel_requested
  BY <1>1 DEF AgentFinished, SameRun
<1> QED BY <1>1, <1>2, <1>3 DEF Returned, Saved, AgentFinished, Starts, Node

(* The step of a node that asked for no backoff.                           *)
LEMMA PlainReturns ==
  ASSUME TypeOK, NEW n \in Node, NEW s \in State, Starts(n), Return(n, s),
         s.status # "retry_scheduled" \/ n \notin RetryableNodes,
         s.cancel_requested = state.cancel_requested
  PROVE  Finish(n, s) /\ Returned(n)
  BY ReturnFinishes, FinishSaves

(* Planning picks the next item, and starts afresh with one that is not    *)
(* the item it has.                                                        *)
Picked(i) ==
  /\ i \in Item /\ i >= state.current_item_index /\ Incomplete(state, i)
  /\ \A j \in state.current_item_index..(i - 1) : ~Incomplete(state, j)
  /\ state'.prd_items = state.prd_items
  /\ state'.current_item_index = i /\ state'.current_item_id = IdOf[i]
  /\ ~state'.critic_passed /\ ~state'.validation_passed
  /\ IF state.current_item_id = IdOf[i]
     THEN /\ state'.attempts_count = state.attempts_count
          /\ BuildRetries(state') = BuildRetries(state)
          /\ state'.commit_sha = state.commit_sha
     ELSE /\ state'.attempts_count = 0 /\ BuildRetries(state') = 0
          /\ ~state'.commit_sha
Planned ==
  /\ Returned("planning") /\ UNCHANGED repository
  /\ \/ /\ ~HasNextItem(state) /\ SameWork(state', state)
        /\ BuildRetries(state') = BuildRetries(state)
        /\ state'.commit_sha = state.commit_sha
     \/ \E i \in Item : Picked(i)

(* Planning picks the first incomplete item, or finds none.                *)
LEMMA PlanningStep ==
  ASSUME TypeOK, Planning
  PROVE  Planned
<1>1. PICK reply \in AgentReply : Return("planning", planning(state, reply))
  BY DEF Planning
<1>2. Starts("planning") /\ UNCHANGED repository /\ state \in State
  BY DEF Planning, Unchanged, TypeOK
<1>3. CASE ~HasNextItem(state)
  <2>1. planning(state, reply) = [state EXCEPT !.status = "complete"]
    BY <1>3 DEF planning
  <2>2. "complete" \in Status
    BY DEF Status, TerminalRunStatuses
  <2> DEFINE t == planning(state, reply)
  <2>3. t \in State /\ Rewritten(t, state) /\ t.status = "complete"
    BY <1>2, <2>1, <2>2, StatusChange
  <2>4. Return("planning", t)
    BY <1>1
  <2> HIDE DEF t
  <2>5. Finish("planning", t) /\ Returned("planning")
    BY <1>2, <2>3, <2>4, PlainReturns DEF Node, RetryableNodes, Rewritten, SameRun
  <2> QED BY <1>2, <1>3, <2>3, <2>5
          DEF Planned, Finish, Rewritten, SameRun, SameWork, SameItems, BuildRetries
<1>4. CASE HasNextItem(state)
  <2> DEFINE i == NextItem(state)
             chosen == [state EXCEPT !.current_item_index = i,
                          !.current_item_id = IdOf[i],
                          !.critic_passed = FALSE, !.validation_passed = FALSE]
             fresh == IF SameItem(state, i) THEN chosen
                      ELSE [chosen EXCEPT !.attempts_count = 0,
                              !.build_completed = FALSE, !.commit_sha = FALSE,
                              !.retry_counts = [n \in RetryableNodes |-> 0],
                              !.retry_target = ""]
  <2>1. /\ i \in Item /\ i >= state.current_item_index /\ Incomplete(state, i)
        /\ \A j \in state.current_item_index..(i - 1) : ~Incomplete(state, j)
    BY <1>2, <1>4, NextItemIs
  <2>2. Return("planning", Answer(fresh, "planning", reply, "planned", "failed"))
    BY <1>1, <1>4 DEF planning
  <2> HIDE DEF i
  <2>3. /\ fresh \in State /\ fresh.cancel_requested = state.cancel_requested
        /\ fresh.prd_items = state.prd_items
        /\ fresh.current_item_index = i /\ fresh.current_item_id = IdOf[i]
        /\ ~fresh.critic_passed /\ ~fresh.validation_passed
        /\ IF SameItem(state, i)
           THEN /\ fresh.attempts_count = state.attempts_count
                /\ fresh.retry_counts = state.retry_counts
                /\ fresh.commit_sha = state.commit_sha
           ELSE /\ fresh.attempts_count = 0
                /\ fresh.retry_counts = [n \in RetryableNodes |-> 0]
                /\ ~fresh.commit_sha
    <3>1. /\ chosen \in State /\ chosen.cancel_requested = state.cancel_requested
          /\ chosen.prd_items = state.prd_items
          /\ chosen.current_item_index = i /\ chosen.current_item_id = IdOf[i]
          /\ ~chosen.critic_passed /\ ~chosen.validation_passed
          /\ chosen.attempts_count = state.attempts_count
          /\ chosen.retry_counts = state.retry_counts
          /\ chosen.commit_sha = state.commit_sha
      BY <1>2, <2>1 DEF State
    <3>2. 0 \in 0..MaxAttempts /\ [n \in RetryableNodes |-> 0] \in [RetryableNodes -> Nat]
      BY WorkflowConstants
    <3> HIDE DEF chosen
    <3> QED BY <3>1, <3>2 DEF State
  <2> HIDE DEF fresh
  <2>4. "planned" \in Status \ {"retry_scheduled"} /\ "failed" \in Status \ {"retry_scheduled"}
    BY DEF Status, TerminalRunStatuses
  <2>5. /\ AgentFinished("planning", fresh, reply, "planned", "failed")
        /\ Returned("planning")
    BY <1>2, <2>2, <2>3, <2>4, AgentReturns DEF RetryableNodes
  <2>6. BuildRetries(state') = BuildRetries(fresh)
    BY <2>5 DEF AgentFinished, BuildRetries, RetryableNodes
  <2>7. BuildRetries(fresh) = IF SameItem(state, i) THEN BuildRetries(state) ELSE 0
    BY <2>3 DEF BuildRetries, RetryableNodes
  <2>8. SameRun(state', fresh)
    BY <2>5 DEF AgentFinished
  <2>9. Picked(i)
    BY <2>1, <2>3, <2>6, <2>7, <2>8 DEF Picked, SameRun, SameItem
  <2> QED BY <1>2, <2>1, <2>5, <2>9 DEF Planned
<1> QED BY <1>3, <1>4

(* The builder is run for an item that is not approved, and counted.       *)
Built ==
  /\ Returned("building")
  /\ state'.current_item_index = state.current_item_index
  /\ state'.current_item_id = state.current_item_id
  /\ state'.validation_passed = state.validation_passed
  /\ state'.commit_sha = state.commit_sha
  /\ IF NeedsBuild(state)
     THEN /\ RunBuilder /\ ~state'.critic_passed
          /\ state'.attempts_count = state.attempts_count + 1
          /\ BuildRetries(state') <= BuildRetries(state) + 1
          /\ state'.prd_items \in
               {state.prd_items,
                [state.prd_items EXCEPT ![state.current_item_index] =
                   [passes |-> TRUE, validation |-> FALSE]]}
     ELSE /\ UNCHANGED repository /\ SameWork(state', state)
          /\ BuildRetries(state') = BuildRetries(state)

(* Building charges an attempt and runs the builder, or the item is built. *)
LEMMA BuildingStep ==
  ASSUME TypeOK, Building
  PROVE  Built
<1>1. PICK reply \in AgentReply, item_built \in BOOLEAN :
         Return("building", building(state, reply, item_built))
  BY DEF Building
<1>2. /\ Starts("building") /\ state \in State
      /\ IF NeedsBuild(state) THEN RunBuilder ELSE UNCHANGED repository
  BY DEF Building, Unchanged, TypeOK
<1> DEFINE t == building(state, reply, item_built)
<1>3. CASE ~NeedsBuild(state)
  <2>1. /\ t \in State /\ t.status # "retry_scheduled"
        /\ t.cancel_requested = state.cancel_requested
        /\ SameWork(t, state) /\ BuildRetries(t) = BuildRetries(state)
        /\ t.commit_sha = state.commit_sha
    <3> DEFINE status == IF state.critic_passed THEN "build_approved_for_validation"
                         ELSE "attempt_limit_reached"
    <3>1. t = [state EXCEPT !.status = status, !.build_completed = FALSE]
      BY <1>3 DEF building, NeedsBuild
    <3>2. status \in Status /\ status # "retry_scheduled"
      BY DEF Status, TerminalRunStatuses
    <3> HIDE DEF t, status
    <3>3. t \in State /\ t.status = status
      BY <1>2, <3>1, <3>2 DEF State
    <3>4. /\ t.cancel_requested = state.cancel_requested
          /\ SameWork(t, state) /\ BuildRetries(t) = BuildRetries(state)
          /\ t.commit_sha = state.commit_sha
      BY <1>2, <3>1 DEF State, SameWork, SameItems, BuildRetries
    <3> QED BY <3>2, <3>3, <3>4
  <2> HIDE DEF t
  <2>2. Return("building", t)
    BY <1>1 DEF t
  <2>3. Finish("building", t) /\ Returned("building")
    BY <1>2, <2>1, <2>2, PlainReturns DEF Node, RetryableNodes
  <2> QED BY <1>2, <1>3, <2>1, <2>3
          DEF Built, Finish, Rewritten, SameRun, SameWork, SameItems, BuildRetries
<1>4. CASE NeedsBuild(state)
  <2> DEFINE attempt == [state EXCEPT !.attempts_count = @ + 1,
                           !.total_attempts = @ + 1, !.critic_passed = FALSE,
                           !.build_completed = reply = "ok"]
             made == IF reply = "ok" /\ item_built THEN MarkBuilt(attempt)
                     ELSE attempt
  <2>1. /\ attempt \in State /\ attempt.cancel_requested = state.cancel_requested
        /\ attempt.prd_items = state.prd_items
        /\ attempt.current_item_index = state.current_item_index
        /\ attempt.current_item_id = state.current_item_id
        /\ attempt.attempts_count = state.attempts_count + 1
        /\ ~attempt.critic_passed
        /\ attempt.validation_passed = state.validation_passed
        /\ attempt.commit_sha = state.commit_sha
        /\ attempt.retry_counts = state.retry_counts
    <3>1. /\ state.attempts_count + 1 \in 0..MaxAttempts
          /\ state.total_attempts + 1 \in 0..MaxTotalAttempts
      <4>1. /\ state.attempts_count \in 0..MaxAttempts
            /\ state.total_attempts \in 0..MaxTotalAttempts
        BY <1>2, StateFields
      <4>2. /\ ~(state.attempts_count >= MaxAttempts)
            /\ ~(state.total_attempts >= MaxTotalAttempts)
        BY <1>2, <1>4 DEF NeedsBuild, Exhausted, Starts, StopReason
      <4> QED BY ONLY <4>1, <4>2, WorkflowConstants
    <3>2. (reply = "ok") \in BOOLEAN
      OBVIOUS
    <3> QED BY <1>2, <3>1, <3>2 DEF State
  <2> HIDE DEF attempt
  <2>2. /\ made \in State /\ made.cancel_requested = state.cancel_requested
        /\ made.prd_items \in
             {state.prd_items,
              [state.prd_items EXCEPT ![state.current_item_index] =
                 [passes |-> TRUE, validation |-> FALSE]]}
        /\ made.current_item_index = state.current_item_index
        /\ made.current_item_id = state.current_item_id
        /\ made.attempts_count = state.attempts_count + 1
        /\ ~made.critic_passed
        /\ made.validation_passed = state.validation_passed
        /\ made.commit_sha = state.commit_sha
        /\ made.retry_counts = state.retry_counts
    <3>1. CASE made = attempt
      BY <2>1, <3>1
    <3>2. CASE made = MarkBuilt(attempt)
      <4> DEFINE items == [attempt.prd_items EXCEPT ![attempt.current_item_index] =
                             [passes |-> TRUE, validation |-> FALSE]]
      <4>1. items \in [Item -> [passes : BOOLEAN, validation : BOOLEAN]]
        BY <2>1, StateFields
      <4>2. made = [attempt EXCEPT !.prd_items = items]
        BY <3>2 DEF MarkBuilt
      <4>3. items = [state.prd_items EXCEPT ![state.current_item_index] =
                       [passes |-> TRUE, validation |-> FALSE]]
        BY <2>1
      <4> HIDE DEF items, made
      <4>4. made \in State /\ made.prd_items = items
        BY <2>1, <4>1, <4>2 DEF State
      <4> QED BY <2>1, <4>2, <4>3, <4>4 DEF State
    <3> QED BY <3>1, <3>2
  <2>3. Return("building", Answer(made, "building", reply, "built", "failed"))
    BY <1>1, <1>4 DEF building, NeedsBuild, attempt
  <2> HIDE DEF made
  <2>4. "built" \in Status \ {"retry_scheduled"} /\ "failed" \in Status \ {"retry_scheduled"}
    BY DEF Status, TerminalRunStatuses
  <2>5. /\ AgentFinished("building", made, reply, "built", "failed")
        /\ Returned("building")
    BY <1>2, <2>2, <2>3, <2>4, AgentReturns DEF RetryableNodes
  <2>6. BuildRetries(state') \in {BuildRetries(state), BuildRetries(state) + 1}
    BY <2>2, <2>5 DEF AgentFinished, BuildRetries
  <2>7. BuildRetries(state') <= BuildRetries(state) + 1
    <3>1. BuildRetries(state) \in Nat
      BY <1>2, StateFields DEF BuildRetries, RetryableNodes
    <3> QED BY <2>6, <3>1
  <2>8. SameRun(state', made)
    BY <2>5 DEF AgentFinished
  <2> QED BY <1>2, <1>4, <2>2, <2>5, <2>7, <2>8 DEF Built, SameRun
<1> QED BY <1>3, <1>4

(* The critic approves only with an answer.                                *)
Reviewed ==
  /\ Returned("critic_auditor") /\ UNCHANGED repository
  /\ SameItems(state', state)
  /\ state'.validation_passed = state.validation_passed
  /\ state'.commit_sha = state.commit_sha
  /\ BuildRetries(state') = BuildRetries(state)
  /\ pc' = "retry_backoff" => ~state'.critic_passed

(* The critic approves the item or not.                                    *)
LEMMA CriticStep ==
  ASSUME TypeOK, CriticAuditor
  PROVE  Reviewed
<1>1. PICK reply \in AgentReply, approved \in BOOLEAN :
         Return("critic_auditor", critic_auditor(state, reply, approved))
  BY DEF CriticAuditor
<1>2. Starts("critic_auditor") /\ UNCHANGED repository /\ state \in State
  BY DEF CriticAuditor, Unchanged, TypeOK
<1> DEFINE s == [state EXCEPT !.critic_passed = reply = "ok" /\ approved]
<1>3. /\ s \in State /\ s.cancel_requested = state.cancel_requested
      /\ SameItems(s, state) /\ s.retry_counts = state.retry_counts
      /\ s.validation_passed = state.validation_passed
      /\ s.commit_sha = state.commit_sha
      /\ s.critic_passed => reply = "ok"
  <2>1. (reply = "ok" /\ approved) \in BOOLEAN
    OBVIOUS
  <2> QED BY <1>2, <2>1 DEF State, SameItems
<1>4. Return("critic_auditor",
             Answer(s, "critic_auditor", reply, "critic_audited", "failed"))
  BY <1>1 DEF critic_auditor
<1> HIDE DEF s
<1>5. /\ "critic_audited" \in Status \ {"retry_scheduled"}
      /\ "failed" \in Status \ {"retry_scheduled"}
  BY DEF Status, TerminalRunStatuses
<1>6. /\ AgentFinished("critic_auditor", s, reply, "critic_audited", "failed")
      /\ Returned("critic_auditor")
  BY <1>2, <1>3, <1>4, <1>5, AgentReturns DEF RetryableNodes
<1>7. BuildRetries(state') = BuildRetries(state)
  BY <1>3, <1>6 DEF AgentFinished, BuildRetries, RetryableNodes
<1>8. SameRun(state', s)
  BY <1>6 DEF AgentFinished
<1>9. ASSUME pc' = "retry_backoff" PROVE reply # "ok"
  <2>1. state'.status = "retry_scheduled"
    BY <1>6, <1>9 DEF Returned, Saved, Scheduled
  <2> QED BY <1>6, <2>1 DEF AgentFinished, StopReported
<1> QED BY <1>2, <1>3, <1>6, <1>7, <1>8, <1>9 DEF Reviewed, SameRun, SameItems

(* Validation marks the item, and its result with it.                      *)
Validated ==
  /\ Returned("validation")
  /\ state'.current_item_index = state.current_item_index
  /\ state'.current_item_id = state.current_item_id
  /\ state'.attempts_count = state.attempts_count
  /\ state'.critic_passed = state.critic_passed
  /\ state'.commit_sha = state.commit_sha
  /\ BuildRetries(state') = BuildRetries(state)
  /\ state'.prd_items =
       [state.prd_items EXCEPT ![state.current_item_index] =
          [passes |-> state'.validation_passed \/ @.passes,
           validation |-> state'.validation_passed]]
  /\ IF state'.validation_passed
     THEN PassCheck("validation") /\ pc' # "retry_backoff"
     ELSE UNCHANGED repository

(* Validation closes the item, or leaves it open.                          *)
LEMMA ValidationStep ==
  ASSUME TypeOK, Validation
  PROVE  Validated
<1>1. PICK reply \in AgentReply \cup {"validation"} :
        /\ Return("validation", validation(state, reply))
        /\ IF reply = "ok" THEN PassCheck("validation") ELSE UNCHANGED repository
  BY DEF Validation, Unchanged
<1>2. Starts("validation") /\ state \in State
  BY DEF Validation, TypeOK
<1> DEFINE passed == reply = "ok"
           tested == [state EXCEPT !.validation_passed = passed]
           items == [tested.prd_items EXCEPT ![tested.current_item_index] =
                       [passes |-> passed \/ @.passes, validation |-> passed]]
           s == MarkValidated(tested, passed)
           bad == IF reply = "permanent" THEN "failed" ELSE "validation_failed"
<1>3. Return("validation", Answer(s, "validation", reply, "validated", bad))
  BY <1>1 DEF validation
<1>4. passed \in BOOLEAN /\ (passed <=> reply = "ok")
  OBVIOUS
<1> HIDE DEF passed
<1>5. /\ tested \in State /\ tested.cancel_requested = state.cancel_requested
      /\ tested.prd_items = state.prd_items
      /\ tested.current_item_index = state.current_item_index
      /\ tested.current_item_id = state.current_item_id
      /\ tested.attempts_count = state.attempts_count
      /\ tested.critic_passed = state.critic_passed
      /\ tested.validation_passed = passed
      /\ tested.commit_sha = state.commit_sha
      /\ tested.retry_counts = state.retry_counts
  BY <1>2, <1>4 DEF State
<1> HIDE DEF tested
<1>6. items \in [Item -> [passes : BOOLEAN, validation : BOOLEAN]]
  <2>1. /\ tested.prd_items \in [Item -> [passes : BOOLEAN, validation : BOOLEAN]]
        /\ tested.current_item_index \in Item
    BY <1>5, StateFields
  <2>2. tested.prd_items[tested.current_item_index].passes \in BOOLEAN
    BY <2>1
  <2>3. (passed \/ tested.prd_items[tested.current_item_index].passes) \in BOOLEAN
    BY <1>4, <2>2
  <2> QED BY <1>4, <2>1, <2>3
<1>7. s = [tested EXCEPT !.prd_items = items]
  BY DEF MarkValidated
<1>8. items = [state.prd_items EXCEPT ![state.current_item_index] =
                 [passes |-> passed \/ @.passes, validation |-> passed]]
  BY <1>5
<1> HIDE DEF items, s, bad
<1>9. /\ s \in State /\ s.cancel_requested = state.cancel_requested
      /\ s.prd_items = items
      /\ s.current_item_index = state.current_item_index
      /\ s.current_item_id = state.current_item_id
      /\ s.attempts_count = state.attempts_count
      /\ s.critic_passed = state.critic_passed
      /\ s.validation_passed = passed
      /\ s.commit_sha = state.commit_sha
      /\ s.retry_counts = state.retry_counts
  BY <1>5, <1>6, <1>7 DEF State
<1>10. /\ "validated" \in Status \ {"retry_scheduled"}
       /\ bad \in Status \ {"retry_scheduled"}
  BY DEF Status, TerminalRunStatuses, bad
<1>11. /\ AgentFinished("validation", s, reply, "validated", bad)
       /\ Returned("validation")
  BY <1>2, <1>3, <1>9, <1>10, AgentReturns DEF RetryableNodes
<1>12. BuildRetries(state') = BuildRetries(state)
  BY <1>9, <1>11 DEF AgentFinished, BuildRetries, RetryableNodes
<1>13. SameRun(state', s)
  BY <1>11 DEF AgentFinished
<1>14. ASSUME pc' = "retry_backoff" PROVE reply # "ok"
  <2>1. state'.status = "retry_scheduled"
    BY <1>11, <1>14 DEF Returned, Saved, Scheduled
  <2> QED BY <1>11, <2>1 DEF AgentFinished, StopReported
<1>15. state'.prd_items = items /\ state'.validation_passed = passed
  BY <1>9, <1>13 DEF SameRun
<1> QED BY <1>1, <1>4, <1>8, <1>9, <1>11, <1>12, <1>13, <1>14, <1>15
        DEF Validated, SameRun

(* A repair takes back what the critic and validation said.                *)
Debugged ==
  /\ Returned("debugger") /\ UNCHANGED repository
  /\ SameItems(state', state)
  /\ ~state'.critic_passed /\ ~state'.validation_passed
  /\ state'.commit_sha = state.commit_sha
  /\ BuildRetries(state') = BuildRetries(state)

(* The debugger takes the approval and the validation back.                *)
LEMMA DebuggerStep ==
  ASSUME TypeOK, Debugger
  PROVE  Debugged
<1>1. PICK reply \in AgentReply : Return("debugger", debugger(state, reply))
  BY DEF Debugger
<1>2. Starts("debugger") /\ UNCHANGED repository /\ state \in State
  BY DEF Debugger, Unchanged, TypeOK
<1> DEFINE s == [state EXCEPT !.critic_passed = FALSE, !.validation_passed = FALSE]
<1>3. /\ s \in State /\ s.cancel_requested = state.cancel_requested
      /\ SameItems(s, state) /\ s.retry_counts = state.retry_counts
      /\ ~s.critic_passed /\ ~s.validation_passed
      /\ s.commit_sha = state.commit_sha
  BY <1>2 DEF State, SameItems
<1>4. Return("debugger", Answer(s, "debugger", reply, "debugged", "failed"))
  BY <1>1 DEF debugger
<1> HIDE DEF s
<1>5. /\ "debugged" \in Status \ {"retry_scheduled"}
      /\ "failed" \in Status \ {"retry_scheduled"}
  BY DEF Status, TerminalRunStatuses
<1>6. /\ AgentFinished("debugger", s, reply, "debugged", "failed")
      /\ Returned("debugger")
  BY <1>2, <1>3, <1>4, <1>5, AgentReturns DEF RetryableNodes
<1>7. BuildRetries(state') = BuildRetries(state)
  BY <1>3, <1>6 DEF AgentFinished, BuildRetries, RetryableNodes
<1>8. SameRun(state', s)
  BY <1>6 DEF AgentFinished
<1> QED BY <1>2, <1>3, <1>6, <1>7, <1>8 DEF Debugged, SameRun, SameItems
-----------------------------------------------------------------------------
(* The nodes that leave the work on the items alone.                       *)
Quiet(n) ==
  /\ Returned(n) /\ SameWork(state', state)
  /\ BuildRetries(state') = BuildRetries(state)
  /\ n = "retry_backoff" => state'.retry_target = state.retry_target

(* A node that returns the work as it was is quiet.                        *)
LEMMA QuietReturns ==
  ASSUME TypeOK, NEW n \in Node, NEW s \in State, Starts(n), Return(n, s),
         s.status # "retry_scheduled" \/ n \notin RetryableNodes,
         s.cancel_requested = state.cancel_requested, SameWork(s, state),
         s.retry_counts = state.retry_counts, s.retry_target = state.retry_target
  PROVE  Finish(n, s) /\ Quiet(n) /\ state'.commit_sha = s.commit_sha
<1>1. Finish(n, s) /\ Returned(n)
  BY PlainReturns
<1> QED BY <1>1 DEF Finish, Rewritten, SameRun, Quiet, SameWork, SameItems, BuildRetries

(* So is one that only makes a status of its agent's reply.                *)
LEMMA QuietAnswers ==
  ASSUME TypeOK, NEW n \in RetryableNodes \ {"building"}, NEW s \in State,
         NEW reply \in AgentReply,
         NEW good \in Status \ {"retry_scheduled"},
         NEW bad \in Status \ {"retry_scheduled"},
         Starts(n), Return(n, Answer(s, n, reply, good, bad)),
         s.cancel_requested = state.cancel_requested, SameWork(s, state),
         s.retry_counts = state.retry_counts
  PROVE  /\ AgentFinished(n, s, reply, good, bad) /\ Quiet(n)
         /\ state'.commit_sha = s.commit_sha
<1>1. AgentFinished(n, s, reply, good, bad) /\ Returned(n)
  BY AgentReturns
<1>2. BuildRetries(state') = BuildRetries(state)
  BY <1>1 DEF AgentFinished, BuildRetries, RetryableNodes
<1>3. n # "retry_backoff"
  BY DEF RetryableNodes
<1> QED BY <1>1, <1>2, <1>3 DEF AgentFinished, SameRun, Quiet, SameWork, SameItems

(* Statuses of a run that released its lease, and of one that delivered.   *)
Released == TerminalRunStatuses \cup PullRequestStatuses \cup {"run_locked"}
Delivered == PullRequestStatuses \cup {"complete", "pull_request_preview"}

(* The edges to the end, and the statuses that take them.                  *)
LEMMA EndRoute ==
  ASSUME NEW n \in Node, NEW s \in State, NEW out \in BOOLEAN,
         Route(n, s, out) = "end"
  PROVE  \/ n = "preflight" /\ (RunStopped(s, out) \/ s.status = "preflight_failed")
         \/ /\ n = "commit_item" /\ ~RunStopped(s, out)
            /\ s.status \notin {"committed", "no_changes", "commit_skipped",
                                "commit_preview"}
         \/ /\ n = "push_node" /\ ~Backoff(s)
            /\ s.status \notin {"branch_pushed", "branch_push_preview"}
         \/ n = "pull_request_node" /\ ~Backoff(s)
         \/ n \in {"attempt_limit", "failed_build", "failed_run", "stop_run"}
  BY RouteOf
  DEF Node, RetryableNodes, OrStop, OrRetry, Backoff,
      route_after_preflight, route_after_planning, route_after_building,
      route_after_validation, route_after_policy_gate, route_after_commit,
      route_after_retry_backoff, route_after_push

(* The end of a run in its own right: with a status that says it is over,  *)
(* and not with that of a delivery.                                        *)
EndsUndelivered ==
  pc' = "end" => state'.status \in Released \ Delivered

(* A node without an effect on the repository.                             *)
QuietNodes == {"preflight", "intake", "learning", "item_router", "retry_backoff",
               "attempt_limit", "failed_build", "failed_run", "stop_run"}
Passed(n) ==
  /\ n \in QuietNodes /\ Quiet(n) /\ UNCHANGED repository
  /\ state'.commit_sha = state.commit_sha
  /\ EndsUndelivered \/ (n = "stop_run" /\ state'.status = state.status)

(* Preflight only answers.                                                 *)
LEMMA PreflightStep ==
  ASSUME TypeOK, Preflight
  PROVE  Passed("preflight")
<1>1. PICK reply \in AgentReply : Return("preflight", preflight(state, reply))
  BY DEF Preflight
<1>2. Starts("preflight") /\ UNCHANGED repository /\ state \in State
  BY DEF Preflight, Unchanged, TypeOK
<1>3. /\ "preflight_skipped" \in Status
      /\ "preflight_passed" \in Status \ {"retry_scheduled"}
      /\ "preflight_failed" \in Status \ {"retry_scheduled"}
  BY DEF Status, TerminalRunStatuses
<1>4. Quiet("preflight") /\ state'.commit_sha = state.commit_sha
  <2>1. CASE delivery = "none"
    <3> DEFINE s == preflight(state, reply)
    <3>1. s = [state EXCEPT !.status = "preflight_skipped"]
      BY <2>1 DEF preflight
    <3>2. Return("preflight", s)
      BY <1>1
    <3> HIDE DEF s
    <3>3. s \in State /\ Rewritten(s, state) /\ s.status = "preflight_skipped"
      BY <1>2, <1>3, <3>1, StatusChange
    <3> QED BY <1>2, <3>2, <3>3, QuietReturns
            DEF Rewritten, SameRun, SameWork, SameItems, Node, RetryableNodes
  <2>2. CASE delivery # "none"
    <3>1. Return("preflight",
                 Answer(state, "preflight", reply, "preflight_passed", "preflight_failed"))
      BY <1>1, <2>2 DEF preflight
    <3> QED BY <1>2, <1>3, <3>1, QuietAnswers DEF SameWork, SameItems, RetryableNodes
  <2> QED BY <2>1, <2>2
<1>5. EndsUndelivered
  <2> SUFFICES ASSUME pc' = "end" PROVE state'.status \in Released \ Delivered
    BY DEF EndsUndelivered
  <2>1. RunStopped(state', spent') \/ state'.status = "preflight_failed"
    BY <1>4, EndRoute DEF Quiet, Returned, Saved
  <2> QED BY <1>4, <2>1
          DEF Quiet, Returned, RunStopped, StopStatus, StopStatuses, Released,
              Delivered, TerminalRunStatuses, PullRequestStatuses
<1> QED BY <1>2, <1>4, <1>5 DEF Passed, QuietNodes

(* Intake only sets the mode.                                              *)
LEMMA IntakeStep ==
  ASSUME TypeOK, NEW mode \in {"learn", "implement"}, Intake(mode)
  PROVE  Passed("intake")
<1> DEFINE s == intake(state, mode)
<1>1. /\ Return("intake", s) /\ Starts("intake")
      /\ UNCHANGED repository /\ state \in State
  BY DEF Intake, Unchanged, TypeOK
<1>2. /\ s \in State /\ s.cancel_requested = state.cancel_requested
      /\ SameWork(s, state) /\ s.retry_counts = state.retry_counts
      /\ s.retry_target = state.retry_target /\ s.commit_sha = state.commit_sha
  <2>1. CASE state.workflow_mode # "none"
    BY <1>1, <2>1 DEF intake, SameWork, SameItems
  <2>2. CASE state.workflow_mode = "none"
    <3> DEFINE status == IF mode = "learn" THEN "intake_learn" ELSE "intake_implement"
    <3>1. status \in Status
      BY DEF Status
    <3>2. s = [state EXCEPT !.workflow_mode = mode, !.status = status]
      BY <2>2 DEF intake
    <3> HIDE DEF s, status
    <3> QED BY <1>1, <3>1, <3>2 DEF State, SameWork, SameItems
  <2> QED BY <2>1, <2>2
<1> HIDE DEF s
<1>3. Quiet("intake") /\ state'.commit_sha = state.commit_sha
  BY <1>1, <1>2, QuietReturns DEF Node, RetryableNodes
<1>4. pc' # "end"
  BY <1>3, EndRoute DEF Quiet, Returned, Saved
<1> QED BY <1>1, <1>3, <1>4 DEF Passed, QuietNodes, EndsUndelivered

(* Learning clears the mode and answers.                                   *)
LEMMA LearningStep ==
  ASSUME TypeOK, Learning
  PROVE  Passed("learning")
<1>1. PICK reply \in AgentReply : Return("learning", learning(state, reply))
  BY DEF Learning
<1>2. Starts("learning") /\ UNCHANGED repository /\ state \in State
  BY DEF Learning, Unchanged, TypeOK
<1> DEFINE s == [state EXCEPT !.workflow_mode = "none"]
<1>3. /\ s \in State /\ s.cancel_requested = state.cancel_requested
      /\ SameWork(s, state) /\ s.retry_counts = state.retry_counts
      /\ s.commit_sha = state.commit_sha
  BY <1>2 DEF State, SameWork, SameItems
<1>4. Return("learning", Answer(s, "learning", reply, "learned", "learning_failed"))
  BY <1>1 DEF learning
<1> HIDE DEF s
<1>5. /\ "learned" \in Status \ {"retry_scheduled"}
      /\ "learning_failed" \in Status \ {"retry_scheduled"}
  BY DEF Status
<1>6. Quiet("learning") /\ state'.commit_sha = state.commit_sha
  BY <1>2, <1>3, <1>4, <1>5, QuietAnswers DEF RetryableNodes
<1>7. pc' # "end"
  BY <1>6, EndRoute DEF Quiet, Returned, Saved
<1> QED BY <1>2, <1>6, <1>7 DEF Passed, QuietNodes, EndsUndelivered

(* The item router only says whether an item is left.                      *)
LEMMA ItemRouterStep ==
  ASSUME TypeOK, ItemRouter
  PROVE  Passed("item_router")
<1> DEFINE s == item_router(state)
           status == IF HasNextItem(state) THEN "next_item_ready"
                     ELSE "github_handoff_ready"
<1>1. /\ Return("item_router", s) /\ Starts("item_router")
      /\ UNCHANGED repository /\ state \in State
  BY DEF ItemRouter, Unchanged, TypeOK
<1>2. status \in Status
  BY DEF Status
<1>3. s = [state EXCEPT !.status = status]
  BY DEF item_router
<1> HIDE DEF s, status
<1>4. s \in State /\ Rewritten(s, state)
  BY <1>1, <1>2, <1>3, StatusChange
<1>5. Quiet("item_router") /\ state'.commit_sha = state.commit_sha
  BY <1>1, <1>4, QuietReturns
  DEF Rewritten, SameRun, SameWork, SameItems, Node, RetryableNodes
<1>6. pc' # "end"
  BY <1>5, EndRoute DEF Quiet, Returned, Saved
<1> QED BY <1>1, <1>5, <1>6 DEF Passed, QuietNodes, EndsUndelivered

(* The nodes that close a run or wait only set its status.                 *)
LEMMA ClosingStep ==
  ASSUME TypeOK,
         NEW n \in {"retry_backoff", "attempt_limit", "failed_build", "failed_run",
                    "stop_run"},
         ClosingNode(n)
  PROVE  Passed(n)
<1> DEFINE s == Closing(state, n)
<1>1. /\ Return(n, s) /\ Starts(n) /\ UNCHANGED repository /\ state \in State
      /\ n \in Node \ RetryableNodes
  BY DEF ClosingNode, Unchanged, TypeOK, Node, RetryableNodes
<1>2. /\ s \in State /\ s.cancel_requested = state.cancel_requested
      /\ SameWork(s, state) /\ s.retry_counts = state.retry_counts
      /\ s.retry_target = state.retry_target /\ s.commit_sha = state.commit_sha
      /\ n = "attempt_limit" => s.status = "attempt_limit_reached"
      /\ n \in {"failed_build", "failed_run"} => s.status = "failed"
      /\ n = "stop_run" => s.status = state.status
  <2>1. CASE n = "retry_backoff"
    <3>1. "retrying" \in Status
      BY DEF Status
    <3> QED BY <1>1, <2>1, <3>1 DEF Closing, State, SameWork, SameItems
  <2>2. CASE n = "attempt_limit"
    <3>1. "attempt_limit_reached" \in Status
      BY DEF Status, TerminalRunStatuses
    <3> QED BY <1>1, <2>2, <3>1 DEF Closing, State, SameWork, SameItems
  <2>3. CASE n \in {"failed_build", "failed_run"}
    <3>1. "failed" \in Status
      BY DEF Status, TerminalRunStatuses
    <3> QED BY <1>1, <2>3, <3>1 DEF Closing, State, SameWork, SameItems
  <2>4. CASE n = "stop_run"
    BY <1>1, <2>4 DEF Closing, SameWork, SameItems
  <2> QED BY <2>1, <2>2, <2>3, <2>4
<1> HIDE DEF s
<1>3. Finish(n, s) /\ Quiet(n) /\ state'.commit_sha = state.commit_sha
  BY <1>1, <1>2, QuietReturns
<1>4. EndsUndelivered \/ (n = "stop_run" /\ state'.status = state.status)
  <2> SUFFICES ASSUME pc' = "end" PROVE \/ state'.status \in Released \ Delivered
                                        \/ n = "stop_run" /\ state'.status = state.status
    BY DEF EndsUndelivered
  <2>1. n # "retry_backoff"
    BY <1>3, EndRoute DEF Quiet, Returned, Saved
  <2>2. state'.status \in {s.status, "failed", "cancelled", "budget_exceeded"}
    BY <1>3 DEF Finish, StopStatus
  <2> QED BY <1>2, <2>1, <2>2
          DEF Released, Delivered, TerminalRunStatuses, PullRequestStatuses
<1> QED BY <1>1, <1>3, <1>4 DEF Passed, QuietNodes

(* The gate passes files it has seen, when it has to look at any.          *)
Gated ==
  /\ Quiet("pre_commit_policy_gate") /\ state'.commit_sha = state.commit_sha
  /\ pc' # "end"
  /\ UNCHANGED repository \/ PassCheck("policy")
  /\ GateLooks(state) /\ state'.policy_gate_passed /\ "status" \notin Faults =>
       PassCheck("policy")

(* The gate before the commit looks at the files, or waits for what it     *)
(* needs.                                                                  *)
LEMMA PolicyGateStep ==
  ASSUME TypeOK, PolicyGate
  PROVE  Gated
<1>1. PICK passed \in BOOLEAN, seen \in {TRUE, "status" \notin Faults} :
        /\ Return("pre_commit_policy_gate", pre_commit_policy_gate(state, passed))
        /\ IF GateLooks(state) /\ passed /\ seen THEN PassCheck("policy")
           ELSE UNCHANGED repository
  BY DEF PolicyGate, Unchanged
<1>2. Starts("pre_commit_policy_gate") /\ state \in State
  BY DEF PolicyGate, TypeOK
<1> DEFINE s == pre_commit_policy_gate(state, passed)
<1>3. /\ s \in State /\ s.cancel_requested = state.cancel_requested
      /\ SameWork(s, state) /\ s.retry_counts = state.retry_counts
      /\ s.retry_target = state.retry_target /\ s.commit_sha = state.commit_sha
      /\ GateLooks(state) => s.policy_gate_passed = passed
  <2>1. CASE ~GateLooks(state)
    <3> DEFINE status == IF state.commit_sha THEN "policy_gate_passed"
                         ELSE "policy_gate_skipped"
    <3>1. status \in Status
      BY DEF Status
    <3>2. s = [state EXCEPT !.status = status, !.policy_gate_passed = TRUE]
      BY <2>1 DEF pre_commit_policy_gate, GateLooks
    <3> HIDE DEF s, status
    <3> QED BY <1>2, <2>1, <3>1, <3>2 DEF State, SameWork, SameItems
  <2>2. CASE GateLooks(state)
    <3> DEFINE status == IF passed THEN "policy_gate_passed" ELSE "policy_gate_failed"
               class == IF passed THEN "" ELSE "guardrail"
               result == Result(state, status, class)
    <3>1. status \in Status /\ class \in FailureClass
      BY DEF Status, FailureClass
    <3>2. s = [result EXCEPT !.policy_gate_passed = passed]
      BY <2>2 DEF pre_commit_policy_gate, GateLooks
    <3> HIDE DEF s, status, class
    <3>3. result \in State /\ Rewritten(result, state)
      BY <1>2, <3>1, ResultState
    <3> HIDE DEF result
    <3> QED BY <2>2, <3>2, <3>3 DEF State, Rewritten, SameRun, SameWork, SameItems
  <2> QED BY <2>1, <2>2
<1>4. Return("pre_commit_policy_gate", s)
  BY <1>1
<1> HIDE DEF s
<1>5. /\ Finish("pre_commit_policy_gate", s) /\ Quiet("pre_commit_policy_gate")
      /\ state'.commit_sha = state.commit_sha
  BY <1>2, <1>3, <1>4, QuietReturns DEF Node, RetryableNodes
<1>6. pc' # "end"
  BY <1>5, EndRoute DEF Quiet, Returned, Saved
<1>7. state'.policy_gate_passed = s.policy_gate_passed
  BY <1>5 DEF Finish, Rewritten, SameRun
<1>8. UNCHANGED repository \/ PassCheck("policy")
  BY <1>1
<1>9. ASSUME GateLooks(state), state'.policy_gate_passed, "status" \notin Faults
      PROVE  PassCheck("policy")
  BY <1>1, <1>3, <1>7, <1>9
<1> QED BY <1>5, <1>6, <1>8, <1>9 DEF Gated

(* A commit on GitHub takes every file there is, or the run goes no        *)
(* further.                                                                *)
Committed ==
  /\ Quiet("commit_item") /\ EndsUndelivered
  /\ \/ /\ UNCHANGED repository /\ state'.commit_sha = state.commit_sha
        /\ Commits /\ "status" \notin Faults => pc' \in Closers
     \/ Commits /\ CommitFiles

(* What commit_item may return.                                            *)
LEMMA CommitReturns ==
  ASSUME TypeOK, NEW s \in State, Starts("commit_item"), Return("commit_item", s),
         s.cancel_requested = state.cancel_requested, SameWork(s, state),
         s.retry_counts = state.retry_counts, s.retry_target = state.retry_target,
         s.status \in {"committed", "no_changes", "commit_skipped", "commit_preview",
                       "approval_denied", "failed"}
  PROVE  /\ Quiet("commit_item") /\ EndsUndelivered
         /\ state'.commit_sha = s.commit_sha
         /\ s.status \in {"approval_denied", "failed"} => pc' \in Closers
<1>1. /\ Finish("commit_item", s) /\ Quiet("commit_item")
      /\ state'.commit_sha = s.commit_sha
  BY QuietReturns DEF Node, RetryableNodes
<1>2. state'.status \in {s.status, "failed", "cancelled", "budget_exceeded"}
  BY <1>1 DEF Finish, StopStatus
<1>3. EndsUndelivered
  <2> SUFFICES ASSUME pc' = "end" PROVE state'.status \in Released \ Delivered
    BY DEF EndsUndelivered
  <2>1. state'.status \notin {"committed", "no_changes", "commit_skipped",
                              "commit_preview"}
    BY <1>1, EndRoute DEF Quiet, Returned, Saved
  <2> QED BY <1>2, <2>1
          DEF Released, Delivered, TerminalRunStatuses, PullRequestStatuses
<1>4. ASSUME s.status \in {"approval_denied", "failed"} PROVE pc' \in Closers
  <2>1. \/ pc' \in Closers
        \/ pc' = "retry_backoff" /\ "commit_item" \in RetryableNodes
        \/ Leads("commit_item", pc', state')
    BY <1>1, RouteCases DEF Quiet, Returned, Saved
  <2>2. ~Leads("commit_item", pc', state')
    BY <1>2, <1>4 DEF Leads
  <2> QED BY <2>1, <2>2 DEF RetryableNodes
<1> QED BY <1>1, <1>3, <1>4

(* The statuses commit_item may return.                                    *)
LEMMA CommitStatuses ==
  /\ "committed" \in Status /\ "no_changes" \in Status
  /\ "commit_skipped" \in Status /\ "commit_preview" \in Status
  /\ "approval_denied" \in Status /\ "failed" \in Status
  /\ "transient" \in FailureClass /\ "permanent" \in FailureClass
  BY DEF Status, TerminalRunStatuses, FailureClass

(* The class of a node that did not fail.                                  *)
LEMMA NoFailure == \A class : class = "" => class \in FailureClass
  BY DEF FailureClass

(* Nothing to commit, or no approval to.                                   *)
LEMMA NoCommitStep ==
  ASSUME TypeOK, NoCommit
  PROVE  Committed
<1>1. Starts("commit_item") /\ UNCHANGED repository /\ state \in State
  BY DEF NoCommit, Unchanged, TypeOK
<1>2. \E s \in State :
        /\ Return("commit_item", s) /\ Rewritten(s, state)
        /\ s.status \in {"committed", "no_changes", "commit_skipped",
                         "approval_denied"}
        /\ Commits /\ "status" \notin Faults => s.status = "approval_denied"
  <2>1. CASE /\ state.commit_sha
             /\ Return("commit_item", [state EXCEPT !.status = "committed"])
    <3> DEFINE t == [state EXCEPT !.status = "committed"]
    <3>1. t \in State /\ Rewritten(t, state) /\ t.status = "committed"
      BY <1>1, CommitStatuses, StatusChange
    <3> QED BY <2>1, <3>1 DEF Commits
  <2>2. CASE /\ ~state.commit_sha /\ delivery = "none"
             /\ Return("commit_item", [state EXCEPT !.status = "commit_skipped"])
    <3> DEFINE t == [state EXCEPT !.status = "commit_skipped"]
    <3>1. t \in State /\ Rewritten(t, state) /\ t.status = "commit_skipped"
      BY <1>1, CommitStatuses, StatusChange
    <3> QED BY <2>2, <3>1 DEF Commits
  <2>3. CASE Return("commit_item", [state EXCEPT !.status = "approval_denied"])
    <3> DEFINE t == [state EXCEPT !.status = "approval_denied"]
    <3>1. t \in State /\ Rewritten(t, state) /\ t.status = "approval_denied"
      BY <1>1, CommitStatuses, StatusChange
    <3> QED BY <2>3, <3>1
  <2>4. CASE /\ ~dirty \/ "status" \in Faults
             /\ Return("commit_item", Result(state, "no_changes", ""))
    <3> DEFINE class == ""
               t == Result(state, "no_changes", class)
    <3>1. t = Result(state, "no_changes", class) /\ class \in FailureClass
      BY NoFailure
    <3> HIDE DEF t, class
    <3>2. state \in State /\ "no_changes" \in Status
      BY <1>1, CommitStatuses
    <3>3. t \in State /\ Rewritten(t, state) /\ t.status = "no_changes"
      BY ONLY <3>1, <3>2, ResultState
    <3> QED BY <2>4, <3>1, <3>3 DEF Commits, t, class
  <2> QED BY <2>1, <2>2, <2>3, <2>4 DEF NoCommit
<1>3. PICK s \in State :
        /\ Return("commit_item", s) /\ Rewritten(s, state)
        /\ s.status \in {"committed", "no_changes", "commit_skipped",
                         "approval_denied"}
        /\ Commits /\ "status" \notin Faults => s.status = "approval_denied"
  BY <1>2
<1>4. /\ Quiet("commit_item") /\ EndsUndelivered
      /\ state'.commit_sha = s.commit_sha
      /\ s.status \in {"approval_denied", "failed"} => pc' \in Closers
  BY <1>1, <1>3, CommitReturns DEF Rewritten, SameRun, SameWork, SameItems
<1> QED BY <1>1, <1>3, <1>4 DEF Committed, Rewritten, SameRun

(* commit_item commits, finds nothing to commit, is refused, or fails.     *)
LEMMA CommitItemStep ==
  ASSUME TypeOK, CommitItem
  PROVE  Committed
<1>1. Starts("commit_item") /\ state \in State
  BY DEF CommitItem, TypeOK
<1>2. CASE /\ delivery = "dry_run" /\ UNCHANGED repository
           /\ Return("commit_item", Result(state, "commit_preview", ""))
  <2>1. PICK s \in State : /\ Return("commit_item", s) /\ Rewritten(s, state)
                           /\ s.status = "commit_preview"
    <3> DEFINE class == ""
               t == Result(state, "commit_preview", class)
    <3>1. t = Result(state, "commit_preview", class) /\ class \in FailureClass
      BY NoFailure
    <3> HIDE DEF t, class
    <3>2. state \in State /\ "commit_preview" \in Status
      BY <1>1, CommitStatuses
    <3>3. t \in State /\ Rewritten(t, state) /\ t.status = "commit_preview"
      BY ONLY <3>1, <3>2, ResultState
    <3> QED BY <1>2, <3>1, <3>3 DEF t, class
  <2>2. Quiet("commit_item") /\ EndsUndelivered /\ state'.commit_sha = s.commit_sha
    BY <1>1, <2>1, CommitReturns DEF Rewritten, SameRun, SameWork, SameItems
  <2> QED BY <1>2, <2>1, <2>2 DEF Committed, Commits, Rewritten, SameRun
<1>3. CASE \E class \in {"transient", "permanent"} :
             Return("commit_item", Result(state, "failed", class))
  <2>1. PICK s \in State : /\ Return("commit_item", s) /\ Rewritten(s, state)
                           /\ s.status = "failed"
    <3>1. PICK class \in {"transient", "permanent"} :
            Return("commit_item", Result(state, "failed", class))
      BY <1>3
    <3> DEFINE t == Result(state, "failed", class)
    <3>2. class \in FailureClass
      BY CommitStatuses
    <3>3. t = Result(state, "failed", class)
      OBVIOUS
    <3> HIDE DEF t
    <3>4. t \in State /\ Rewritten(t, state) /\ t.status = "failed"
      BY <1>1, <3>2, <3>3, CommitStatuses, ResultState
    <3> QED BY <3>1, <3>3, <3>4
  <2>2. /\ Quiet("commit_item") /\ EndsUndelivered /\ pc' \in Closers
        /\ state'.commit_sha = s.commit_sha
    BY <1>1, <2>1, CommitReturns DEF Rewritten, SameRun, SameWork, SameItems
  <2>3. UNCHANGED repository \/ (Commits /\ CommitFiles)
    BY DEF CommitItem, Unchanged
  <2> QED BY <2>1, <2>2, <2>3 DEF Committed, Rewritten, SameRun
<1>4. CASE /\ Commits /\ CommitFiles
           /\ \E sha \in BOOLEAN :
                Return("commit_item",
                  [Result(state, "committed", "") EXCEPT !.commit_sha = sha])
  <2>1. PICK sha \in BOOLEAN :
          Return("commit_item",
            [Result(state, "committed", "") EXCEPT !.commit_sha = sha])
    BY <1>4
  <2> DEFINE class == ""
             result == Result(state, "committed", class)
             s == [result EXCEPT !.commit_sha = sha]
  <2>2. result = Result(state, "committed", class) /\ class \in FailureClass
    BY NoFailure
  <2> HIDE DEF result, class
  <2>3. result \in State /\ Rewritten(result, state) /\ result.status = "committed"
    <3>1. state \in State /\ "committed" \in Status
      BY <1>1, CommitStatuses
    <3> QED BY ONLY <2>2, <3>1, ResultState
  <2>4. /\ s \in State /\ s.cancel_requested = state.cancel_requested
        /\ SameWork(s, state) /\ s.retry_counts = state.retry_counts
        /\ s.retry_target = state.retry_target /\ s.status = "committed"
    BY <2>3 DEF State, Rewritten, SameRun, SameWork, SameItems
  <2>5. Return("commit_item", s)
    BY <2>1, <2>2 DEF class
  <2> HIDE DEF s
  <2>6. Quiet("commit_item") /\ EndsUndelivered
    BY <1>1, <2>4, <2>5, CommitReturns
  <2> QED BY <1>4, <2>6 DEF Committed
<1> QED BY <1>2, <1>3, <1>4 DEF CommitItem, Unchanged

(* On GitHub only a branch that was pushed goes on to its pull request.    *)
BranchPushed ==
  /\ Quiet("push_node") /\ state'.commit_sha = state.commit_sha
  /\ UNCHANGED repository \/ (delivery = "github" /\ PushBranch)
  /\ pc' = "pull_request_node" /\ delivery = "github" => pushed'
  /\ pc' = "end" => /\ state'.status \in Released
                    /\ state'.status \in Delivered => delivery = "none"

(* On GitHub only a run with a pull request is delivered.                  *)
PullRequestOpened ==
  /\ Quiet("pull_request_node") /\ state'.commit_sha = state.commit_sha
  /\ UNCHANGED repository \/ (delivery = "github" /\ LooksUpNone /\ CreatePullRequest)
  /\ pc' = "end" => /\ state'.status \in Released
                    /\ delivery = "github" /\ state'.status \in Delivered => prs' # 0

(* The statuses of the two nodes of the handoff.                           *)
LEMMA HandoffStatuses ==
  /\ PullRequestStatuses \cup {"pull_request_preview", "branch_pushed",
       "branch_push_preview", "failed", "complete", "approval_denied"}
     \subseteq Status \ {"retry_scheduled"}
  /\ PullRequestStatuses \cup {"pull_request_preview", "failed", "complete",
       "approval_denied", "cancelled", "budget_exceeded"} \subseteq Released
  /\ {"failed", "approval_denied", "cancelled", "budget_exceeded",
      "branch_pushed", "branch_push_preview"} \cap Delivered = {}
  BY DEF Status, TerminalRunStatuses, PullRequestStatuses, Released, Delivered

(* Nothing to hand over, or no approval to.                                *)
LEMMA NoHandoffStep ==
  ASSUME TypeOK, NEW n \in {"push_node", "pull_request_node"}, NoHandoff(n)
  PROVE  IF n = "push_node" THEN BranchPushed ELSE PullRequestOpened
<1> DEFINE status == IF delivery = "none" THEN "complete" ELSE "approval_denied"
           s == [state EXCEPT !.status = status]
<1>1. /\ Starts(n) /\ Return(n, s) /\ UNCHANGED repository /\ state \in State
      /\ n \in Node
  BY DEF NoHandoff, Unchanged, TypeOK, Node, RetryableNodes
<1>2. status \in Status \ {"retry_scheduled"}
  BY HandoffStatuses
<1>3. s \in State /\ Rewritten(s, state) /\ s.status = status
  BY <1>1, <1>2, StatusChange
<1> HIDE DEF s
<1>4. Finish(n, s) /\ Quiet(n) /\ state'.commit_sha = state.commit_sha
  BY <1>1, <1>2, <1>3, QuietReturns DEF Rewritten, SameRun, SameWork, SameItems
<1>5. state'.status \in {status, "failed", "cancelled", "budget_exceeded"}
  BY <1>3, <1>4 DEF Finish, StopStatus
<1>6. /\ state'.status \in Released
      /\ state'.status \in Delivered => delivery = "none"
  BY <1>5, HandoffStatuses
<1>7. ASSUME n = "push_node" PROVE pc' # "pull_request_node"
  <2>1. pc' = route_after_push(state')
    BY <1>4, <1>7, RouteOf DEF Finish
  <2>2. state'.status \notin {"branch_pushed", "branch_push_preview"}
    BY <1>5
  <2> QED BY <2>1, <2>2 DEF route_after_push
<1> QED BY <1>1, <1>4, <1>6, <1>7 DEF BranchPushed, PullRequestOpened

(* push_node pushes, only shows what it would push, is refused, or fails.  *)
LEMMA PushStep ==
  ASSUME TypeOK, PushNode
  PROVE  BranchPushed
<1> DEFINE good == IF delivery = "github" THEN "branch_pushed" ELSE "branch_push_preview"
<1>1. PICK reply \in AgentReply :
        /\ Return("push_node", Answer(state, "push_node", reply, good, "failed"))
        /\ \/ reply # "permanent" /\ delivery = "github" /\ PushBranch
           \/ (reply # "ok" \/ delivery = "dry_run") /\ UNCHANGED repository
  BY DEF PushNode, Handoff, Unchanged
<1>2. Starts("push_node") /\ state \in State
  BY DEF PushNode, TypeOK
<1>3. /\ good \in Status \ {"retry_scheduled"}
      /\ "failed" \in Status \ {"retry_scheduled"}
      /\ good \in {"branch_pushed", "branch_push_preview"}
  BY HandoffStatuses
<1> HIDE DEF good
<1>4. /\ AgentFinished("push_node", state, reply, good, "failed")
      /\ Quiet("push_node") /\ state'.commit_sha = state.commit_sha
  BY <1>1, <1>2, <1>3, QuietAnswers DEF SameWork, SameItems, RetryableNodes
<1>5. ASSUME pc' = "end" PROVE state'.status \in Released \ Delivered
  <2>1. /\ state'.status # "retry_scheduled"
        /\ state'.status \notin {"branch_pushed", "branch_push_preview"}
    BY <1>4, <1>5, EndRoute DEF Quiet, Returned, Saved, Backoff
  <2>2. state'.status \in {"failed", "cancelled", "budget_exceeded"}
    BY <1>3, <1>4, <2>1 DEF AgentFinished, StopReported
  <2> QED BY <2>2, HandoffStatuses
<1>6. ASSUME pc' = "pull_request_node", delivery = "github" PROVE pushed'
  <2>1. state'.status \in {"branch_pushed", "branch_push_preview"}
    <3>1. pc' = route_after_push(state')
      BY <1>4, RouteOf DEF Quiet, Returned, Saved
    <3> QED BY <1>6, <3>1 DEF route_after_push
  <2>2. reply = "ok"
    BY <1>4, <2>1 DEF AgentFinished, StopReported
  <2> QED BY <1>1, <1>6, <2>2 DEF PushBranch
<1> QED BY <1>1, <1>4, <1>5, <1>6 DEF BranchPushed

(* pull_request_node opens a pull request, finds one, only shows it, is    *)
(* refused, or fails.                                                      *)
LEMMA PullRequestStep ==
  ASSUME TypeOK, PullRequestNode
  PROVE  PullRequestOpened
<1>1. PICK reply \in AgentReply,
           good \in PullRequestStatuses \cup {"pull_request_preview"} :
        /\ Return("pull_request_node",
                  Answer(state, "pull_request_node", reply, good, "failed"))
        /\ IF LooksUpNone /\ delivery = "github"
           THEN \/ reply # "permanent" /\ CreatePullRequest
                \/ reply # "ok" /\ UNCHANGED repository
           ELSE UNCHANGED repository
  BY DEF PullRequestNode, Handoff, Unchanged
<1>2. Starts("pull_request_node") /\ state \in State /\ prs \in Nat
  BY DEF PullRequestNode, TypeOK
<1>3. /\ good \in Status \ {"retry_scheduled"} /\ good \in Released
      /\ "failed" \in Status \ {"retry_scheduled"}
  BY HandoffStatuses
<1>4. /\ AgentFinished("pull_request_node", state, reply, good, "failed")
      /\ Quiet("pull_request_node") /\ state'.commit_sha = state.commit_sha
  BY <1>1, <1>2, <1>3, QuietAnswers DEF SameWork, SameItems, RetryableNodes
<1>5. ASSUME pc' = "end" PROVE /\ state'.status \in Released
                               /\ state'.status \in Delivered => reply = "ok"
  <2>1. state'.status # "retry_scheduled"
    BY <1>4, <1>5, EndRoute DEF Quiet, Returned, Saved, Backoff
  <2>2. \/ state'.status \in {"failed", "cancelled", "budget_exceeded"}
        \/ reply = "ok" /\ state'.status = good
    BY <1>4, <2>1 DEF AgentFinished, StopReported
  <2> QED BY <1>3, <2>2, HandoffStatuses
<1>6. ASSUME reply = "ok", delivery = "github" PROVE prs' # 0
  BY <1>1, <1>2, <1>6 DEF LooksUpNone, CreatePullRequest, repository
<1>7. UNCHANGED repository \/ (delivery = "github" /\ LooksUpNone /\ CreatePullRequest)
  BY <1>1
<1> QED BY <1>4, <1>5, <1>6, <1>7 DEF PullRequestOpened
-----------------------------------------------------------------------------
(* The wrapper and the world around the nodes.                             *)
SameCheckpoint ==
  /\ state' \in State /\ SameWork(state', state)
  /\ state'.retry_counts = state.retry_counts
  /\ state'.retry_target = state.retry_target
  /\ state'.commit_sha = state.commit_sha

(* Another owner has the lease, the run is stopped, or the node raised.    *)
Halted ==
  /\ pc \in Node /\ pc' \in Closers /\ last' = pc /\ SameCheckpoint
  /\ state'.cancel_requested = state.cancel_requested
  /\ UNCHANGED <<spent, mishaps, delivery>>
  /\ UNCHANGED repository \/ (~StopReason(state, spent) /\ Effect(pc))
  /\ EndsUndelivered
  /\ pc' = "stop_run" => RunStopped(state', spent')
  /\ pc' = "end" /\ state.cancel_requested =>
       state'.status \in {"cancelled", "run_locked"}

(* The worktree could not be prepared: the router asks what is left of the *)
(* node's earlier results.                                                 *)
WorkspaceFailed ==
  /\ "workspace" \in Faults /\ Saved(pc) /\ SameCheckpoint
  /\ mishaps < MaxMishaps /\ mishaps' = mishaps + 1
  /\ pc' # "retry_backoff" /\ EndsUndelivered /\ UNCHANGED repository

Crashed ==
  /\ pc \in Node /\ ~StopReason(state, spent) /\ Effect(pc)
  /\ mishaps < MaxMishaps /\ mishaps' = mishaps + 1
  /\ UNCHANGED <<control, spent, delivery>>

Cancelled ==
  /\ pc # "end" /\ pc' \in {pc, "stop_run", "end"} /\ SameCheckpoint
  /\ state'.status = "cancelled" /\ state'.cancel_requested
  /\ UNCHANGED <<last, spent, repository, mishaps, delivery>>

TimeRanOut ==
  /\ pc # "end" /\ spent'
  /\ UNCHANGED <<control, repository, mishaps, delivery>>

(* A node whose lease another process holds.                               *)
LEMMA BusyStep ==
  ASSUME TypeOK, NEW n \in Node, Busy(n)
  PROVE  Halted
<1> DEFINE t == Result(state, "run_locked", "guardrail")
<1>1. /\ pc = n /\ state' = t /\ last' = n /\ pc' = Route(n, state', spent)
      /\ UNCHANGED <<spent, mishaps, delivery>> /\ UNCHANGED repository
      /\ state \in State
  BY DEF Busy, Checkpoint, Save, Unchanged, TypeOK
<1>2. "run_locked" \in Status /\ "guardrail" \in FailureClass
  BY DEF Status, StopStatuses, FailureClass
<1>3. t = Result(state, "run_locked", "guardrail")
  OBVIOUS
<1> HIDE DEF t
<1>4. t \in State /\ Rewritten(t, state) /\ t.status = "run_locked"
  BY <1>1, <1>2, <1>3, ResultState
<1>5. state'.status = "run_locked" /\ state'.status \in StopStatuses
  BY <1>1, <1>4 DEF StopStatuses
<1>6. pc' \in {"stop_run", "end"}
  BY <1>1, <1>5, StoppedRoute
<1>7. RunStopped(state', spent')
  BY <1>5 DEF RunStopped
<1>8. state'.status \in Released \ Delivered
  BY <1>5 DEF Released, Delivered, PullRequestStatuses
<1>9. SameCheckpoint /\ state'.cancel_requested = state.cancel_requested
  BY <1>1, <1>4 DEF SameCheckpoint, Rewritten, SameRun, SameWork, SameItems
<1> QED BY <1>1, <1>5, <1>6, <1>7, <1>8, <1>9 DEF Halted, Closers, EndsUndelivered

(* A node that finds its run stopped before it starts.                     *)
LEMMA StopEarlyStep ==
  ASSUME TypeOK, NEW n \in Node, StopEarly(n)
  PROVE  Halted
<1> DEFINE t == [state EXCEPT !.status = StopStatus(state)]
<1>1. /\ pc = n /\ state' = t /\ last' = n /\ pc' = Route(n, state', spent)
      /\ UNCHANGED <<spent, mishaps, delivery>> /\ UNCHANGED repository
      /\ state \in State
  BY DEF StopEarly, Checkpoint, Save, Unchanged, TypeOK
<1>2. StopStatus(state) \in Status
  BY DEF StopStatus, Status, StopStatuses
<1>3. t \in State /\ Rewritten(t, state) /\ t.status = StopStatus(state)
  BY <1>1, <1>2, StatusChange
<1> HIDE DEF t
<1>4. /\ state'.status \in StopStatuses
      /\ state'.status \in {"cancelled", "budget_exceeded"}
      /\ state.cancel_requested => state'.status = "cancelled"
  BY <1>1, <1>3 DEF StopStatus, StopStatuses
<1>5. pc' \in {"stop_run", "end"}
  BY <1>1, <1>4, StoppedRoute
<1>6. RunStopped(state', spent')
  BY <1>4 DEF RunStopped
<1>7. state'.status \in Released \ Delivered
  BY <1>4 DEF Released, Delivered, PullRequestStatuses, TerminalRunStatuses
<1>8. SameCheckpoint /\ state'.cancel_requested = state.cancel_requested
  BY <1>1, <1>3 DEF SameCheckpoint, Rewritten, SameRun, SameWork, SameItems
<1> QED BY <1>1, <1>4, <1>5, <1>6, <1>7, <1>8 DEF Halted, Closers, EndsUndelivered

(* A node that raises, before or after its effect.                         *)
LEMMA RaiseStep ==
  ASSUME TypeOK, NEW n \in Node, Raise(n)
  PROVE  Halted
<1>1. PICK class \in {"transient", "permanent"} :
        state' = [Result(state, "failed", class) EXCEPT
                    !.build_completed = @ /\ n # "building"]
  BY DEF Raise
<1>2. /\ pc = n /\ last' = n /\ pc' \in {"failed_build", "failed_run"}
      /\ UNCHANGED <<spent, mishaps, delivery>> /\ state \in State
      /\ UNCHANGED repository \/ (~StopReason(state, spent) /\ Effect(n))
  BY DEF Raise, Starts, Unchanged, TypeOK
<1> DEFINE t == Result(state, "failed", class)
<1>3. class \in FailureClass /\ "failed" \in Status
  BY CommitStatuses
<1>4. t = Result(state, "failed", class)
  OBVIOUS
<1>5. state' = [t EXCEPT !.build_completed = @ /\ n # "building"]
  BY <1>1
<1> HIDE DEF t
<1>6. t \in State /\ Rewritten(t, state) /\ t.status = "failed"
  BY ONLY <1>2, <1>3, <1>4, ResultState
<1>7. (t.build_completed /\ n # "building") \in BOOLEAN
  OBVIOUS
<1>8. SameCheckpoint /\ state'.cancel_requested = state.cancel_requested
  BY <1>5, <1>6, <1>7
  DEF State, SameCheckpoint, Rewritten, SameRun, SameWork, SameItems
<1> QED BY <1>2, <1>8 DEF Halted, Closers, EndsUndelivered

(* A node whose worktree cannot be prepared.                               *)
LEMMA WorkspaceStep ==
  ASSUME TypeOK, NEW n \in Node, WorkspaceFails(n)
  PROVE  WorkspaceFailed
<1> DEFINE t == Result(state, "preflight_failed", "guardrail")
<1>1. /\ pc = n /\ state' = t /\ last' = n /\ pc' = Route(n, state', spent')
      /\ UNCHANGED <<spent, delivery>> /\ UNCHANGED repository
      /\ state \in State /\ spent' \in BOOLEAN
      /\ "workspace" \in Faults /\ mishaps < MaxMishaps /\ mishaps' = mishaps + 1
  BY DEF WorkspaceFails, Save, Unchanged, TypeOK
<1>2. "preflight_failed" \in Status /\ "guardrail" \in FailureClass
  BY DEF Status, TerminalRunStatuses, FailureClass
<1>3. t = Result(state, "preflight_failed", "guardrail")
  OBVIOUS
<1> HIDE DEF t
<1>4. t \in State /\ Rewritten(t, state) /\ t.status = "preflight_failed"
  BY <1>1, <1>2, <1>3, ResultState
<1>5. pc' # "retry_backoff"
  BY <1>1, <1>4, RouteCases, LeadsToNode DEF Closers, Backoff
<1>6. EndsUndelivered
  BY <1>1, <1>4
  DEF EndsUndelivered, Released, Delivered, PullRequestStatuses, TerminalRunStatuses
<1>7. SameCheckpoint /\ state'.cancel_requested = state.cancel_requested
  BY <1>1, <1>4 DEF SameCheckpoint, Rewritten, SameRun, SameWork, SameItems
<1> QED BY <1>1, <1>5, <1>6, <1>7 DEF WorkspaceFailed, Saved, SameCheckpoint

(* The request to cancel, routed from the last node that was saved.        *)
LEMMA CancelStep ==
  ASSUME TypeOK, Cancel
  PROVE  Cancelled
<1>1. /\ pc # "end" /\ state \in State /\ last \in Node \cup {""}
      /\ state' = [state EXCEPT !.cancel_requested = TRUE, !.status = "cancelled"]
      /\ pc' = IF last = "" THEN pc ELSE Route(last, state', spent)
      /\ UNCHANGED <<last, spent, repository, mishaps, delivery>>
  BY DEF Cancel, TypeOK
<1>2. "cancelled" \in Status
  BY DEF Status, StopStatuses
<1>3. /\ SameCheckpoint
      /\ state'.status = "cancelled" /\ state'.cancel_requested
  BY <1>1, <1>2 DEF State, SameCheckpoint, SameWork, SameItems
<1>4. pc' \in {pc, "stop_run", "end"}
  <2>1. state'.status \in StopStatuses
    BY <1>3 DEF StopStatuses
  <2>2. CASE last = ""
    BY <1>1, <2>2
  <2>3. CASE last # ""
    <3>1. last \in Node /\ pc' = Route(last, state', spent)
      BY <1>1, <2>3
    <3> QED BY <2>1, <3>1, StoppedRoute
  <2> QED BY <2>2, <2>3
<1> QED BY <1>1, <1>3, <1>4 DEF Cancelled

(* Every step is one of these.                                             *)
LEMMA StepCases ==
  ASSUME TypeOK, [Next]_vars
  PROVE  \/ Planned \/ Built \/ Reviewed \/ Validated \/ Debugged \/ Gated
         \/ Committed \/ BranchPushed \/ PullRequestOpened
         \/ \E n \in QuietNodes : Passed(n)
         \/ Halted \/ WorkspaceFailed \/ Crashed \/ Cancelled \/ TimeRanOut
         \/ UNCHANGED vars
<1>1. ASSUME NodeStep
      PROVE  \/ Planned \/ Built \/ Reviewed \/ Validated \/ Debugged \/ Gated
             \/ Committed \/ BranchPushed \/ PullRequestOpened
             \/ \E n \in QuietNodes : Passed(n)
             \/ Halted \/ WorkspaceFailed
  <2>1. CASE Preflight \/ Learning \/ ItemRouter
    BY <2>1, PreflightStep, LearningStep, ItemRouterStep DEF QuietNodes
  <2>2. CASE Planning \/ Building \/ CriticAuditor \/ Validation \/ Debugger
    BY <2>2, PlanningStep, BuildingStep, CriticStep, ValidationStep, DebuggerStep
  <2>3. CASE PolicyGate \/ NoCommit \/ CommitItem \/ PushNode \/ PullRequestNode
    BY <2>3, PolicyGateStep, NoCommitStep, CommitItemStep, PushStep, PullRequestStep
  <2>4. CASE \E mode \in {"learn", "implement"} : Intake(mode)
    BY <2>4, IntakeStep DEF QuietNodes
  <2>5. CASE \E n \in {"push_node", "pull_request_node"} : NoHandoff(n)
    BY <2>5, NoHandoffStep
  <2>6. CASE \E n \in {"retry_backoff", "attempt_limit", "failed_build",
                       "failed_run", "stop_run"} : ClosingNode(n)
    BY <2>6, ClosingStep DEF QuietNodes
  <2>7. CASE \E n \in Node : Busy(n) \/ WorkspaceFails(n) \/ StopEarly(n) \/ Raise(n)
    BY <2>7, BusyStep, WorkspaceStep, StopEarlyStep, RaiseStep
  <2> QED BY <1>1, <2>1, <2>2, <2>3, <2>4, <2>5, <2>6, <2>7 DEF NodeStep
<1>2. ASSUME NEW n \in Node, Crash(n) PROVE Crashed
  BY <1>2 DEF Crash, Crashed, Starts
<1>3. ASSUME BudgetSpent PROVE TimeRanOut
  BY <1>3 DEF BudgetSpent, TimeRanOut
<1> QED BY <1>1, <1>2, <1>3, CancelStep DEF Next
-----------------------------------------------------------------------------
(* Type correctness.                                                       *)
LEMMA SavedTypes ==
  ASSUME TypeOK, NEW n, Saved(n)
  PROVE  /\ pc' \in Node \cup {"end"} /\ last' \in Node \cup {""}
         /\ state' \in State /\ spent' \in BOOLEAN /\ delivery' \in Deliveries
  BY RouteCases, LeadsToNode DEF Saved, Closers, Node, TypeOK

(* Counting up keeps a function of numbers one.                            *)
LEMMA CountsUp ==
  ASSUME NEW S, NEW f \in [S -> Nat], NEW x \in S
  PROVE  [f EXCEPT ![x] = @ + 1] \in [S -> Nat]
<1>1. f[x] + 1 \in Nat
  OBVIOUS
<1> QED BY <1>1

(* What the nodes do to the repository keeps its types.                    *)
LEMMA RepositoryTypes ==
  ASSUME TypeOK,
         \/ UNCHANGED repository \/ RunBuilder \/ CommitFiles \/ PushBranch
         \/ CreatePullRequest \/ PassCheck("validation") \/ PassCheck("policy")
  PROVE  /\ dirty' \in BOOLEAN /\ checked' \subseteq {"validation", "policy"}
         /\ commits' \in [Item -> Nat] /\ builds' \in [Item -> Nat]
         /\ pushed' \in BOOLEAN /\ prs' \in Nat
<1>1. /\ dirty \in BOOLEAN /\ checked \subseteq {"validation", "policy"}
      /\ commits \in [Item -> Nat] /\ builds \in [Item -> Nat]
      /\ pushed \in BOOLEAN /\ prs \in Nat
  BY DEF TypeOK
<1>0. state.current_item_index \in Item
  BY StateFields DEF TypeOK
<1>2. CASE UNCHANGED repository
  BY ONLY <1>1, <1>2 DEF repository
<1>3. CASE RunBuilder
  <2>1. [builds EXCEPT ![state.current_item_index] = @ + 1] \in [Item -> Nat]
    BY <1>1, <1>0, CountsUp
  <2> QED BY ONLY <1>1, <1>3, <2>1 DEF RunBuilder
<1>4. CASE CommitFiles
  <2>1. [commits EXCEPT ![state.current_item_index] = @ + 1] \in [Item -> Nat]
    BY <1>1, <1>0, CountsUp
  <2> QED BY ONLY <1>1, <1>4, <2>1 DEF CommitFiles
<1>5. CASE PushBranch
  BY ONLY <1>1, <1>5 DEF PushBranch
<1>7. CASE CreatePullRequest
  <2>1. prs + 1 \in Nat
    BY <1>1
  <2> QED BY ONLY <1>1, <1>7, <2>1 DEF CreatePullRequest
<1>6. CASE PassCheck("validation") \/ PassCheck("policy")
  BY ONLY <1>1, <1>6 DEF PassCheck
<1> QED BY <1>2, <1>3, <1>4, <1>5, <1>6, <1>7

(* No step loses the types.                                                *)
LEMMA TypeStep ==
  ASSUME TypeOK, [Next]_vars
  PROVE  TypeOK'
<1>1. /\ \/ UNCHANGED repository \/ RunBuilder \/ CommitFiles \/ PushBranch
         \/ CreatePullRequest \/ PassCheck("validation") \/ PassCheck("policy")
      /\ mishaps' = mishaps \/ (mishaps < MaxMishaps /\ mishaps' = mishaps + 1)
      /\ \/ \E n : Saved(n)
         \/ /\ pc' \in {pc} \cup Closers /\ last' \in {last, pc} \ {"end"}
            /\ state' \in State /\ spent' \in BOOLEAN /\ delivery' = delivery
  <2>1. CASE Planned \/ Built \/ Reviewed \/ Validated \/ Debugged
    BY <2>1 DEF Planned, Built, Reviewed, Validated, Debugged, Returned
  <2>2. CASE Gated \/ Committed \/ BranchPushed \/ PullRequestOpened
    BY <2>2 DEF Gated, Committed, BranchPushed, PullRequestOpened, Quiet, Returned
  <2>3. CASE \E n \in QuietNodes : Passed(n)
    BY <2>3 DEF Passed, Quiet, Returned
  <2>4. CASE WorkspaceFailed
    BY <2>4 DEF WorkspaceFailed
  <2>5. CASE Halted
    <3>1. pc # "end" /\ spent \in BOOLEAN
      BY <2>5 DEF Halted, TypeOK, Node, RetryableNodes
    <3> QED BY <2>5, <3>1 DEF Halted, SameCheckpoint, Effect
  <2>6. CASE Crashed
    <3>1. last # "end" /\ spent \in BOOLEAN /\ state \in State
      BY DEF TypeOK, Node, RetryableNodes
    <3> QED BY <2>6, <3>1 DEF Crashed, control, Effect
  <2>7. CASE Cancelled
    <3>1. last # "end" /\ spent \in BOOLEAN
      BY DEF TypeOK, Node, RetryableNodes
    <3> QED BY <2>7, <3>1 DEF Cancelled, Closers, SameCheckpoint
  <2>8. CASE TimeRanOut
    <3>1. last # "end" /\ spent' \in BOOLEAN /\ state \in State
      BY <2>8 DEF TimeRanOut, TypeOK, Node, RetryableNodes
    <3> QED BY <2>8, <3>1 DEF TimeRanOut, control
  <2>9. CASE UNCHANGED vars
    <3>1. last # "end" /\ spent \in BOOLEAN /\ state \in State
      BY DEF TypeOK, Node, RetryableNodes
    <3> QED BY <2>9, <3>1 DEF vars, control
  <2> QED
    BY <2>1, <2>2, <2>3, <2>4, <2>5, <2>6, <2>7, <2>8, <2>9, StepCases
<1>2. /\ pc' \in Node \cup {"end"} /\ last' \in Node \cup {""}
      /\ state' \in State /\ spent' \in BOOLEAN /\ delivery' \in Deliveries
  <2>1. CASE \E n : Saved(n)
    BY <2>1, SavedTypes
  <2>2. CASE /\ pc' \in {pc} \cup Closers /\ last' \in {last, pc} \ {"end"}
             /\ state' \in State /\ spent' \in BOOLEAN /\ delivery' = delivery
    BY <2>2 DEF TypeOK, Closers, Node
  <2> QED BY <1>1, <2>1, <2>2
<1>3. mishaps' \in 0..MaxMishaps
  <2>1. mishaps \in 0..MaxMishaps /\ MaxMishaps \in Nat
    BY WorkflowConstants DEF TypeOK
  <2> QED BY ONLY <1>1, <2>1
<1> QED BY <1>1, <1>2, <1>3, RepositoryTypes DEF TypeOK

(* A run starts well typed.                                                *)
LEMMA InitTypes == Init => TypeOK
<1> SUFFICES ASSUME Init PROVE TypeOK
  OBVIOUS
<1>1. state \in State
  <2>1. /\ 1 \in Item /\ 0 \in 0..MaxAttempts /\ 0 \in 0..MaxTotalAttempts
        /\ "" \in Status
    BY WorkflowConstants DEF Item, Status
  <2>2. "" \in FailureClass
    BY DEF FailureClass
  <2>3. /\ [n \in RetryableNodes |-> 0] \in [RetryableNodes -> Nat]
        /\ {[passes |-> p, validation |-> p] : p \in BOOLEAN}
             \subseteq [passes : BOOLEAN, validation : BOOLEAN]
    OBVIOUS
  <2> DEFINE started == {[passes |-> p, validation |-> p] : p \in BOOLEAN}
  <2>4. state \in
          [status : {""}, failure_class : {""},
           workflow_mode : {"none", "implement"},
           prd_items : [Item -> started],
           current_item_index : {1}, current_item_id : {NoItem},
           attempts_count : {0}, total_attempts : {0},
           critic_passed : {FALSE}, build_completed : {FALSE},
           validation_passed : {FALSE}, policy_gate_passed : {FALSE},
           commit_sha : {FALSE}, cancel_requested : {FALSE},
           retry_counts : {[n \in RetryableNodes |-> 0]}, retry_target : {""}]
    BY DEF Init
  <2>5. started \subseteq [passes : BOOLEAN, validation : BOOLEAN]
    BY <2>3
  <2> HIDE DEF started
  <2>6. [Item -> started] \subseteq [Item -> [passes : BOOLEAN, validation : BOOLEAN]]
    BY <2>5
  <2> QED BY ONLY <2>1, <2>2, <2>3, <2>4, <2>6 DEF State
<1>2. /\ pc \in Node /\ last \in {""} /\ delivery \in Deliveries
  BY DEF Init, Node, RetryableNodes
<1>3. mishaps \in 0..MaxMishaps
  <2>1. mishaps = 0
    BY DEF Init
  <2> QED BY ONLY <2>1, WorkflowConstants
<1> QED BY <1>1, <1>2, <1>3 DEF Init, TypeOK

(* Whatever fails, the saved state, the node a run is at and the record of *)
(* its effects stay in their ranges; no attempt counter passes its limit.  *)
THEOREM WorkflowTypes == Spec => []TypeOK
<1>1. TypeOK /\ [Next]_vars => TypeOK'
  BY TypeStep
<1> QED BY InitTypes, <1>1, PTL DEF Spec
-----------------------------------------------------------------------------
(* Steps of the graph, and the others.                                     *)
LEMMA StepKinds ==
  ASSUME TypeOK, [Next]_vars
  PROVE  \/ Returned(pc) \/ WorkspaceFailed \/ Halted \/ Crashed \/ Cancelled
         \/ TimeRanOut \/ UNCHANGED vars
<1>1. CASE \E n : Returned(n)
  BY <1>1 DEF Returned, Saved
<1> QED BY <1>1, StepCases
        DEF Planned, Built, Reviewed, Validated, Debugged, Gated, Committed,
            BranchPushed, PullRequestOpened, Passed, Quiet

(* What a step does to the repository it does from a node that was started *)
(* without a reason to stop.                                               *)
EffectOf(n) ==
  \/ n = "building" /\ NeedsBuild(state) /\ RunBuilder
  \/ n = "commit_item" /\ Commits /\ CommitFiles
  \/ n = "push_node" /\ delivery = "github" /\ PushBranch
  \/ n = "pull_request_node" /\ delivery = "github" /\ LooksUpNone /\ CreatePullRequest
  \/ n = "validation" /\ PassCheck("validation")
  \/ n = "pre_commit_policy_gate" /\ PassCheck("policy")

(* Only a node whose run was not stopped changes the repository, and each  *)
(* node changes it in one way.                                             *)
LEMMA EffectCases ==
  ASSUME TypeOK, [Next]_vars
  PROVE  UNCHANGED repository \/ (~StopReason(state, spent) /\ EffectOf(pc))
<1>1. CASE Planned \/ Built \/ Reviewed \/ Validated \/ Debugged
  BY <1>1
  DEF Planned, Built, Reviewed, Validated, Debugged, Returned, Saved, EffectOf
<1>2. CASE Gated \/ Committed \/ BranchPushed \/ PullRequestOpened
  BY <1>2
  DEF Gated, Committed, BranchPushed, PullRequestOpened, Quiet, Returned, Saved, EffectOf
<1>3. CASE (\E n \in QuietNodes : Passed(n)) \/ WorkspaceFailed
  BY <1>3 DEF Passed, WorkspaceFailed
<1>4. CASE Halted \/ Crashed
  BY <1>4 DEF Halted, Crashed, Effect, EffectOf
<1>5. CASE Cancelled \/ TimeRanOut \/ UNCHANGED vars
  BY <1>5 DEF Cancelled, TimeRanOut, vars
<1> QED BY <1>1, <1>2, <1>3, <1>4, <1>5, StepCases

(* A run that is cancelled, or out of budget, does nothing more to the     *)
(* repository: the wrapper looks before every node.                        *)
THEOREM StoppedRunsDoNothing == Spec => StoppedHasNoEffect
<1>1. TypeOK /\ [Next]_vars =>
        [StopReason(state, spent) => UNCHANGED repository]_vars
  BY EffectCases
<1> QED BY <1>1, WorkflowTypes, PTL DEF Spec, StoppedHasNoEffect
-----------------------------------------------------------------------------
(* Failed builds are attempts, so that an item with attempts left is one   *)
(* whose builds may be retried.                                            *)
RetryCounted == BuildRetries(state) <= state.attempts_count
RetryInv == TypeOK /\ RetryCounted /\ RetryIsDue

(* The retries of building are among the attempts of the item.             *)
LEMMA RetryCountedStep ==
  ASSUME TypeOK, RetryCounted, [Next]_vars
  PROVE  RetryCounted'
<1>1. /\ BuildRetries(state) \in Nat /\ state.attempts_count \in Nat
      /\ BuildRetries(state) <= state.attempts_count
  <2>1. /\ state.retry_counts \in [RetryableNodes -> Nat]
        /\ state.attempts_count \in 0..MaxAttempts
    BY StateFields DEF TypeOK
  <2> QED BY <2>1, WorkflowConstants DEF BuildRetries, RetryableNodes, RetryCounted
<1>2. BuildRetries(state') \in Nat
  BY TypeStep, StateFields DEF TypeOK, BuildRetries, RetryableNodes
<1>3. CASE BuildRetries(state') = BuildRetries(state)
           /\ state'.attempts_count = state.attempts_count
  BY <1>1, <1>3 DEF RetryCounted, BuildRetries
<1>4. CASE Planned
  <2>1. CASE state'.attempts_count = 0 /\ BuildRetries(state') = 0
    BY <2>1 DEF RetryCounted, BuildRetries
  <2> QED BY <1>3, <1>4, <2>1 DEF Planned, Picked, SameWork, SameItems
<1>5. CASE Built
  <2>1. CASE /\ state'.attempts_count = state.attempts_count + 1
             /\ BuildRetries(state') <= BuildRetries(state) + 1
    <3>1. BuildRetries(state') <= state'.attempts_count
      BY ONLY <1>1, <1>2, <2>1
    <3> QED BY <3>1 DEF RetryCounted, BuildRetries
  <2> QED BY <1>3, <1>5, <2>1 DEF Built, SameWork, SameItems
<1>6. CASE Reviewed \/ Validated \/ Debugged \/ Gated \/ Committed \/ BranchPushed
           \/ PullRequestOpened \/ (\E n \in QuietNodes : Passed(n))
  BY <1>3, <1>6
  DEF Reviewed, Validated, Debugged, Gated, Committed, BranchPushed,
      PullRequestOpened, Passed, Quiet, SameWork, SameItems
<1>7. CASE Halted \/ WorkspaceFailed \/ Crashed \/ Cancelled \/ TimeRanOut
           \/ UNCHANGED vars
  BY <1>3, <1>7
  DEF Halted, WorkspaceFailed, Crashed, Cancelled, TimeRanOut, vars, control,
      SameCheckpoint, SameWork, SameItems, BuildRetries
<1> QED BY <1>4, <1>5, <1>6, <1>7, StepCases

(* No step comes to a backoff that is not due.                             *)
LEMMA RetryIsDueStep ==
  ASSUME TypeOK, RetryCounted, RetryIsDue, [Next]_vars
  PROVE  RetryIsDue'
<1>1. ASSUME Saved(pc), pc' = "retry_backoff"
      PROVE  /\ state'.failure_class = "transient"
             /\ state'.retry_counts[state'.retry_target] \in 1..(MaxAttempts - 1)
  <2>1. Scheduled(pc) /\ pc \in RetryableNodes
    BY <1>1 DEF Saved
  <2>2. /\ state'.retry_counts \in [RetryableNodes -> Nat]
        /\ state'.attempts_count \in 0..MaxAttempts
    BY <1>1, StateFields DEF Saved
  <2>3. state'.retry_counts[pc] \in Nat /\ state'.retry_counts[pc] >= 1
    BY <2>1, <2>2 DEF Scheduled
  <2>4. state'.retry_counts[pc] < MaxAttempts
    <3>1. CASE pc = "building"
      <4>1. state'.retry_counts[pc] <= state'.attempts_count
        BY <3>1, RetryCountedStep DEF RetryCounted, BuildRetries
      <4>2. state'.attempts_count < MaxAttempts
        BY <2>1, <3>1 DEF Scheduled, RetryAvailable
      <4> QED BY ONLY <2>2, <2>3, <4>1, <4>2, WorkflowConstants
    <3>2. CASE pc # "building"
      BY <2>1, <3>2 DEF Scheduled, RetryAvailable
    <3> QED BY <3>1, <3>2
  <2>5. state'.retry_counts[pc] \in 1..(MaxAttempts - 1)
    BY ONLY <2>3, <2>4, WorkflowConstants
  <2> QED BY <2>1, <2>5 DEF Scheduled
<1>2. CASE Saved(pc)
  BY <1>1, <1>2 DEF RetryIsDue
<1>3. CASE Halted
  BY <1>3 DEF Halted, Closers, RetryIsDue
<1>4. CASE Cancelled
  BY <1>4 DEF Cancelled, RetryIsDue
<1>5. CASE UNCHANGED control
  BY <1>5 DEF control, RetryIsDue
<1> QED
  BY <1>2, <1>3, <1>4, <1>5, StepKinds
  DEF Returned, WorkspaceFailed, Crashed, TimeRanOut, vars

(* A backoff waits for a transient failure of a node that has attempts     *)
(* left.                                                                   *)
THEOREM RetriesAreDue == Spec => []RetryIsDue
<1>1. Init => RetryInv
  <2>1. Init => RetryCounted
    <3>1. Init => /\ state.retry_counts = [n \in RetryableNodes |-> 0]
                  /\ state.attempts_count = 0
      BY DEF Init
    <3> QED BY <3>1 DEF RetryCounted, BuildRetries, RetryableNodes
  <2> QED BY <2>1, InitTypes DEF Init, RetryInv, RetryIsDue
<1>2. RetryInv /\ [Next]_vars => RetryInv'
  BY TypeStep, RetryCountedStep, RetryIsDueStep DEF RetryInv
<1>3. RetryInv => RetryIsDue
  BY DEF RetryInv
<1> QED BY <1>1, <1>2, <1>3, PTL DEF Spec
-----------------------------------------------------------------------------
(* stop_run is reached for a reason, so that it ends with a stopped status *)
(* when no reason is left.                                                 *)
StopIsStopped == pc = "stop_run" => RunStopped(state, spent)
EndInv == TypeOK /\ StopIsStopped /\ EndReleasesLease

(* Only a stopped run comes to stop_run.                                   *)
LEMMA StopIsStoppedStep ==
  ASSUME TypeOK, StopIsStopped, [Next]_vars
  PROVE  StopIsStopped'
<1>1. CASE Saved(pc)
  BY <1>1, StopRoute DEF Saved, StopIsStopped
<1>2. CASE Halted
  BY <1>2 DEF Halted, StopIsStopped
<1>3. CASE Cancelled
  BY <1>3 DEF Cancelled, StopIsStopped, RunStopped, StopReason
<1>4. CASE TimeRanOut
  BY <1>4 DEF TimeRanOut, StopIsStopped, RunStopped, StopReason
<1>5. CASE UNCHANGED <<control, spent>>
  BY <1>5 DEF control, StopIsStopped, RunStopped, StopReason
<1> QED
  BY <1>1, <1>2, <1>3, <1>4, <1>5, StepKinds
  DEF Returned, WorkspaceFailed, Crashed, vars

(* The runs between planning and the gate do not end before they are       *)
(* routed on.                                                              *)
LEMMA OnlySomeEnd ==
  ASSUME NEW n \in Node, Saved(n), pc' = "end"
  PROVE  n \in {"preflight", "commit_item", "push_node", "pull_request_node",
                "attempt_limit", "failed_build", "failed_run", "stop_run"}
  BY EndRoute DEF Saved

(* No step ends a run with a status that keeps its lease.                  *)
LEMMA EndReleasesStep ==
  ASSUME TypeOK, StopIsStopped, EndReleasesLease, [Next]_vars
  PROVE  EndReleasesLease'
<1>1. CASE Planned \/ Built \/ Reviewed \/ Validated \/ Debugged \/ Gated
  <2>1. pc' # "end"
    BY <1>1, OnlySomeEnd
    DEF Planned, Built, Reviewed, Validated, Debugged, Gated, Returned, Node,
        RetryableNodes
  <2> QED BY <2>1 DEF EndReleasesLease
<1>2. CASE EndsUndelivered
  BY <1>2 DEF EndsUndelivered, Released, EndReleasesLease
<1>3. ASSUME NEW n \in QuietNodes, Passed(n)
      PROVE  EndReleasesLease'
  <2>1. CASE n = "stop_run" /\ state'.status = state.status
    <3>1. state.status \in StopStatuses
      BY <1>3, <2>1 DEF Passed, Quiet, Returned, Saved, StopIsStopped, RunStopped
    <3> QED BY <2>1, <3>1 DEF EndReleasesLease, StopStatuses, TerminalRunStatuses
  <2> QED BY <1>2, <1>3, <2>1 DEF Passed
<1>4. CASE BranchPushed \/ PullRequestOpened
  BY <1>4 DEF BranchPushed, PullRequestOpened, Released, EndReleasesLease
<1>5. CASE Crashed \/ TimeRanOut
  BY <1>5 DEF Crashed, TimeRanOut, control, EndReleasesLease, Node, RetryableNodes
<1>6. CASE Cancelled
  BY <1>6 DEF Cancelled, EndReleasesLease, TerminalRunStatuses
<1>7. CASE UNCHANGED vars
  BY <1>7 DEF vars, control, EndReleasesLease
<1> QED
  BY <1>1, <1>2, <1>3, <1>4, <1>5, <1>6, <1>7, StepCases
  DEF Committed, Halted, WorkspaceFailed

(* Whatever ends a run, its status releases the lease.                     *)
THEOREM EndsReleaseLeases == Spec => []EndReleasesLease
<1>1. Init => EndInv
  BY InitTypes DEF Init, EndInv, StopIsStopped, EndReleasesLease
<1>2. EndInv /\ [Next]_vars => EndInv'
  BY TypeStep, StopIsStoppedStep, EndReleasesStep DEF EndInv
<1>3. EndInv => EndReleasesLease
  BY DEF EndInv
<1> QED BY <1>1, <1>2, <1>3, PTL DEF Spec
-----------------------------------------------------------------------------
(* A run that is cancelled ends cancelled, or locked by another process,   *)
(* where its worktree can be prepared.                                     *)
THEOREM CancelledEnds ==
  ASSUME "workspace" \notin Faults
  PROVE  Spec => []CancelledEndsCancelled
<1> DEFINE Inv == TypeOK /\ CancelledEndsCancelled
<1>1. Init => Inv
  BY InitTypes DEF Init, CancelledEndsCancelled
<1>2. ASSUME TypeOK, CancelledEndsCancelled, [Next]_vars
      PROVE  CancelledEndsCancelled'
  <2>1. CASE Returned(pc)
    BY <2>1 DEF Returned, StopReason, StopStatus, CancelledEndsCancelled
  <2>2. CASE Halted
    BY <2>2 DEF Halted, CancelledEndsCancelled
  <2>3. CASE Crashed \/ TimeRanOut
    BY <2>3 DEF Crashed, TimeRanOut, control, CancelledEndsCancelled, Node,
                RetryableNodes
  <2>4. CASE Cancelled
    BY <2>4 DEF Cancelled, CancelledEndsCancelled
  <2>5. CASE UNCHANGED vars
    BY <1>2, <2>5 DEF vars, control, CancelledEndsCancelled
  <2> QED BY <1>2, <2>1, <2>2, <2>3, <2>4, <2>5, StepKinds DEF WorkspaceFailed
<1>3. Inv /\ [Next]_vars => Inv'
  BY <1>2, TypeStep
<1> QED BY <1>1, <1>3, PTL DEF Spec
-----------------------------------------------------------------------------
(* Where a run is: a backoff is at the node it waits for.                  *)
At(nodes) == pc \in nodes \/ (pc = "retry_backoff" /\ state.retry_target \in nodes)
Inner == {"building", "critic_auditor", "validation", "debugger"}
AfterValidation == {"pre_commit_policy_gate", "commit_item"}

(* A step does the work of one of five nodes, or none.                     *)
LEMMA WorkCases ==
  ASSUME TypeOK, [Next]_vars
  PROVE  \/ Planned \/ Built \/ Reviewed \/ Validated \/ Debugged
         \/ SameWork(state', state)
<1>1. CASE Gated \/ Committed \/ BranchPushed \/ PullRequestOpened
           \/ (\E n \in QuietNodes : Passed(n))
  BY <1>1 DEF Gated, Committed, BranchPushed, PullRequestOpened, Passed, Quiet
<1>2. CASE Halted \/ WorkspaceFailed \/ Cancelled
  BY <1>2 DEF Halted, WorkspaceFailed, Cancelled, SameCheckpoint
<1>3. CASE Crashed \/ TimeRanOut \/ UNCHANGED vars
  BY <1>3 DEF Crashed, TimeRanOut, vars, control, SameWork, SameItems
<1> QED BY <1>1, <1>2, <1>3, StepCases

(* A step that does work is a step of the node that does it.               *)
LEMMA WorkIsLocal ==
  /\ Planned => pc = "planning" /\ Saved(pc)
  /\ Built => pc = "building" /\ Saved(pc)
  /\ Reviewed => pc = "critic_auditor" /\ Saved(pc)
  /\ Validated => pc = "validation" /\ Saved(pc)
  /\ Debugged => pc = "debugger" /\ Saved(pc)
  BY DEF Planned, Built, Reviewed, Validated, Debugged, Returned, Saved

(* A wait for a retry keeps the work.                                      *)
LEMMA BackoffKeeps ==
  ASSUME TypeOK, [Next]_vars, Saved(pc), pc = "retry_backoff"
  PROVE  /\ SameWork(state', state) /\ state'.retry_target = state.retry_target
         /\ state'.commit_sha = state.commit_sha
<1>1. SameWork(state', state)
  BY WorkCases, WorkIsLocal
<1>2. CASE Gated \/ Committed \/ BranchPushed \/ PullRequestOpened
  BY <1>2 DEF Gated, Committed, BranchPushed, PullRequestOpened, Quiet, Returned, Saved
<1>3. CASE \E n \in QuietNodes : Passed(n)
  BY <1>3 DEF Passed, Quiet, Returned, Saved
<1>4. CASE Halted \/ WorkspaceFailed \/ Cancelled
  BY <1>4 DEF Halted, WorkspaceFailed, Cancelled, SameCheckpoint
<1>5. CASE Crashed \/ TimeRanOut \/ UNCHANGED vars
  <2>1. UNCHANGED control
    BY <1>5 DEF Crashed, TimeRanOut, vars
  <2> QED BY <1>1, <2>1 DEF control
<1> QED BY <1>1, <1>2, <1>3, <1>4, <1>5, StepCases, WorkIsLocal

(* How a run comes to be at some nodes: it was there, it waits to run one  *)
(* of them again, or a router sends it.                                    *)
LEMMA ArrivalCases ==
  ASSUME TypeOK, [Next]_vars,
         NEW nodes \in SUBSET (Node \ (Closers \cup {"retry_backoff"})), At(nodes)'
  PROVE  \/ /\ At(nodes) /\ SameWork(state', state)
            /\ state'.commit_sha = state.commit_sha
         \/ Saved(pc) /\ pc \in nodes /\ pc' = "retry_backoff"
         \/ Saved(pc) /\ pc \in Node /\ Leads(pc, pc', state') /\ pc' \in nodes
            /\ pc # "retry_backoff"
<1>1. CASE Saved(pc)
  <2>1. \/ pc' = "retry_backoff" /\ pc \in RetryableNodes /\ Scheduled(pc)
        \/ Leads(pc, pc', state') /\ pc' \in nodes
    <3>1. \/ pc' \in Closers
          \/ pc' = "retry_backoff" /\ pc \in RetryableNodes /\ Backoff(state')
          \/ Leads(pc, pc', state')
      BY <1>1, RouteCases DEF Saved
    <3>2. pc' \notin Closers
      BY DEF At, Closers
    <3>3. Leads(pc, pc', state') => pc' # "retry_backoff"
      BY LeadsToNode
    <3> QED BY <1>1, <3>1, <3>2, <3>3 DEF Saved, At
  <2>2. CASE pc' = "retry_backoff" /\ pc \in RetryableNodes /\ Scheduled(pc)
    BY <1>1, <2>2 DEF At, Scheduled
  <2>3. CASE Leads(pc, pc', state') /\ pc' \in nodes
    <3>1. CASE pc = "retry_backoff"
      <4>1. pc' = state'.retry_target
        BY <2>3, <3>1 DEF Leads
      <4> QED BY <1>1, <2>3, <3>1, <4>1, BackoffKeeps DEF At
    <3>2. CASE pc # "retry_backoff"
      BY <1>1, <2>3, <3>2 DEF Saved
    <3> QED BY <3>1, <3>2
  <2> QED BY <2>1, <2>2, <2>3
<1>2. CASE Halted
  BY <1>2 DEF Halted, At, Closers
<1>3. CASE Cancelled
  BY <1>3 DEF Cancelled, SameCheckpoint, At, Closers
<1>4. CASE UNCHANGED control
  BY <1>4 DEF control, At, SameWork, SameItems
<1> QED
  BY <1>1, <1>2, <1>3, <1>4, StepKinds
  DEF Returned, WorkspaceFailed, Crashed, TimeRanOut, vars

(* A branch point of its own for each of the nodes below.                  *)
LEMMA NodeNames ==
  /\ {"validation"} \in SUBSET (Node \ (Closers \cup {"retry_backoff"}))
  /\ {"critic_auditor"} \in SUBSET (Node \ (Closers \cup {"retry_backoff"}))
  /\ {"pull_request_node"} \in SUBSET (Node \ (Closers \cup {"retry_backoff"}))
  /\ {"push_node", "pull_request_node"}
       \in SUBSET (Node \ (Closers \cup {"retry_backoff"}))
  /\ Inner \in SUBSET (Node \ (Closers \cup {"retry_backoff"}))
  /\ AfterValidation \in SUBSET (Node \ (Closers \cup {"retry_backoff"}))
  BY DEF Node, RetryableNodes, Closers, Inner, AfterValidation
-----------------------------------------------------------------------------
(* Validation is passed only of an approved item, and counts only while    *)
(* the files it was passed for are those of the worktree.                  *)
ChecksInv ==
  /\ state.validation_passed => state.critic_passed /\ "validation" \in checked
  /\ At({"validation"}) => state.critic_passed
  /\ At({"critic_auditor"}) => ~state.critic_passed
  /\ At(AfterValidation) => state.validation_passed

(* Checks are kept by all but a builder that changes the worktree.         *)
LEMMA ChecksAreKept ==
  ASSUME TypeOK, [Next]_vars
  PROVE  \/ checked \subseteq checked'
         \/ pc = "building" /\ ~state.critic_passed
<1>1. CASE UNCHANGED repository
  BY <1>1 DEF repository
<1>2. CASE EffectOf(pc)
  BY <1>2 DEF EffectOf, NeedsBuild, CommitFiles, PushBranch, CreatePullRequest, PassCheck
<1> QED BY <1>1, <1>2, EffectCases

(* No step loses the checks that the node it comes to relies on.           *)
LEMMA ChecksStep ==
  ASSUME TypeOK, ChecksInv, [Next]_vars
  PROVE  ChecksInv'
<1>1. ASSUME state'.validation_passed
      PROVE  state'.critic_passed /\ "validation" \in checked'
  <2>1. CASE SameWork(state', state)
    BY <1>1, <2>1, ChecksAreKept DEF SameWork, ChecksInv
  <2>2. CASE Planned
    BY <1>1, <2>1, <2>2 DEF Planned, Picked
  <2>3. CASE Built
    <3>1. CASE NeedsBuild(state)
      BY <1>1, <2>3, <3>1 DEF Built, NeedsBuild, ChecksInv
    <3>2. CASE ~NeedsBuild(state)
      BY <2>1, <2>3, <3>2 DEF Built
    <3> QED BY <3>1, <3>2
  <2>4. CASE Reviewed
    BY <1>1, <2>4, WorkIsLocal DEF Reviewed, ChecksInv, At
  <2>5. CASE Validated
    BY <1>1, <2>5, WorkIsLocal DEF Validated, PassCheck, ChecksInv, At
  <2>6. CASE Debugged
    BY <1>1, <2>6 DEF Debugged
  <2> QED BY <2>1, <2>2, <2>3, <2>4, <2>5, <2>6, WorkCases
<1>2. ASSUME At({"validation"})' PROVE state'.critic_passed
  <2>1. CASE At({"validation"}) /\ SameWork(state', state)
    BY <2>1 DEF SameWork, ChecksInv
  <2>2. CASE pc \in {"validation"} /\ pc' = "retry_backoff"
    <3>1. Validated \/ SameWork(state', state)
      BY <2>2, WorkCases, WorkIsLocal
    <3> QED BY <2>2, <3>1 DEF Validated, SameWork, ChecksInv, At
  <2>3. CASE Leads(pc, pc', state') /\ pc' \in {"validation"} /\ pc # "retry_backoff"
    BY <2>3 DEF Leads
  <2> QED BY <1>2, <2>1, <2>2, <2>3, ArrivalCases, NodeNames
<1>3. ASSUME At({"critic_auditor"})' PROVE ~state'.critic_passed
  <2>1. CASE At({"critic_auditor"}) /\ SameWork(state', state)
    BY <2>1 DEF SameWork, ChecksInv
  <2>2. CASE pc \in {"critic_auditor"} /\ pc' = "retry_backoff"
    <3>1. Reviewed \/ SameWork(state', state)
      BY <2>2, WorkCases, WorkIsLocal
    <3> QED BY <2>2, <3>1 DEF Reviewed, SameWork, ChecksInv, At
  <2>3. CASE Leads(pc, pc', state') /\ pc' \in {"critic_auditor"} /\ pc # "retry_backoff"
    BY <2>3 DEF Leads
  <2> QED BY <1>3, <2>1, <2>2, <2>3, ArrivalCases, NodeNames
<1>4. ASSUME At(AfterValidation)' PROVE state'.validation_passed
  <2>1. CASE At(AfterValidation) /\ SameWork(state', state)
    BY <2>1 DEF SameWork, ChecksInv
  <2>2. CASE Saved(pc) /\ pc \in AfterValidation /\ pc' = "retry_backoff"
    BY <2>2 DEF Saved, AfterValidation, RetryableNodes
  <2>3. CASE Leads(pc, pc', state') /\ pc' \in AfterValidation /\ pc # "retry_backoff"
    <3>1. \/ pc = "validation" /\ state'.validation_passed
          \/ pc = "pre_commit_policy_gate"
      BY <2>3 DEF Leads, AfterValidation
    <3>2. CASE pc = "pre_commit_policy_gate"
      <4>1. SameWork(state', state)
        BY <3>2, WorkCases, WorkIsLocal
      <4> QED BY <3>2, <4>1 DEF SameWork, ChecksInv, At, AfterValidation
    <3> QED BY <3>1, <3>2
  <2> QED BY <1>4, <2>1, <2>2, <2>3, ArrivalCases, NodeNames
<1> QED BY <1>1, <1>2, <1>3, <1>4 DEF ChecksInv, At

(* No check is relied on at the start.                                     *)
LEMMA ChecksStart == Init => ChecksInv
  BY DEF Init, ChecksInv, At, AfterValidation

(* A commit is a commit of validated files, whatever fails.                *)
THEOREM OnlyValidatedIsCommitted == Spec => CommitsAreValidated
<1> DEFINE Inv == TypeOK /\ ChecksInv
<1>1. Init => Inv
  BY InitTypes, ChecksStart
<1>2. Inv /\ [Next]_vars => Inv'
  BY TypeStep, ChecksStep
<1>3. ASSUME TypeOK, ChecksInv, [Next]_vars, commits' # commits
      PROVE  "validation" \in checked
  <2>1. pc = "commit_item"
    BY <1>3, EffectCases
    DEF EffectOf, repository, RunBuilder, PushBranch, CreatePullRequest, PassCheck
  <2> QED BY <1>3, <2>1 DEF ChecksInv, At, AfterValidation
<1>4. Inv /\ [Next]_vars => [commits' # commits => "validation" \in checked]_vars
  BY <1>3
<1> QED BY <1>1, <1>2, <1>4, PTL DEF Spec, CommitsAreValidated
-----------------------------------------------------------------------------
(* A run that is saved and goes on has left the node it was at, with the   *)
(* node's own result where worktrees do not fail.                          *)
LEMMA GoingOnIsLeaving ==
  ASSUME TypeOK, Saved(pc), pc' \notin Closers
  PROVE  pc' # pc /\ pc \notin Closers
<1>1. \/ pc' = "retry_backoff" /\ pc \in RetryableNodes
      \/ Leads(pc, pc', state')
  BY RouteCases DEF Saved
<1> QED BY <1>1 DEF Leads, Closers, RetryableNodes

(* A run that is not saved and does not close stays at its node.           *)
LEMMA StayingIsOutside ==
  ASSUME TypeOK, [Next]_vars, pc' \notin Closers, ~Saved(pc)
  PROVE  /\ Crashed \/ Cancelled \/ TimeRanOut \/ UNCHANGED vars
         /\ pc' = pc
<1>1. Crashed \/ Cancelled \/ TimeRanOut \/ UNCHANGED vars
  BY StepKinds DEF Returned, WorkspaceFailed, Halted
<1>2. CASE Cancelled
  BY <1>1, <1>2 DEF Cancelled, Closers
<1>3. CASE Crashed \/ TimeRanOut \/ UNCHANGED vars
  <2>1. UNCHANGED control
    BY <1>3 DEF Crashed, TimeRanOut, vars
  <2> QED BY <1>1, <2>1 DEF control
<1> QED BY <1>1, <1>2, <1>3

(* A run that goes on from a node has done that node's work.               *)
LEMMA NodesDoTheirWork ==
  ASSUME TypeOK, [Next]_vars, "workspace" \notin Faults, Saved(pc), pc' \notin Closers
  PROVE  /\ pc = "planning" => Planned
         /\ pc = "building" => Built
         /\ pc = "critic_auditor" => Reviewed
         /\ pc = "validation" => Validated
         /\ pc = "debugger" => Debugged
         /\ pc = "pre_commit_policy_gate" => Gated
         /\ pc = "commit_item" => Committed
         /\ pc = "push_node" => BranchPushed
         /\ pc = "pull_request_node" => PullRequestOpened
<1>1. pc' # pc
  BY GoingOnIsLeaving
<1>2. \/ Planned \/ Built \/ Reviewed \/ Validated \/ Debugged \/ Gated
      \/ Committed \/ BranchPushed \/ PullRequestOpened
      \/ \E n \in QuietNodes : Passed(n)
  <2>1. ~Halted /\ ~WorkspaceFailed
    BY DEF Halted, WorkspaceFailed
  <2>2. ~Cancelled
    BY <1>1 DEF Cancelled, Closers
  <2>3. ~(Crashed \/ TimeRanOut \/ UNCHANGED vars)
    <3>1. ~(UNCHANGED control)
      BY <1>1 DEF control
    <3> QED BY <3>1 DEF Crashed, TimeRanOut, vars
  <2> QED BY <2>1, <2>2, <2>3, StepCases
<1>3. CASE Planned \/ Built \/ Reviewed \/ Validated \/ Debugged
  BY <1>3, WorkIsLocal
<1>4. CASE Gated \/ Committed \/ BranchPushed \/ PullRequestOpened
  BY <1>4 DEF Gated, Committed, BranchPushed, PullRequestOpened, Quiet, Returned, Saved
<1>5. CASE \E n \in QuietNodes : Passed(n)
  BY <1>5 DEF Passed, Quiet, Returned, Saved, QuietNodes
<1> QED BY <1>2, <1>3, <1>4, <1>5
-----------------------------------------------------------------------------
(* The items: those before the current one are done, the current one is    *)
(* not until validation passes, and nothing is handed over before the      *)
(* whole list is done.                                                     *)
Current == state.current_item_index
ItemInv ==
  /\ \A j \in Item : j < Current => ~Incomplete(state, j)
  /\ At(Inner) => Incomplete(state, Current) /\ state.current_item_id = IdOf[Current]
  /\ At(AfterValidation) =>
       ~Incomplete(state, Current) /\ state.current_item_id = IdOf[Current]
  /\ state.current_item_id \in {NoItem, IdOf[Current]}
  /\ At({"push_node", "pull_request_node"}) => \A i \in Item : ~Incomplete(state, i)

(* Steps that do no work leave the items.                                  *)
LEMMA SameWorkItems ==
  ASSUME SameWork(state', state)
  PROVE  /\ Current' = Current /\ state'.current_item_id = state.current_item_id
         /\ \A i : Incomplete(state', i) <=> Incomplete(state, i)
         /\ HasNextItem(state') <=> HasNextItem(state)
  BY DEF SameWork, SameItems, Current, Incomplete, HasNextItem

(* Building leaves the items.                                              *)
LEMMA BuiltItems ==
  ASSUME TypeOK, Built
  PROVE  /\ Current' = Current /\ state'.current_item_id = state.current_item_id
         /\ \A i \in Item : Incomplete(state, i) => Incomplete(state', i)
         /\ \A i \in Item \ {Current} : Incomplete(state', i) <=> Incomplete(state, i)
<1>1. /\ state.prd_items \in [Item -> [passes : BOOLEAN, validation : BOOLEAN]]
      /\ Current \in Item
  BY StateFields DEF TypeOK, Current
<1>2. CASE state'.prd_items = state.prd_items
  BY <1>2 DEF Built, Current, Incomplete
<1>3. CASE state'.prd_items = [state.prd_items EXCEPT ![Current] =
                                 [passes |-> TRUE, validation |-> FALSE]]
  BY <1>1, <1>3 DEF Built, Current, Incomplete
<1> QED BY <1>2, <1>3 DEF Built, Current, SameWork, SameItems

(* Validation closes the current item, which is complete then, and no      *)
(* other.                                                                  *)
LEMMA ValidatedItems ==
  ASSUME TypeOK, Validated
  PROVE  /\ Current' = Current /\ state'.current_item_id = state.current_item_id
         /\ Incomplete(state', Current) <=> ~state'.validation_passed
         /\ \A i \in Item \ {Current} : Incomplete(state', i) <=> Incomplete(state, i)
<1>1. /\ state.prd_items \in [Item -> [passes : BOOLEAN, validation : BOOLEAN]]
      /\ Current \in Item
  BY StateFields DEF TypeOK, Current
<1>2. state'.prd_items =
        [state.prd_items EXCEPT ![Current] =
           [passes |-> state'.validation_passed \/ @.passes,
            validation |-> state'.validation_passed]]
  BY DEF Validated, Current
<1>3. Incomplete(state', Current) <=> ~state'.validation_passed
  <2> DEFINE passed == state'.validation_passed
             before == state.prd_items[Current].passes
  <2>1. state'.prd_items[Current] =
          [passes |-> passed \/ before, validation |-> passed]
    BY <1>1, <1>2
  <2>2. /\ state'.prd_items[Current].passes = (passed \/ before)
        /\ state'.prd_items[Current].validation = passed
    BY <2>1
  <2> HIDE DEF before
  <2> QED BY <2>2, Zenon DEF Incomplete
<1>4. \A i \in Item \ {Current} : Incomplete(state', i) <=> Incomplete(state, i)
  BY <1>1, <1>2 DEF Incomplete
<1> QED BY <1>3, <1>4 DEF Validated, Current

(* An item picked is the first incomplete one.                             *)
LEMMA PickedItems ==
  ASSUME NEW i \in Item, Picked(i)
  PROVE  /\ Current' = i /\ i >= Current /\ state'.current_item_id = IdOf[i]
         /\ \A j : Incomplete(state', j) <=> Incomplete(state, j)
         /\ Incomplete(state', i)
         /\ \A j \in Current..(i - 1) : ~Incomplete(state, j)
  BY DEF Picked, Current, Incomplete

(* The items a step leaves, whatever the step.                             *)
LEMMA ItemCases ==
  ASSUME TypeOK, [Next]_vars
  PROVE  \/ \E i \in Item : Planned /\ Picked(i)
         \/ Built \/ Validated
         \/ /\ Current' = Current /\ state'.current_item_id = state.current_item_id
            /\ \A i : Incomplete(state', i) <=> Incomplete(state, i)
<1>1. CASE SameWork(state', state)
  BY <1>1, SameWorkItems
<1>2. CASE Reviewed \/ Debugged
  BY <1>2 DEF Reviewed, Debugged, SameItems, Current, Incomplete
<1> QED BY <1>1, <1>2, WorkCases DEF Planned

(* No step skips an item, or leaves an incomplete one behind.              *)
LEMMA ItemStep ==
  ASSUME TypeOK, ItemInv, [Next]_vars, "workspace" \notin Faults
  PROVE  ItemInv'
<1>1. Current \in Item /\ Current' \in Item
  BY TypeStep, StateFields DEF TypeOK, Current
<1>2. ASSUME NEW j \in Item, j < Current'
      PROVE  ~Incomplete(state', j)
  <2>1. ASSUME NEW i \in Item, Picked(i)
        PROVE  ~Incomplete(state', j)
    <3>1. j < Current \/ j \in Current..(i - 1)
      <4>1. j < i
        BY <1>2, <2>1, PickedItems
      <4> QED BY ONLY <1>1, <4>1, j \in Item, i \in Item, WorkflowConstants DEF Item
    <3> QED BY <2>1, <3>1, PickedItems DEF ItemInv
  <2>2. CASE Built \/ Validated
    <3>1. Current' = Current
      BY <2>2, BuiltItems, ValidatedItems
    <3>2. j < Current /\ j # Current
      BY ONLY <1>1, <1>2, <3>1, j \in Item, WorkflowConstants DEF Item
    <3> QED BY <2>2, <3>2, BuiltItems, ValidatedItems DEF ItemInv
  <2> QED BY <1>2, <2>1, <2>2, ItemCases DEF ItemInv
<1>3. ASSUME At(Inner)'
      PROVE  Incomplete(state', Current') /\ state'.current_item_id = IdOf[Current']
  <2>1. CASE At(Inner) /\ SameWork(state', state)
    BY <2>1, SameWorkItems DEF ItemInv
  <2>2. CASE Saved(pc) /\ pc \in Inner /\ pc' = "retry_backoff"
    <3>1. Incomplete(state, Current) /\ state.current_item_id = IdOf[Current]
      BY <2>2 DEF At, ItemInv
    <3>2. pc' \notin Closers
      BY <2>2 DEF Closers
    <3>3. Built \/ Reviewed \/ Validated \/ Debugged
      BY <2>2, <3>2, NodesDoTheirWork DEF Inner
    <3>4. CASE Built
      BY <1>1, <3>1, <3>4, BuiltItems
    <3>5. CASE Validated
      BY <2>2, <3>1, <3>5, ValidatedItems DEF Validated
    <3>6. CASE Reviewed \/ Debugged
      BY <3>1, <3>6 DEF Reviewed, Debugged, SameItems, Current, Incomplete
    <3> QED BY <3>3, <3>4, <3>5, <3>6
  <2>3. CASE Saved(pc) /\ Leads(pc, pc', state') /\ pc' \in Inner /\ pc # "retry_backoff"
    <3>1. pc' \notin Closers
      BY <2>3, LeadsToNode
    <3>2. CASE pc = "planning"
      <4>1. Planned /\ HasNextItem(state')
        BY <2>3, <3>1, <3>2, NodesDoTheirWork DEF Leads, Inner
      <4>2. \E i \in Item : Picked(i)
        BY <4>1, SameWorkItems DEF Planned
      <4> QED BY <4>2, PickedItems
    <3>3. CASE pc \in Inner
      <4>1. Incomplete(state, Current) /\ state.current_item_id = IdOf[Current]
        BY <3>3 DEF At, ItemInv
      <4>2. CASE Built
        BY <1>1, <4>1, <4>2, BuiltItems
      <4>3. CASE Validated
        BY <2>3, <4>1, <4>3, ValidatedItems, WorkIsLocal DEF Leads, Inner
      <4>4. CASE Reviewed \/ Debugged
        BY <4>1, <4>4 DEF Reviewed, Debugged, SameItems, Current, Incomplete
      <4> QED BY <2>3, <3>1, <3>3, <4>2, <4>3, <4>4, NodesDoTheirWork DEF Inner
    <3> QED BY <2>3, <3>2, <3>3 DEF Leads, Inner
  <2> QED BY <1>3, <2>1, <2>2, <2>3, ArrivalCases, NodeNames
<1>4. ASSUME At(AfterValidation)'
      PROVE  ~Incomplete(state', Current') /\ state'.current_item_id = IdOf[Current']
  <2>1. CASE At(AfterValidation) /\ SameWork(state', state)
    BY <2>1, SameWorkItems DEF ItemInv
  <2>2. CASE Saved(pc) /\ pc \in AfterValidation /\ pc' = "retry_backoff"
    BY <2>2 DEF Saved, AfterValidation, RetryableNodes
  <2>3. CASE /\ Saved(pc) /\ Leads(pc, pc', state') /\ pc' \in AfterValidation
             /\ pc # "retry_backoff"
    <3>1. pc' \notin Closers
      BY <2>3, LeadsToNode
    <3>2. CASE pc = "validation"
      <4>1. Validated /\ state'.validation_passed
        BY <2>3, <3>1, <3>2, NodesDoTheirWork DEF Leads, AfterValidation
      <4>2. state.current_item_id = IdOf[Current]
        BY <3>2 DEF At, Inner, ItemInv
      <4> QED BY <4>1, <4>2, ValidatedItems
    <3>3. CASE pc = "pre_commit_policy_gate"
      <4>1. SameWork(state', state)
        BY <3>3, WorkCases, WorkIsLocal
      <4> QED BY <3>3, <4>1, SameWorkItems DEF At, AfterValidation, ItemInv
    <3> QED BY <2>3, <3>2, <3>3 DEF Leads, AfterValidation
  <2> QED BY <1>4, <2>1, <2>2, <2>3, ArrivalCases, NodeNames
<1>5. state'.current_item_id \in {NoItem, IdOf[Current']}
  BY ItemCases, PickedItems, BuiltItems, ValidatedItems DEF ItemInv
<1>6. ASSUME At({"push_node", "pull_request_node"})', NEW i \in Item
      PROVE  ~Incomplete(state', i)
  <2> DEFINE handoff == {"push_node", "pull_request_node"}
  <2>1. CASE At(handoff) /\ SameWork(state', state)
    BY <2>1, SameWorkItems DEF ItemInv
  <2>2. CASE pc \in handoff
    <3>1. SameWork(state', state)
      BY <2>2, WorkCases, WorkIsLocal
    <3> QED BY <2>1, <2>2, <3>1 DEF At
  <2>3. CASE pc = "item_router" /\ ~HasNextItem(state')
    <3>1. SameWork(state', state)
      BY <2>3, WorkCases, WorkIsLocal
    <3>2. ~HasNextItem(state) /\ (Incomplete(state', i) <=> Incomplete(state, i))
      BY <2>3, <3>1, SameWorkItems
    <3>3. i < Current \/ i \in Current..N
      BY ONLY <1>1, i \in Item, WorkflowConstants DEF Item
    <3> QED BY <3>2, <3>3 DEF HasNextItem, Current, ItemInv
  <2>4. CASE Leads(pc, pc', state') /\ pc' \in handoff /\ pc # "retry_backoff"
    BY <2>2, <2>3, <2>4 DEF Leads
  <2> QED BY <1>6, <2>1, <2>2, <2>4, ArrivalCases, NodeNames
<1> QED BY <1>2, <1>3, <1>4, <1>5, <1>6 DEF ItemInv, At, Current

(* A run starts with nothing behind it.                                    *)
LEMMA ItemStart == Init => ItemInv
<1> SUFFICES ASSUME Init PROVE ItemInv
  OBVIOUS
<1>1. /\ pc = "preflight" /\ state.current_item_index = 1
      /\ state.current_item_id = NoItem
  BY DEF Init
<1>2. \A j \in Item : ~(j < 1)
  BY WorkflowConstants DEF Item
<1> QED BY <1>1, <1>2 DEF ItemInv, At, Inner, AfterValidation, Current
-----------------------------------------------------------------------------
(* Builds: the attempts of the current item and the lost checkpoints cover *)
(* its builds, and no later item has any.                                  *)
BuildInv ==
  /\ \A i \in Item : i > Current => builds[i] = 0
  /\ state.current_item_id = NoItem => \A i \in Item : builds[i] = 0
  /\ pc \notin Closers => builds[Current] <= state.attempts_count + mishaps
  /\ BuildsBounded

(* Types of what the counts below compare.                                 *)
LEMMA BuildTypes ==
  ASSUME TypeOK
  PROVE  /\ Current \in Item /\ state.attempts_count \in Nat /\ mishaps \in Nat
         /\ \A i \in Item : builds[i] \in Nat /\ commits[i] \in Nat
         /\ N \in Nat /\ MaxAttempts \in Nat
<1>1. /\ state.current_item_index \in Item
      /\ state.attempts_count \in 0..MaxAttempts /\ mishaps \in 0..MaxMishaps
  BY StateFields DEF TypeOK
<1>2. builds \in [Item -> Nat] /\ commits \in [Item -> Nat]
  BY DEF TypeOK
<1> QED BY <1>1, <1>2, WorkflowConstants DEF Current

(* Only building runs the builder, for the current item, and an attempt or *)
(* a mishap is charged for it.                                             *)
LEMMA BuildCases ==
  ASSUME TypeOK, [Next]_vars
  PROVE  \/ builds' = builds
         \/ /\ pc = "building" /\ NeedsBuild(state)
            /\ builds' = [builds EXCEPT ![Current] = @ + 1]
            /\ Built \/ pc' \in Closers \/ (Crashed /\ mishaps' = mishaps + 1)
<1>1. builds' = builds \/ (pc = "building" /\ NeedsBuild(state) /\ RunBuilder)
  BY EffectCases
  DEF EffectOf, repository, CommitFiles, PushBranch, CreatePullRequest, PassCheck
<1>2. ASSUME pc = "building", RunBuilder, builds' # builds
      PROVE  Built \/ pc' \in Closers \/ (Crashed /\ mishaps' = mishaps + 1)
  <2>1. CASE Halted \/ Crashed
    BY <2>1 DEF Halted, Crashed
  <2>2. CASE \/ WorkspaceFailed \/ Cancelled \/ TimeRanOut \/ UNCHANGED vars
             \/ \E n \in QuietNodes : Passed(n)
    BY <1>2, <2>2 DEF WorkspaceFailed, Cancelled, TimeRanOut, vars, Passed, repository
  <2>3. CASE Planned \/ Reviewed \/ Validated \/ Debugged \/ Gated \/ Committed
             \/ BranchPushed \/ PullRequestOpened
    BY <1>2, <2>3, WorkIsLocal
    DEF Gated, Committed, BranchPushed, PullRequestOpened, Quiet, Returned, Saved
  <2> QED BY <2>1, <2>2, <2>3, StepCases
<1> QED BY <1>1, <1>2 DEF RunBuilder, Current

(* Mishaps are only counted up.                                            *)
LEMMA MishapsGrow ==
  ASSUME TypeOK, [Next]_vars
  PROVE  mishaps' \in Nat /\ mishaps' >= mishaps
<1>1. mishaps' = mishaps \/ mishaps' = mishaps + 1
  BY StepKinds
  DEF Returned, WorkspaceFailed, Halted, Crashed, Cancelled, TimeRanOut, vars
<1> QED BY <1>1, BuildTypes

(* The current item only moves forward, and only a picked one is another.  *)
LEMMA CurrentCases ==
  ASSUME TypeOK, [Next]_vars
  PROVE  /\ Current' \in Item /\ Current' >= Current
         /\ \/ \E i \in Item : Planned /\ Picked(i) /\ Current' = i
            \/ /\ Current' = Current
               /\ state'.current_item_id = state.current_item_id
<1>1. Current' \in Item /\ Current \in Item
  BY TypeStep, StateFields DEF TypeOK, Current
<1>2. \/ \E i \in Item : Planned /\ Picked(i) /\ Current' = i /\ Current' >= Current
      \/ /\ Current' = Current
         /\ state'.current_item_id = state.current_item_id
  BY ItemCases, PickedItems, BuiltItems, ValidatedItems
<1>3. Current' = Current => Current' >= Current
  BY <1>1, WorkflowConstants DEF Item
<1> QED BY <1>1, <1>2, <1>3

(* No step builds an item without charging for it.                         *)
LEMMA BuildStep ==
  ASSUME TypeOK, ItemInv, BuildInv, [Next]_vars, "workspace" \notin Faults
  PROVE  BuildInv'
<1>1. /\ Current \in Item /\ state.attempts_count \in Nat /\ mishaps \in Nat
      /\ \A i \in Item : builds[i] \in Nat
      /\ N \in Nat /\ MaxAttempts \in Nat
  BY BuildTypes
<1>2. /\ Current' \in Item /\ Current' >= Current
      /\ mishaps' \in Nat /\ mishaps' >= mishaps /\ state'.attempts_count \in Nat
  <2>1. state' \in State
    BY TypeStep DEF TypeOK
  <2>2. state'.attempts_count \in 0..MaxAttempts
    BY <2>1, StateFields
  <2>3. state'.attempts_count \in Nat
    BY ONLY <2>2, <1>1
  <2> QED BY <2>3, CurrentCases, MishapsGrow
<1>3. \/ builds' = builds
      \/ /\ pc = "building" /\ NeedsBuild(state)
         /\ builds' = [builds EXCEPT ![Current] = @ + 1]
         /\ Built \/ pc' \in Closers \/ (Crashed /\ mishaps' = mishaps + 1)
  BY BuildCases
<1>4. /\ \A i \in Item \ {Current} : builds'[i] = builds[i]
      /\ builds'[Current] \in {builds[Current], builds[Current] + 1}
  <2>1. builds \in [Item -> Nat]
    BY DEF TypeOK
  <2> QED BY <1>1, <1>3, <2>1
<1>5. ASSUME NEW i \in Item, i > Current' PROVE builds'[i] = 0
  <2>1. i > Current /\ i # Current
    BY ONLY <1>1, <1>2, <1>5, i \in Item DEF Item
  <2> QED BY <1>4, <2>1 DEF BuildInv
<1>6. ASSUME state'.current_item_id = NoItem, NEW i \in Item PROVE builds'[i] = 0
  <2>1. state.current_item_id = NoItem
    BY <1>6, CurrentCases, PickedItems, WorkflowConstants
  <2>2. pc # "building"
    BY <1>1, <2>1, WorkflowConstants DEF ItemInv, At, Inner
  <2> QED BY <1>3, <2>1, <2>2 DEF BuildInv
<1>7. ASSUME pc' \notin Closers
      PROVE  builds'[Current'] <= state'.attempts_count + mishaps'
  <2>1. pc \notin Closers
    BY <1>7, GoingOnIsLeaving, StayingIsOutside
  <2>2. builds[Current] <= state.attempts_count + mishaps
    BY <2>1 DEF BuildInv
  <2>3. CASE builds' = builds
    <3>1. CASE Current' = Current /\ state'.attempts_count >= state.attempts_count
      <4>1. builds[Current] \in Nat
        BY <1>1
      <4>2. builds[Current] <= state'.attempts_count + mishaps'
        BY ONLY <1>1, <1>2, <2>2, <3>1, <4>1
      <4> QED BY <2>3, <3>1, <4>2
    <3>2. ASSUME NEW i \in Item, Picked(i) PROVE builds'[Current'] <= state'.attempts_count + mishaps'
      <4>1. Current' = i
        BY <3>2, PickedItems
      <4>2. CASE i # Current
        <5>1. i > Current
          BY ONLY <1>1, <1>2, <4>1, <4>2, i \in Item DEF Item
        <5>2. builds'[Current'] = 0
          BY <2>3, <4>1, <5>1 DEF BuildInv
        <5> QED BY ONLY <1>2, <5>2
      <4>3. CASE i = Current /\ state.current_item_id = IdOf[i]
        BY <1>1, <3>1, <3>2, <4>1, <4>3 DEF Picked
      <4>4. CASE i = Current /\ state.current_item_id # IdOf[i]
        <5>1. state.current_item_id = NoItem
          BY <4>4 DEF ItemInv
        <5>2. builds'[Current'] = 0
          BY <2>3, <4>1, <5>1 DEF BuildInv
        <5> QED BY ONLY <1>2, <5>2
      <4> QED BY <4>2, <4>3, <4>4
    <3>3. CASE SameWork(state', state)
      BY <1>1, <3>1, <3>3 DEF SameWork, SameItems, Current
    <3>4. CASE Built
      BY <1>1, <3>1, <3>3, <3>4 DEF Built, Current
    <3>5. CASE Reviewed \/ Validated \/ Debugged
      BY <1>1, <3>1, <3>5 DEF Reviewed, Validated, Debugged, SameItems, Current
    <3> QED BY <3>2, <3>3, <3>4, <3>5, WorkCases DEF Planned
  <2>4. CASE /\ NeedsBuild(state) /\ builds' = [builds EXCEPT ![Current] = @ + 1]
             /\ Built \/ (Crashed /\ mishaps' = mishaps + 1)
    <3>1. builds'[Current] = builds[Current] + 1
      <4>1. builds \in [Item -> Nat]
        BY DEF TypeOK
      <4> QED BY <1>1, <2>4, <4>1
    <3>2. /\ Current' = Current
          /\ state'.attempts_count + mishaps' >= state.attempts_count + mishaps + 1
      <4>1. CASE Built
        <5>1. Current' = Current /\ state'.attempts_count = state.attempts_count + 1
          BY <2>4, <4>1 DEF Built, Current
        <5> QED BY ONLY <1>1, <1>2, <5>1
      <4>2. CASE Crashed /\ mishaps' = mishaps + 1
        <5>1. Current' = Current /\ state'.attempts_count = state.attempts_count
          BY <4>2 DEF Crashed, control, Current
        <5> QED BY ONLY <1>1, <1>2, <4>2, <5>1
      <4> QED BY <2>4, <4>1, <4>2
    <3>3. builds[Current] \in Nat
      BY <1>1
    <3>4. builds'[Current] <= state'.attempts_count + mishaps'
      BY ONLY <1>1, <1>2, <2>2, <3>1, <3>2, <3>3
    <3> QED BY <3>2, <3>4
  <2> QED BY <1>3, <1>7, <2>3, <2>4
<1>8. ASSUME NEW i \in Item PROVE builds'[i] <= MaxAttempts + mishaps'
  <2>1. builds[i] \in Nat /\ builds[i] <= MaxAttempts + mishaps
    BY <1>1 DEF BuildInv, BuildsBounded
  <2>2. CASE builds'[i] = builds[i]
    <3>1. builds[i] <= MaxAttempts + mishaps'
      BY ONLY <1>1, <1>2, <2>1
    <3> QED BY <2>2, <3>1
  <2>3. CASE i = Current /\ pc = "building" /\ NeedsBuild(state)
    <3>1. builds[i] <= state.attempts_count + mishaps
      BY <2>3 DEF BuildInv, Closers
    <3>2. state.attempts_count < MaxAttempts
      BY <1>1, <2>3 DEF NeedsBuild, Exhausted
    <3>3. builds'[i] \in {builds[i], builds[i] + 1}
      BY <1>4, <2>3
    <3> QED BY ONLY <1>1, <1>2, <2>1, <3>1, <3>2, <3>3
  <2> QED BY <1>3, <1>4, <2>2, <2>3
<1> QED BY <1>5, <1>6, <1>7, <1>8 DEF BuildInv, BuildsBounded, Current

(* Nothing is built at the start.                                          *)
LEMMA BuildStart == Init => BuildInv
<1> SUFFICES ASSUME Init PROVE BuildInv
  OBVIOUS
<1>1. \A i \in Item : builds[i] = 0
  BY DEF Init
<1>2. /\ Current \in Item /\ state.attempts_count \in Nat /\ mishaps \in Nat
      /\ MaxAttempts \in Nat
  BY InitTypes, BuildTypes
<1> QED BY <1>1, <1>2 DEF BuildInv, BuildsBounded

(* The builder runs max_attempts times for an item at most, and once more  *)
(* for every checkpoint that was lost.                                     *)
THEOREM BuildsAreBounded ==
  ASSUME "workspace" \notin Faults
  PROVE  Spec => []BuildsBounded
<1> DEFINE Inv == TypeOK /\ ItemInv /\ BuildInv
<1>1. Init => Inv
  BY InitTypes, ItemStart, BuildStart
<1>2. Inv /\ [Next]_vars => Inv'
  BY TypeStep, ItemStep, BuildStep
<1>3. Inv => BuildsBounded
  BY DEF BuildInv
<1> QED BY <1>1, <1>2, <1>3, PTL DEF Spec
-----------------------------------------------------------------------------
(* Commits: an item is not committed before it is validated, nor twice.    *)
CommitInv ==
  /\ \A i \in Item : i > Current => commits[i] = 0
  /\ Incomplete(state, Current) => commits[Current] = 0
  /\ At({"pre_commit_policy_gate"}) => commits[Current] = 0
  /\ pc = "commit_item" /\ dirty => commits[Current] = 0
  /\ CommittedOnce

(* Only commit_item commits, all the worktree holds, for the current item. *)
LEMMA CommitCases ==
  ASSUME TypeOK, [Next]_vars
  PROVE  \/ commits' = commits
         \/ /\ pc = "commit_item" /\ Commits /\ ~dirty'
            /\ commits' = [commits EXCEPT ![Current] = @ + 1]
            /\ SameWork(state', state)
<1>1. commits' = commits \/ (pc = "commit_item" /\ Commits /\ CommitFiles)
  BY EffectCases
  DEF EffectOf, repository, RunBuilder, PushBranch, CreatePullRequest, PassCheck
<1>2. pc = "commit_item" => SameWork(state', state)
  BY WorkCases, WorkIsLocal
<1> QED BY <1>1, <1>2 DEF CommitFiles, Current

(* Only the builder makes the worktree dirty.                              *)
LEMMA DirtyCases ==
  ASSUME TypeOK, [Next]_vars
  PROVE  \/ dirty' = dirty \/ ~dirty'
         \/ pc = "building" /\ NeedsBuild(state) /\ RunBuilder
  BY EffectCases
  DEF EffectOf, repository, CommitFiles, PushBranch, CreatePullRequest, PassCheck

(* No step commits an item again.                                          *)
LEMMA CommitStep ==
  ASSUME TypeOK, ItemInv, CommitInv, [Next]_vars, "workspace" \notin Faults
  PROVE  CommitInv'
<1>1. Current \in Item /\ Current' \in Item /\ Current' >= Current /\ N \in Nat
      /\ commits \in [Item -> Nat]
  BY BuildTypes, CurrentCases DEF TypeOK
<1>2. CASE commits' # commits
  <2>1. /\ pc = "commit_item" /\ Commits /\ ~dirty'
        /\ commits' = [commits EXCEPT ![Current] = @ + 1]
        /\ SameWork(state', state)
    BY <1>2, CommitCases
  <2>2. /\ Current' = Current
        /\ Incomplete(state', Current) <=> Incomplete(state, Current)
    BY <2>1, SameWorkItems
  <2>3. commits[Current] = 0 /\ ~Incomplete(state, Current)
    BY <2>1 DEF CommitInv, ItemInv, Commits, At, AfterValidation
  <2>4. commits'[Current] = 1 /\ \A i \in Item \ {Current} : commits'[i] = commits[i]
    BY <1>1, <2>1, <2>3
  <2>5. \A i \in Item : i > Current => i # Current
    BY <1>1 DEF Item
  <2>6. ~At({"pre_commit_policy_gate"})'
    <3>1. pc' = "pre_commit_policy_gate" => FALSE
      <4> SUFFICES ASSUME pc' = "pre_commit_policy_gate" PROVE FALSE
        OBVIOUS
      <4>1. CASE Saved(pc)
        <5>1. pc' = "retry_backoff" \/ pc' \in Closers \/ Leads(pc, pc', state')
          BY <4>1, RouteCases DEF Saved
        <5> QED BY <2>1, <5>1 DEF Closers, Leads
      <4>2. CASE ~Saved(pc)
        BY <2>1, <4>2, StayingIsOutside DEF Closers
      <4> QED BY <4>1, <4>2
    <3>2. state'.retry_target # "pre_commit_policy_gate"
      BY TypeStep, StateFields DEF TypeOK, RetryableNodes
    <3> QED BY <3>1, <3>2 DEF At
  <2> QED BY <1>1, <2>1, <2>2, <2>3, <2>4, <2>5, <2>6
          DEF CommitInv, CommittedOnce, Current, At
<1>3. CASE commits' = commits
  <2>1. ASSUME NEW i \in Item, i > Current' PROVE commits[i] = 0
    <3>1. i > Current
      BY ONLY <1>1, <2>1, i \in Item DEF Item
    <3> QED BY <3>1 DEF CommitInv
  <2>2. ASSUME Incomplete(state', Current') PROVE commits[Current'] = 0
    <3>1. ASSUME NEW i \in Item, Picked(i) PROVE commits[Current'] = 0
      <4>1. Current' = i /\ (Incomplete(state', i) <=> Incomplete(state, i))
        BY <3>1, PickedItems
      <4>2. i = Current \/ i > Current
        BY ONLY <1>1, <4>1, i \in Item DEF Item
      <4> QED BY <2>2, <4>1, <4>2 DEF CommitInv
    <3>2. CASE Built \/ Validated
      <4>1. Current' = Current /\ Incomplete(state, Current)
        BY <3>2, BuiltItems, ValidatedItems, WorkIsLocal DEF At, Inner, ItemInv
      <4> QED BY <4>1 DEF CommitInv
    <3> QED BY <2>2, <3>1, <3>2, ItemCases DEF CommitInv
  <2>3. ASSUME At({"pre_commit_policy_gate"})' PROVE commits[Current'] = 0
    <3>1. CASE At({"pre_commit_policy_gate"}) /\ SameWork(state', state)
      BY <3>1, SameWorkItems DEF CommitInv
    <3>2. CASE Saved(pc) /\ pc \in {"pre_commit_policy_gate"} /\ pc' = "retry_backoff"
      BY <3>2 DEF Saved, RetryableNodes
    <3>3. CASE /\ Saved(pc) /\ Leads(pc, pc', state')
               /\ pc' \in {"pre_commit_policy_gate"} /\ pc # "retry_backoff"
      <4>1. pc = "validation" /\ pc' \notin Closers
        BY <3>3 DEF Leads, Closers
      <4>2. Incomplete(state, Current)
        BY <4>1 DEF At, Inner, ItemInv
      <4>3. Current' = Current
        BY <3>3, <4>1, NodesDoTheirWork, ValidatedItems
      <4> QED BY <4>2, <4>3 DEF CommitInv
    <3>4. {"pre_commit_policy_gate"} \in SUBSET (Node \ (Closers \cup {"retry_backoff"}))
      BY DEF Node, RetryableNodes, Closers
    <3> QED BY <2>3, <3>1, <3>2, <3>3, <3>4, ArrivalCases
  <2>4. ASSUME pc' = "commit_item", dirty' PROVE commits[Current'] = 0
    <3>1. pc' \notin Closers
      BY <2>4 DEF Closers
    <3>2. CASE Saved(pc)
      <4>1. pc = "pre_commit_policy_gate"
        <5>1. pc' = "retry_backoff" \/ Leads(pc, pc', state')
          BY <3>1, <3>2, RouteCases DEF Saved
        <5>2. state'.retry_target \in RetryableNodes \cup {""}
          BY TypeStep, StateFields DEF TypeOK
        <5> QED BY <2>4, <5>1, <5>2 DEF Leads, RetryableNodes
      <4>2. Current' = Current
        BY <4>1, WorkCases, WorkIsLocal, SameWorkItems
      <4> QED BY <4>1, <4>2 DEF CommitInv, At
    <3>3. CASE ~Saved(pc)
      <4>1. pc = "commit_item"
        BY <2>4, <3>1, <3>3, StayingIsOutside
      <4>2. dirty
        BY <2>4, <4>1, DirtyCases
      <4>3. Current' = Current
        BY <4>1, WorkCases, WorkIsLocal, SameWorkItems
      <4> QED BY <4>1, <4>2, <4>3 DEF CommitInv
    <3> QED BY <3>2, <3>3
  <2> QED BY <1>3, <2>1, <2>2, <2>3, <2>4
          DEF CommitInv, CommittedOnce, Current, At
<1> QED BY <1>2, <1>3

(* Nothing is committed at the start.                                      *)
LEMMA CommitStart == Init => CommitInv
<1> SUFFICES ASSUME Init PROVE CommitInv
  OBVIOUS
<1>1. (\A i \in Item : commits[i] = 0) /\ Current \in Item
  BY InitTypes, BuildTypes DEF Init
<1> QED BY <1>1 DEF CommitInv, CommittedOnce

(* An item is committed once at most, though the checkpoint of its commit  *)
(* may be lost.                                                            *)
THEOREM ItemsAreCommittedOnce ==
  ASSUME "workspace" \notin Faults
  PROVE  Spec => []CommittedOnce
<1> DEFINE Inv == TypeOK /\ ItemInv /\ CommitInv
<1>1. Init => Inv
  BY InitTypes, ItemStart, CommitStart
<1>2. Inv /\ [Next]_vars => Inv'
  BY TypeStep, ItemStep, CommitStep
<1>3. Inv => CommittedOnce
  BY DEF CommitInv
<1> QED BY <1>1, <1>2, <1>3, PTL DEF Spec
-----------------------------------------------------------------------------
(* The gate has seen the files of an item that is about to be committed.   *)
PolicyInv ==
  pc = "commit_item" /\ ~state.commit_sha /\ delivery # "none" => "policy" \in checked

(* How a run comes to commit_item: from the gate, or it is there.          *)
LEMMA CommitItemIsNext ==
  ASSUME TypeOK, [Next]_vars, "workspace" \notin Faults, pc' = "commit_item"
  PROVE  \/ Gated /\ pc = "pre_commit_policy_gate" /\ state'.policy_gate_passed
         \/ /\ pc = "commit_item" /\ SameWork(state', state)
            /\ state'.commit_sha = state.commit_sha
            /\ Crashed \/ UNCHANGED repository
<1>1. pc' \notin Closers /\ pc' # "retry_backoff"
  BY DEF Closers
<1>2. CASE Saved(pc)
  <2>1. Leads(pc, pc', state')
    BY <1>1, <1>2, RouteCases DEF Saved
  <2>2. state'.retry_target # "commit_item"
    BY TypeStep, StateFields DEF TypeOK, RetryableNodes
  <2>3. pc = "pre_commit_policy_gate" /\ state'.policy_gate_passed
    BY <2>1, <2>2 DEF Leads
  <2> QED BY <1>1, <1>2, <2>3, NodesDoTheirWork
<1>3. CASE ~Saved(pc)
  <2>1. pc = "commit_item" /\ (Crashed \/ Cancelled \/ TimeRanOut \/ UNCHANGED vars)
    BY <1>1, <1>3, StayingIsOutside
  <2>2. CASE Cancelled
    BY <2>1, <2>2 DEF Cancelled, SameCheckpoint
  <2>3. CASE Crashed \/ TimeRanOut \/ UNCHANGED vars
    <3>1. UNCHANGED control /\ (Crashed \/ UNCHANGED repository)
      BY <2>3 DEF Crashed, TimeRanOut, vars
    <3> QED BY <2>1, <3>1 DEF control, SameWork, SameItems
  <2> QED BY <2>1, <2>2, <2>3
<1> QED BY <1>2, <1>3

(* How a run delivers is decided when it starts.                           *)
LEMMA DeliveryIsFixed ==
  ASSUME TypeOK, [Next]_vars
  PROVE  delivery' = delivery
  BY StepKinds
  DEF Returned, Saved, WorkspaceFailed, Halted, Crashed, Cancelled, TimeRanOut, vars

(* No step comes to a commit that the gate has not seen.                   *)
LEMMA PolicyStep ==
  ASSUME TypeOK, PolicyInv, [Next]_vars,
         "workspace" \notin Faults, "status" \notin Faults
  PROVE  PolicyInv'
<1> SUFFICES ASSUME pc' = "commit_item", ~state'.commit_sha, delivery' # "none"
             PROVE  "policy" \in checked'
  BY DEF PolicyInv
<1>1. delivery # "none"
  BY DeliveryIsFixed
<1>2. CASE Gated /\ state'.policy_gate_passed
  <2>1. GateLooks(state)
    BY <1>1, <1>2 DEF Gated, GateLooks
  <2> QED BY <1>2, <2>1 DEF Gated, PassCheck
<1>3. CASE pc = "commit_item" /\ state'.commit_sha = state.commit_sha
  BY <1>1, <1>3, ChecksAreKept DEF PolicyInv
<1> QED BY <1>2, <1>3, CommitItemIsNext

(* A commit holds what validation and the policy gate passed since the     *)
(* worktree last changed, where git status answers.                        *)
THEOREM OnlyCheckedIsCommitted ==
  ASSUME "workspace" \notin Faults, "status" \notin Faults
  PROVE  Spec => CommitsAreChecked
<1> DEFINE Inv == TypeOK /\ ChecksInv /\ PolicyInv
<1>1. Init => Inv
  BY InitTypes, ChecksStart DEF Init, PolicyInv
<1>2. Inv /\ [Next]_vars => Inv'
  BY TypeStep, ChecksStep, PolicyStep
<1>3. ASSUME TypeOK, ChecksInv, PolicyInv, [Next]_vars, commits' # commits
      PROVE  checked = {"validation", "policy"}
  <2>1. pc = "commit_item" /\ Commits
    BY <1>3, CommitCases
  <2>2. "validation" \in checked /\ "policy" \in checked
    BY <1>3, <2>1 DEF Commits, ChecksInv, PolicyInv, At, AfterValidation
  <2> QED BY <1>3, <2>2 DEF TypeOK
<1>4. Inv /\ [Next]_vars =>
        [commits' # commits => checked = {"validation", "policy"}]_vars
  BY <1>3
<1> QED BY <1>1, <1>2, <1>4, PTL DEF Spec, CommitsAreChecked
-----------------------------------------------------------------------------
(* What is not committed is the work of an item that is still to be        *)
(* validated and committed; a sha is that of an item that was.             *)
DirtyInv ==
  /\ state.commit_sha => /\ ~Incomplete(state, Current)
                         /\ state.current_item_id = IdOf[Current]
                         /\ ~At(AfterValidation)
  /\ dirty /\ delivery = "github" =>
       Incomplete(state, Current) \/ pc \in AfterValidation \cup Closers

(* Only planning and commit_item change the sha.                           *)
LEMMA ShaCases ==
  ASSUME TypeOK, [Next]_vars
  PROVE  state'.commit_sha = state.commit_sha \/ Planned \/ Committed
<1>1. CASE Built \/ Reviewed \/ Validated \/ Debugged \/ Gated \/ BranchPushed
           \/ PullRequestOpened \/ (\E n \in QuietNodes : Passed(n))
  BY <1>1 DEF Built, Reviewed, Validated, Debugged, Gated, BranchPushed,
              PullRequestOpened, Passed
<1>2. CASE Halted \/ WorkspaceFailed \/ Cancelled
  BY <1>2 DEF Halted, WorkspaceFailed, Cancelled, SameCheckpoint
<1>3. CASE Crashed \/ TimeRanOut \/ UNCHANGED vars
  <2>1. UNCHANGED control
    BY <1>3 DEF Crashed, TimeRanOut, vars
  <2> QED BY <2>1 DEF control
<1> QED BY <1>1, <1>2, <1>3, StepCases

(* commit_item leaves the items.                                           *)
LEMMA CommittedIsSaved ==
  Committed => pc = "commit_item" /\ Saved(pc) /\ SameWork(state', state)
  BY DEF Committed, Quiet, Returned, Saved

(* A run on the way from validation to its commit has no sha yet.          *)
LEMMA NoShaBeforeCommit ==
  ASSUME TypeOK, ItemInv, DirtyInv, [Next]_vars, At(AfterValidation)'
  PROVE  ~state'.commit_sha
<1>1. \/ At(AfterValidation) /\ state'.commit_sha = state.commit_sha
      \/ Saved(pc) /\ pc \in {"validation", "pre_commit_policy_gate"}
  <2>1. CASE Saved(pc) /\ pc \in AfterValidation /\ pc' = "retry_backoff"
    BY <2>1 DEF Saved, AfterValidation, RetryableNodes
  <2>2. CASE /\ Saved(pc) /\ Leads(pc, pc', state') /\ pc' \in AfterValidation
             /\ pc # "retry_backoff"
    BY <2>2 DEF Leads, AfterValidation
  <2> QED BY <2>1, <2>2, ArrivalCases, NodeNames
<1>2. CASE At(AfterValidation) /\ state'.commit_sha = state.commit_sha
  BY <1>2 DEF DirtyInv
<1>3. CASE pc \in {"validation", "pre_commit_policy_gate"}
  <2>1. state'.commit_sha = state.commit_sha
    BY <1>3, ShaCases, WorkIsLocal, CommittedIsSaved
  <2>2. ~state.commit_sha
    BY <1>3 DEF DirtyInv, ItemInv, At, AfterValidation, Inner
  <2> QED BY <2>1, <2>2
<1> QED BY <1>1, <1>2, <1>3

(* No step leaves work outside a commit that no node will commit.          *)
LEMMA DirtyStep ==
  ASSUME TypeOK, ItemInv, DirtyInv, [Next]_vars,
         "workspace" \notin Faults, "status" \notin Faults,
         \A i, j \in Item : IdOf[i] = IdOf[j] => i = j
  PROVE  DirtyInv'
<1>1. Current \in Item /\ Current' \in Item /\ Current' >= Current /\ N \in Nat
  BY BuildTypes, CurrentCases
<1>2. ASSUME state'.commit_sha
      PROVE  /\ ~Incomplete(state', Current')
             /\ state'.current_item_id = IdOf[Current']
  <2>1. CASE Committed
    <3>1. ~Incomplete(state, Current) /\ state.current_item_id = IdOf[Current]
      BY <2>1, CommittedIsSaved DEF ItemInv, At, AfterValidation
    <3> QED BY <2>1, <3>1, CommittedIsSaved, SameWorkItems
  <2>2. ASSUME NEW i \in Item, Picked(i) PROVE FALSE
    <3>1. /\ state.commit_sha /\ state.current_item_id = IdOf[i]
          /\ Incomplete(state, i)
      BY <1>2, <2>2 DEF Picked
    <3>2. ~Incomplete(state, Current) /\ state.current_item_id = IdOf[Current]
      BY <3>1 DEF DirtyInv
    <3> QED BY <1>1, <3>1, <3>2
  <2>3. CASE state'.commit_sha = state.commit_sha
    <3>1. ~Incomplete(state, Current) /\ state.current_item_id = IdOf[Current]
      BY <1>2, <2>3 DEF DirtyInv
    <3>2. ~(Built \/ Validated)
      BY <3>1, WorkIsLocal DEF ItemInv, At, Inner
    <3> QED BY <2>2, <3>1, <3>2, ItemCases
  <2>4. CASE Planned
    BY <2>2, <2>3, <2>4 DEF Planned
  <2> QED BY <2>1, <2>3, <2>4, ShaCases
<1>3. ASSUME dirty', delivery' = "github",
             pc' \notin AfterValidation \cup Closers
      PROVE  Incomplete(state', Current')
  <2>1. delivery = "github" /\ pc \notin Closers
    BY <1>3, DeliveryIsFixed, GoingOnIsLeaving, StayingIsOutside
  <2>2. CASE Incomplete(state, Current)
    <3>1. ASSUME NEW i \in Item, Picked(i) PROVE Incomplete(state', Current')
      BY <3>1, PickedItems
    <3>2. CASE Built
      BY <1>1, <2>2, <3>2, BuiltItems
    <3>3. CASE Validated
      <4>1. pc = "validation" /\ Saved(pc)
        BY <3>3, WorkIsLocal
      <4>2. pc' = "retry_backoff" \/ Leads(pc, pc', state')
        BY <1>3, <4>1, RouteCases DEF Saved
      <4>3. ~state'.validation_passed
        BY <1>3, <3>3, <4>1, <4>2 DEF Validated, Leads, AfterValidation
      <4> QED BY <3>3, <4>3, ValidatedItems
    <3> QED BY <2>2, <3>1, <3>2, <3>3, ItemCases
  <2>3. CASE ~Incomplete(state, Current)
    <3>1. ~(pc = "building")
      BY <2>3 DEF ItemInv, At, Inner
    <3>2. dirty /\ pc \in AfterValidation
      BY <1>3, <2>1, <2>3, <3>1, DirtyCases DEF DirtyInv
    <3>3. Saved(pc)
      BY <1>3, <3>2, StayingIsOutside
    <3>4. pc' = "retry_backoff" \/ Leads(pc, pc', state')
      BY <1>3, <3>3, RouteCases DEF Saved
    <3>5. pc = "commit_item"
      BY <1>3, <3>2, <3>3, <3>4 DEF Saved, Leads, AfterValidation, RetryableNodes
    <3>6. Commits
      BY <2>1, <3>2, <3>5 DEF Commits, DirtyInv, At
    <3>7. Committed
      BY <1>3, <3>3, <3>5, NodesDoTheirWork
    <3> QED BY <1>3, <3>6, <3>7 DEF Committed, CommitFiles
  <2> QED BY <2>2, <2>3
<1> QED BY <1>2, <1>3, NoShaBeforeCommit DEF DirtyInv, At, Current

(* The worktree is clean at the start.                                     *)
LEMMA DirtyStart == Init => DirtyInv
  BY DEF Init, DirtyInv

(* What is pushed is every item, and all the work of the run.              *)
THEOREM PushesAreComplete ==
  ASSUME "workspace" \notin Faults, "status" \notin Faults,
         \A i, j \in Item : IdOf[i] = IdOf[j] => i = j
  PROVE  Spec => PushIsComplete
<1> DEFINE Inv == TypeOK /\ ItemInv /\ DirtyInv
<1>1. Init => Inv
  BY InitTypes, ItemStart, DirtyStart
<1>2. Inv /\ [Next]_vars => Inv'
  BY TypeStep, ItemStep, DirtyStep
<1>3. ASSUME TypeOK, ItemInv, DirtyInv, [Next]_vars, pushed' # pushed
      PROVE  ~dirty /\ \A i \in Item : ~Incomplete(state, i)
  <2>1. pc = "push_node" /\ delivery = "github"
    BY <1>3, EffectCases
    DEF EffectOf, repository, RunBuilder, CommitFiles, CreatePullRequest, PassCheck
  <2>2. \A i \in Item : ~Incomplete(state, i)
    BY <1>3, <2>1 DEF ItemInv, At
  <2>3. ~Incomplete(state, Current)
    BY <1>3, <2>2, BuildTypes
  <2> QED BY <1>3, <2>1, <2>2, <2>3 DEF DirtyInv, AfterValidation, Closers
<1>4. Inv /\ [Next]_vars =>
        [pushed' # pushed => ~dirty /\ \A i \in Item : ~Incomplete(state, i)]_vars
  BY <1>3
<1> QED BY <1>1, <1>2, <1>4, PTL DEF Spec, PushIsComplete
-----------------------------------------------------------------------------
(* The branch is pushed before its pull request is opened, and that is     *)
(* opened once.                                                            *)
HandoffInv ==
  /\ At({"pull_request_node"}) /\ delivery = "github" => pushed
  /\ prs <= 1

(* What is pushed stays pushed, and at most one pull request is opened by  *)
(* a step, the first.                                                      *)
LEMMA PushedStays ==
  ASSUME TypeOK, [Next]_vars
  PROVE  /\ pushed => pushed'
         /\ prs' = prs \/ (prs = 0 /\ prs' = 1)
<1>1. CASE UNCHANGED repository
  BY <1>1 DEF repository
<1>2. CASE EffectOf(pc)
  BY <1>2 DEF EffectOf, RunBuilder, CommitFiles, PushBranch, CreatePullRequest,
              PassCheck, LooksUpNone
<1> QED BY <1>1, <1>2, EffectCases

(* No step comes to the pull request of a branch that is not pushed.       *)
LEMMA HandoffStep ==
  ASSUME TypeOK, HandoffInv, [Next]_vars, "workspace" \notin Faults
  PROVE  HandoffInv'
<1>1. ASSUME At({"pull_request_node"})', delivery' = "github" PROVE pushed'
  <2>1. delivery = "github"
    BY <1>1, DeliveryIsFixed
  <2>2. CASE At({"pull_request_node"})
    BY <2>1, <2>2, PushedStays DEF HandoffInv
  <2>3. CASE pc \in {"pull_request_node"}
    BY <2>2, <2>3 DEF At
  <2>4. CASE /\ Saved(pc) /\ Leads(pc, pc', state')
             /\ pc' \in {"pull_request_node"} /\ pc # "retry_backoff"
    <3>1. pc = "push_node" /\ pc' \notin Closers
      BY <2>4 DEF Leads, Closers
    <3> QED BY <2>1, <2>4, <3>1, NodesDoTheirWork DEF BranchPushed
  <2> QED BY <1>1, <2>2, <2>3, <2>4, ArrivalCases, NodeNames
<1>2. prs' <= 1
  BY PushedStays DEF HandoffInv
<1> QED BY <1>1, <1>2 DEF HandoffInv, At

(* No step ends a run as delivered with work left to do.                   *)
LEMMA DeliveredStep ==
  ASSUME TypeOK, StopIsStopped, ItemInv, DirtyInv, HandoffInv, DeliveredIsComplete,
         [Next]_vars, "workspace" \notin Faults
  PROVE  DeliveredIsComplete'
<1> SUFFICES ASSUME pc' = "end", state'.status \in Delivered
             PROVE  /\ \A i \in Item : ~Incomplete(state', i)
                    /\ delivery' = "github" => ~dirty' /\ pushed' /\ prs' = 1
  BY DEF DeliveredIsComplete, Delivered
<1>1. ~EndsUndelivered
  BY DEF EndsUndelivered
<1>2. CASE Planned \/ Built \/ Reviewed \/ Validated \/ Debugged \/ Gated
  BY <1>2, OnlySomeEnd
  DEF Planned, Built, Reviewed, Validated, Debugged, Gated, Returned, Node,
      RetryableNodes
<1>3. ASSUME NEW n \in QuietNodes, Passed(n) PROVE FALSE
  <2>1. n = "stop_run" /\ state'.status = state.status
    BY <1>1, <1>3 DEF Passed
  <2>2. state.status \in StopStatuses
    BY <1>3, <2>1 DEF Passed, Quiet, Returned, Saved, StopIsStopped, RunStopped
  <2> QED BY <2>1, <2>2 DEF StopStatuses, Delivered, PullRequestStatuses
<1>4. CASE BranchPushed
  <2>1. pc = "push_node" /\ SameWork(state', state) /\ delivery = "none"
    BY <1>4 DEF BranchPushed, Quiet, Returned, Saved
  <2>2. \A i \in Item : ~Incomplete(state, i)
    BY <2>1 DEF ItemInv, At
  <2> QED BY <2>1, <2>2, SameWorkItems, DeliveryIsFixed
<1>5. CASE PullRequestOpened
  <2>1. pc = "pull_request_node" /\ SameWork(state', state)
    BY <1>5 DEF PullRequestOpened, Quiet, Returned, Saved
  <2>2. \A i \in Item : ~Incomplete(state, i)
    BY <2>1 DEF ItemInv, At
  <2>3. ASSUME delivery' = "github" PROVE ~dirty' /\ pushed' /\ prs' = 1
    <3>1. delivery = "github" /\ pushed /\ prs' # 0
      BY <1>5, <2>1, <2>3, DeliveryIsFixed DEF PullRequestOpened, HandoffInv, At
    <3>2. prs' = 1
      <4>1. prs \in Nat
        BY DEF TypeOK
      <4>2. prs' = prs \/ prs' = 1
        BY PushedStays
      <4>3. prs <= 1
        BY DEF HandoffInv
      <4> QED BY ONLY <3>1, <4>1, <4>2, <4>3
    <3>3. ~dirty
      <4>1. ~Incomplete(state, Current)
        BY <2>2, BuildTypes
      <4> QED BY <2>1, <3>1, <4>1 DEF DirtyInv, AfterValidation, Closers
    <3>4. ~dirty'
      BY <2>1, <3>3, DirtyCases
    <3> QED BY <3>1, <3>2, <3>4, PushedStays
  <2> QED BY <2>1, <2>2, <2>3, SameWorkItems
<1>6. CASE Crashed \/ TimeRanOut
  BY <1>6 DEF Crashed, TimeRanOut, control, Node, RetryableNodes
<1>7. CASE Cancelled
  BY <1>7 DEF Cancelled, Delivered, PullRequestStatuses
<1>8. CASE UNCHANGED vars
  BY <1>8 DEF vars, control, repository, DeliveredIsComplete, Delivered, Incomplete
<1> QED
  BY <1>1, <1>2, <1>3, <1>4, <1>5, <1>6, <1>7, <1>8, StepCases
  DEF Committed, Halted, WorkspaceFailed

(* A run that ends as delivered has done every item and, on GitHub, has    *)
(* all its work committed and pushed and one pull request.                 *)
THEOREM DeliveriesAreComplete ==
  ASSUME "workspace" \notin Faults, "status" \notin Faults,
         \A i, j \in Item : IdOf[i] = IdOf[j] => i = j
  PROVE  Spec => []DeliveredIsComplete
<1> DEFINE Inv == /\ TypeOK /\ StopIsStopped /\ ItemInv /\ DirtyInv /\ HandoffInv
                  /\ DeliveredIsComplete
<1>1. Init => Inv
  <2> SUFFICES ASSUME Init PROVE Inv
    OBVIOUS
  <2>1. pc = "preflight" /\ prs = 0
    BY DEF Init
  <2>2. HandoffInv
    BY ONLY <2>1 DEF HandoffInv, At
  <2>3. StopIsStopped /\ DeliveredIsComplete
    BY <2>1 DEF StopIsStopped, DeliveredIsComplete
  <2> QED BY <2>2, <2>3, InitTypes, ItemStart, DirtyStart
<1>2. Inv /\ [Next]_vars => Inv'
  BY TypeStep, StopIsStoppedStep, ItemStep, DirtyStep, HandoffStep, DeliveredStep
<1>3. Inv => DeliveredIsComplete
  OBVIOUS
<1> QED BY <1>1, <1>2, <1>3, PTL DEF Spec
=============================================================================

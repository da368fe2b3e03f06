----------------------------- MODULE RunSession -----------------------------
(***************************************************************************)
(* Sessions on a run: invocations of the graph by processes that share the *)
(* checkpoint store and the lease table.  An invocation loads the latest   *)
(* checkpoint, runs nodes under the lease, and puts a checkpoint after     *)
(* each; it ends at the end of the graph or at a question to the operator, *)
(* whose answer starts another invocation, usually in another process.     *)
(*                                                                         *)
(* Every action is an action of RunLifecycle joined with what it does to   *)
(* the checkpoint, the session and the repository.  The nodes here are the *)
(* ones that ask, act outside the checkpoint or end the run; the others    *)
(* are part of the node before them.                                       *)
(***************************************************************************)
EXTENDS RunLifecycle, Sequences

CONSTANT NoSession   (* a process that is in no invocation *)

Ending == {"stop_run", "failed_run", "end"}
Node == {"planning", "building", "commit_item", "push_node",
         "pull_request_node"} \cup Ending

(* The question a node puts to the operator before its side effect. *)
ActionOf == [commit_item |-> "commit", push_node |-> "push",
             pull_request_node |-> "open_pull_request"]
Question == {"recovery", "commit", "push", "open_pull_request"}

(* An answer, with the node the run was at and the question that was       *)
(* pending when the operator gave it.                                      *)
Answer == [value : {"approve", "reject"}, at : Node, to : Question \cup {"none"}]

(* A checkpoint: the node to run next, the recorded commit_sha, the        *)
(* cancellation request, reconciled_recovery_count, and LangGraph's        *)
(* pending writes: the interrupt, the answers that node has had, and the   *)
(* answer the invocation was started with.                                 *)
Checkpoint ==
  [next : Node, committed : BOOLEAN, cancel : BOOLEAN,
   reconciled : 0..MaxRecoveries, asked : Question \cup {"none"},
   given : Seq(Answer), spare : Seq(Answer)]

SessionStatus ==
  {"open", "run_locked", "complete", "pr_created", "failed", "cancelled",
   "approval_denied"}
Put == [checkpoint : Checkpoint, status : SessionStatus]
LatePut == [checkpoint : Checkpoint, status : SessionStatus \cap TerminalRunStatuses]

(* loaded is the state the invocation goes on from; update is what the     *)
(* node it is in returned; late is a checkpoint put in the background.     *)
Session ==
  [run : Run, loaded : Checkpoint, count : 0..MaxRecoveries,
   recovered : BOOLEAN, update : Seq(Put), late : Seq(LatePut)]

Repository == [dirty : BOOLEAN, commit : {"none", "made", "gone"}]

VARIABLES
  head,     (* the latest checkpoint of each run                          *)
  latest,   (* the processes in a session whose checkpoint is the latest  *)
  session,  (* the invocation each process is in                          *)
  repo,     (* the worktree of each run, and the commit made there        *)
  history   (* what the properties remember; no action reads it           *)

sessionVars == <<head, latest, session, repo, history>>
allVars == <<vars, sessionVars>>

(* history: runs taken over while their recorded commit is gone and not    *)
(* yet reviewed (doubt), whose recoveries are counted anew as their lease  *)
(* was released (recounted), cancelled while no invocation was on them     *)
(* (stopped); and runs with a side effect in doubt (unreviewed), after     *)
(* that cancellation (afterStop) or on an answer given elsewhere           *)
(* (unapproved).                                                           *)
History == [doubt : SUBSET Run, recounted : SUBSET Run, stopped : SUBSET Run,
            unreviewed : SUBSET Run, afterStop : SUBSET Run, unapproved : SUBSET Run]

Input == [next |-> "planning", committed |-> FALSE, cancel |-> FALSE,
          reconciled |-> 0, asked |-> "none", given |-> <<>>, spare |-> <<>>]

SessionInit ==
  /\ Init
  /\ head = [r \in Run |-> Input]
  /\ latest = [r \in Run |-> {}]
  /\ session = [o \in Owner |-> NoSession]
  /\ repo = [r \in Run |-> [dirty |-> FALSE, commit |-> "none"]]
  /\ history = [doubt |-> {}, recounted |-> {}, stopped |-> {}, unreviewed |-> {},
                afterStop |-> {}, unapproved |-> {}]
-----------------------------------------------------------------------------
(* The routes after a node returns with a status. *)
AfterStatus(node, status) == status
After(node, status) ==
  CASE status \in {"run_locked", "cancelled"} ->
         IF node \in {"planning", "building", "commit_item"} THEN "stop_run" ELSE "end"
    [] status = "failed" ->
         IF node \in {"planning", "building"} THEN "failed_run" ELSE "end"
    [] status = "complete" -> "push_node"
    [] status \in {"approval_denied", "pr_created"} -> "end"
    [] OTHER ->
         CASE node = "planning" -> "building"
           [] node = "building" -> "commit_item"
           [] node = "commit_item" -> "push_node"
           [] node = "push_node" -> "pull_request_node"
           [] OTHER -> "end"

(* The checkpoint after a node: no answer goes with it to the next node.   *)
FollowingKeepsAnswer(checkpoint, status) ==
  [checkpoint EXCEPT !.next = After(@, status), !.asked = "none", !.given = <<>>]
Following(checkpoint, status) ==
  [checkpoint EXCEPT !.next = After(@, status), !.asked = "none",
                     !.given = <<>>, !.spare = <<>>]

(* A wrapper that finds the run recovered, in this call or in an earlier   *)
(* one that paused, compares the checkpoint with the repository.           *)
ReconcilesOnce(s) == s.recovered
Reconciles(s) == s.recovered \/ s.count > s.loaded.reconciled
Mismatch(s) == s.loaded.committed /\ repo[s.run].commit = "gone"

(* The questions of the node, in the order it asks them when it is run     *)
(* from its start, and the answers LangGraph hands to it in that order.    *)
NodeQuestions(checkpoint) ==
  IF checkpoint.next \in DOMAIN ActionOf
     /\ ~(checkpoint.next = "commit_item" /\ checkpoint.committed)
  THEN <<ActionOf[checkpoint.next]>> ELSE <<>>
Questions(s) ==
  (IF Reconciles(s) /\ Mismatch(s) THEN <<"recovery">> ELSE <<>>)
    \o NodeQuestions(s.loaded)
Answers(s) == s.loaded.given \o s.loaded.spare

InSession(o) == session[o] # NoSession
NoOneOn(r, o) == \A p \in Owner \ {o} : InSession(p) => session[p].run # r

(* put makes the process's checkpoint the latest; the session goes on from *)
(* it, or is over.                                                         *)
Store(o, r, checkpoint) ==
  /\ head' = [head EXCEPT ![r] = checkpoint]
  /\ latest' = [latest EXCEPT ![r] = {o}]
Continue(o, checkpoint, late) ==
  session' = [session EXCEPT ![o] =
    IF checkpoint.next = "end" THEN NoSession
    ELSE [@ EXCEPT !.loaded = checkpoint, !.recovered = FALSE,
                   !.update = <<>>, !.late = late]]
-----------------------------------------------------------------------------
(* graph.invoke with Command(resume=answer), which LangGraph keeps beside  *)
(* the loaded checkpoint; or with the input of the run; or, as `runs       *)
(* cancel` does, with None.                                                *)
BeginAfresh(o, r, spare) ==
  /\ pc[o] = "idle" /\ ~InSession(o) /\ pending[o] = {}
  /\ head[r].next # "end"
  /\ head' = [head EXCEPT ![r].spare = spare, ![r].asked = "none"]
  /\ latest' = [latest EXCEPT ![r] = @ \cup {o}]
  /\ session' = [session EXCEPT ![o] =
       [run |-> r, loaded |-> head'[r], count |-> 0, recovered |-> FALSE,
        update |-> <<>>, late |-> <<>>]]
  /\ UNCHANGED <<repo, history>>
Begin(o, r, spare) ==
  /\ pc[o] = "idle" /\ ~InSession(o) /\ pending[o] = {}
  /\ head[r].next # "end"
  /\ head' = [head EXCEPT ![r].spare = spare]
  /\ latest' = [latest EXCEPT ![r] = @ \cup {o}]
  /\ session' = [session EXCEPT ![o] =
       [run |-> r, loaded |-> head'[r], count |-> 0, recovered |-> FALSE,
        update |-> <<>>, late |-> <<>>]]
  /\ UNCHANGED <<repo, history>>

Resume(o, r, value) ==
  /\ PutWrites(o)
  /\ Begin(o, r, <<[value |-> value, at |-> head[r].next, to |-> head[r].asked]>>)
Invoke(o, r) ==
  /\ head[r] = Input \/ head[r].cancel
  /\ UNCHANGED vars
  /\ Begin(o, r, head[r].spare)

Between(o) == InSession(o) /\ session[o].update = <<>>

(* RunBusyError: the refused invocation puts status run_locked, after the  *)
(* checkpoint of whoever holds the lease.                                  *)
RefusedGoesOn(o) ==
  LET s == session[o] IN
  /\ Between(o) /\ pc[o] = "idle" /\ Blocked(o, s.run)
  /\ Goto(o, "node", {s.run})
  /\ UNCHANGED <<tables, writer, rows, pending, granted, sweptLive, sessionVars>>
Refused(o) ==
  LET s == session[o] IN
  /\ Between(o) /\ s.late = <<>>
  /\ AcquireBusy(o, s.run)
  /\ Store(o, s.run, Following(s.loaded, "run_locked"))
  /\ Continue(o, Following(s.loaded, "run_locked"), <<>>)
  /\ UNCHANGED <<repo, history>>

Enter(o) ==
  LET s == session[o] IN
  /\ Between(o)
  /\ Acquire(o, s.run)
  /\ session' = [session EXCEPT
       ![o].recovered = Recovered(o, s.run),
       ![o].count = RecoveryCount(s.run) + IF Recovered(o, s.run) THEN 1 ELSE 0]
  /\ history' = IF Recovered(o, s.run) /\ Mismatch(s)
                THEN [history EXCEPT !.doubt = @ \cup ({s.run} \ history.recounted)]
                ELSE history
  /\ UNCHANGED <<head, latest, repo>>

InNode(o) == pc[o] = "node" /\ Between(o)

(* _stop_reason sees the request in the checkpoint before the node runs.   *)
Stop(o) ==
  LET s == session[o] IN
  /\ InNode(o) /\ s.loaded.cancel
  /\ StopEarly(o, s.run)
  /\ session' = [session EXCEPT ![o].update =
       <<[checkpoint |-> Following(s.loaded, "cancelled"), status |-> "cancelled"]>>]
  /\ UNCHANGED <<head, latest, repo, history>>

(* interrupt() finds no answer: the question, and the answers the node has *)
(* used, are written beside the checkpoint the process loaded; if another  *)
(* process has put one since, nobody will read them.                       *)
Pause(o) ==
  LET s == session[o] IN
  /\ InNode(o) /\ ~s.loaded.cancel /\ s.late = <<>>
  /\ Len(Answers(s)) < Len(Questions(s))
  /\ MarkInterrupted(o, s.run)
  /\ head' = IF o \in latest[s.run]
             THEN [head EXCEPT ![s.run].asked = Questions(s)[Len(Answers(s)) + 1],
                               ![s.run].given = Answers(s)]
             ELSE head
  /\ latest' = [latest EXCEPT ![s.run] = @ \ {o}]
  /\ session' = [session EXCEPT ![o] = NoSession]
  /\ UNCHANGED <<repo, history>>

(* The node runs to its end with the answers it has: what it does to the   *)
(* worktree, and the update it returns.                                    *)
Returns(o, status, committed) ==
  LET s == session[o]
      kept == [s.loaded EXCEPT !.committed = committed,
                 !.reconciled = IF Reconciles(s) THEN s.count ELSE @]
  IN
  session' = [session EXCEPT ![o].update =
    <<[checkpoint |-> Following(kept, status), status |-> status]>>]

Plan(o, s) ==
  /\ s.loaded.next = "planning"
  /\ \E status \in {"open", "complete"} : Returns(o, status, s.loaded.committed)
  /\ UNCHANGED repo

Build(o, s) ==
  /\ s.loaded.next = "building"
  /\ \E changed \in BOOLEAN :
       repo' = [repo EXCEPT ![s.run].dirty = @ \/ changed]
  /\ Returns(o, "open", s.loaded.committed)

(* An item with a recorded commit is passed over without a question.       *)
Skip(o, s) ==
  /\ s.loaded.next = "commit_item" /\ s.loaded.committed
  /\ Returns(o, "open", TRUE)
  /\ UNCHANGED repo

Deny(o, s, answer) ==
  /\ answer.value = "reject"
  /\ Returns(o, "approval_denied", s.loaded.committed)
  /\ UNCHANGED repo

Commit(o, s) ==
  /\ s.loaded.next = "commit_item"
  /\ repo' = IF repo[s.run].dirty
             THEN [repo EXCEPT ![s.run] = [dirty |-> FALSE, commit |-> "made"]]
             ELSE repo
  /\ Returns(o, "open", repo[s.run].dirty)

HandOff(o, s) ==
  /\ s.loaded.next \in {"push_node", "pull_request_node"}
  /\ Returns(o, IF s.loaded.next = "push_node" THEN "open" ELSE "pr_created",
             s.loaded.committed)
  /\ UNCHANGED repo

Finish(o, s) ==
  /\ s.loaded.next \in {"stop_run", "failed_run"}
  /\ Returns(o, IF s.loaded.next = "failed_run" THEN "failed" ELSE "run_locked",
             s.loaded.committed)
  /\ UNCHANGED repo

(* What the run will be remembered for. *)
Reviewed(s) ==
  IF Questions(s) # <<>> /\ Questions(s)[1] = "recovery"
  THEN [history EXCEPT !.doubt = @ \ {s.run}]
  ELSE history
Acted(o, s, answer) ==
  [Reviewed(s) EXCEPT
     !.doubt = IF s.loaded.next = "commit_item" THEN @ \ {s.run} ELSE @,
     !.unreviewed = @ \cup IF s.loaded.committed /\ granted[o][s.run] > 0
                           THEN {s.run} \cap Reviewed(s).doubt ELSE {},
     !.afterStop = @ \cup ({s.run} \cap history.stopped),
     !.unapproved = @ \cup IF answer.value = "approve" /\ answer.at = s.loaded.next
                           THEN {} ELSE {s.run}]

Work(o) ==
  LET s == session[o]
      answer == Answers(s)[Len(Questions(s))]
  IN
  /\ InNode(o) /\ ~s.loaded.cancel
  /\ Len(Answers(s)) >= Len(Questions(s))
  /\ \/ (Plan(o, s) \/ Build(o, s) \/ Skip(o, s) \/ Finish(o, s))
          /\ history' = Reviewed(s)
     \/ /\ NodeQuestions(s.loaded) # <<>>
        /\ \/ Deny(o, s, answer) /\ history' = Reviewed(s)
           \/ /\ answer.value = "approve"
              /\ Commit(o, s) \/ HandOff(o, s)
              /\ history' = Acted(o, s, answer)
  /\ UNCHANGED <<vars, head, latest>>

Return(o) ==
  LET s == session[o] IN
  /\ pc[o] = "node" /\ InSession(o) /\ s.update # <<>>
  /\ \/ Heartbeat(o, s.run) /\ UNCHANGED session
     \/ /\ HeartbeatLost(o, s.run)
        /\ session' = [session EXCEPT ![o].update =
             <<[checkpoint |-> [@[1].checkpoint EXCEPT
                                  !.next = After(s.loaded.next, "failed")],
                status |-> "failed"]>>]
  /\ UNCHANGED <<head, latest, repo, history>>

(* What is remembered when a lease is released. *)
Freed(o, r) ==
  IF Owns(o, r)
  THEN [history EXCEPT !.recounted = @ \cup {r}, !.doubt = @ \ {r}] ELSE history

(* The checkpoint after a node is put; one with a terminal status also     *)
(* releases the lease, at once or, when the run goes on, in the background.*)
Save(o) ==
  LET s == session[o]
      put == s.update[1]
  IN
  /\ InSession(o) /\ s.update # <<>>
  /\ \/ /\ IF put.status \in TerminalRunStatuses
           THEN PutTerminal(o, s.run, put.status)
           ELSE PutOpen(o, s.run)
        /\ Store(o, s.run, put.checkpoint)
        /\ Continue(o, put.checkpoint, <<>>)
        /\ history' = IF put.status \in TerminalRunStatuses
                      THEN Freed(o, s.run) ELSE history
     \/ /\ put.status \in TerminalRunStatuses /\ put.checkpoint.next # "end"
        /\ PutLater(o, s.run)
        /\ Continue(o, put.checkpoint, <<put>>)
        /\ UNCHANGED <<head, latest, history>>
  /\ UNCHANGED repo

SaveLate(o) ==
  LET s == session[o]
      put == s.late[1]
  IN
  /\ InSession(o) /\ s.late # <<>>
  /\ PutPending(o, s.run, put.status)
  /\ Store(o, s.run, put.checkpoint)
  /\ session' = [session EXCEPT ![o].late = <<>>]
  /\ history' = Freed(o, s.run)
  /\ UNCHANGED repo

(* `runs cancel` updates the latest checkpoint from a process of its own.  *)
(* The route of the node that ran last leads to stop_run, after a push to  *)
(* the end.  A process that is in a node reads its own state, not this.    *)
CancelRunUnread(o, r) ==
  /\ ~InSession(o)
  /\ Cancel(o, r)
  /\ history' = IF NoOneOn(r, o)
                THEN [history EXCEPT !.stopped = @ \cup {r}] ELSE history
  /\ UNCHANGED <<head, latest, session, repo>>
CancelRun(o, r) ==
  LET stop == IF head[r].next \in {"pull_request_node", "end"} THEN "end" ELSE "stop_run"
  IN
  /\ ~InSession(o)
  /\ Cancel(o, r)
  /\ head' = [head EXCEPT ![r] =
       [@ EXCEPT !.next = stop, !.cancel = TRUE, !.asked = "none",
                 !.given = <<>>, !.spare = <<>>]]
  /\ latest' = [latest EXCEPT ![r] = {}]
  /\ history' = IF NoOneOn(r, o)
                THEN [history EXCEPT !.stopped = @ \cup {r}] ELSE history
  /\ UNCHANGED <<session, repo>>

ReleaseCancelled(o, r) ==
  /\ ~InSession(o)
  /\ PutPending(o, r, "cancelled")
  /\ history' = Freed(o, r)
  /\ UNCHANGED <<head, latest, session, repo>>
-----------------------------------------------------------------------------
Die(o) ==
  /\ Crash(o)
  /\ session' = [session EXCEPT ![o] = NoSession]
  /\ latest' = [r \in Run |-> latest[r] \ {o}]
  /\ UNCHANGED <<head, repo, history>>

Leave(o) == ~InSession(o) /\ Exit(o) /\ UNCHANGED sessionVars

TimePasses == Tick /\ UNCHANGED sessionVars

(* Somebody resets the branch, and the commit is lost. *)
LoseCommit(r) ==
  /\ repo[r].commit = "made"
  /\ repo' = [repo EXCEPT ![r].commit = "gone"]
  /\ UNCHANGED <<vars, head, latest, session, history>>

SessionStep(o) ==
  \/ \E r \in Run :
       \/ \E value \in {"approve", "reject"} : Resume(o, r, value)
       \/ Invoke(o, r)
       \/ CancelRun(o, r)
       \/ ReleaseCancelled(o, r)
  \/ Refused(o) \/ Enter(o) \/ Stop(o) \/ Pause(o) \/ Work(o) \/ Return(o)
  \/ Save(o) \/ SaveLate(o) \/ Leave(o) \/ Die(o)

SessionNext ==
  (\E o \in Owner : SessionStep(o)) \/ TimePasses \/ (\E r \in Run : LoseCommit(r))

SessionSpec == SessionInit /\ [][SessionNext]_allVars
-----------------------------------------------------------------------------
(* Types of the checkpoints, the sessions and the worktrees.               *)
SessionTypeOK ==
  /\ head \in [Run -> Checkpoint]
  /\ latest \in [Run -> SUBSET Owner]
  /\ session = [o \in Owner |-> session[o]]
  /\ \A o \in Owner : InSession(o) => session[o] \in Session
  /\ repo \in [Run -> Repository]
  /\ history \in History

(* A commit, a push or a pull request happens on an approval the operator  *)
(* gave while the run stood at that very node: through crashes, takeovers, *)
(* late answers and processes that overtake each other, no answer is used  *)
(* for another node's side effect.                                         *)
EffectIsApproved == history.unapproved = {}

(* A run cancelled while no invocation is on it has no further side        *)
(* effect, whoever resumes it and with whatever answer.                    *)
StoppedStays == history.afterStop = {}

(* Once a run is taken over while its recorded commit is gone, the process *)
(* with the lease pushes nothing before the question about that has taken  *)
(* an answer, also when the one that asked it pauses and goes on itself,   *)
(* or when it goes on from a checkpoint that is no longer the latest;      *)
(* unless the lease was released before.                                   *)
EffectIsReviewed == history.unreviewed = {}

(* A question is dropped only by `runs cancel`, by an invocation that ran  *)
(* the node that asks it to its end, or by a process that should not       *)
(* write: it has no lease by its own account, or it goes on from a         *)
(* checkpoint that is no longer the latest.                                *)
Dropped(r) == head[r].asked # "none" /\ head'[r].asked = "none"
Cancelled(r) == head'[r].cancel /\ ~head[r].cancel
RanNode(o) == session[o].update # <<>> /\ session[o].update[1].status # "failed"
On(o, r) == InSession(o) /\ session[o].run = r

QuestionIsKept ==
  [][\A r \in Run : Dropped(r) =>
       \/ Cancelled(r)
       \/ \E o \in Owner :
            /\ On(o, r)
            /\ RanNode(o) \/ granted[o][r] = 0 \/ o \notin latest[r]]_allVars

(* The sessions use the leases only as RunLifecycle describes.             *)
SessionsAreLeased == Spec
-----------------------------------------------------------------------------
(* "An interrupted run remains resumable": a question put to the operator  *)
(* is not dropped but for an answer to it, or for a cancellation.          *)
InterruptedStaysResumable ==
  [][\A r \in Run : Dropped(r) =>
       Cancelled(r) \/ \E o \in Owner : On(o, r) /\ RanNode(o)]_allVars

(* "Writes a safe-boundary cancellation request and lets a live owner      *)
(* finish it": a request that was accepted is not dropped.                 *)
CancellationIsKept ==
  [][\A r \in Run : head[r].cancel => head'[r].cancel]_allVars
=============================================================================

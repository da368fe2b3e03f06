----------------------------- MODULE PullRequest -----------------------------
(***************************************************************************)
(* The handoff of a finished branch (src/workflow/nodes.py, push_node and  *)
(* pull_request_node; src/workflow/adapters.py, GitHubAdapter): push it,   *)
(* look its pull requests up, and create one or reconcile the one there    *)
(* is, while people open, edit, close, merge and reopen pull requests of   *)
(* the same branch, replies of GitHub are lost, processes die, and a run   *)
(* is taken over from a process that is still at work.                     *)
(***************************************************************************)
EXTENDS Naturals, Sequences, FiniteSets

CONSTANTS
  Process,
  Policy,       \* the configured labels and reviewers
  Text,         \* the generated title and body
  MaxPulls,     \* bound on the pull requests of the branch
  MaxCommits    \* bound on its commits

ASSUME PullRequestConstantsOK ==
  /\ Text \notin Policy
  /\ MaxPulls \in Nat /\ MaxCommits \in Nat \ {0}

VARIABLES
  pulls,          \* the pull requests GitHub has for the branch, oldest first
  commits,        \* commits of the branch
  remote,         \* how many of them the remote has
  state,          \* the checkpoint: status, the next node, pr_url (0: none)
  owner,          \* the process whose results are checkpointed
  pc,             \* where each process is
  seen,           \* the pull request it found, as it was then (id 0: none)
  reopen_closed,  \* a setting of the adapter
  raced           \* history: the handoff was taken over from a live process

github == <<pulls, remote>>
run == <<commits, state, owner, reopen_closed>>
vars == <<github, run, pc, seen, raced>>

Wanted == Policy \cup {Text}
Pull == [state : {"open", "closed", "merged"}, has : SUBSET Wanted,
         ours : BOOLEAN]   \* the run opened it
Nodes == {"push_node", "pull_request_node"}
Handed == {"pr_created", "pr_reopened", "pr_stale"}
Reported == Handed \cup {"pr_closed", "pr_merged"}
NothingSeen == [id |-> 0, has |-> {}]

Init ==
  /\ pulls = <<>> /\ commits = 1 /\ remote = 0
  /\ state = [status |-> "running", next |-> "push_node", pr_url |-> 0]
  /\ owner \in Process
  /\ pc = [p \in Process |-> "away"]
  /\ seen = [p \in Process |-> NothingSeen]
  /\ reopen_closed \in BOOLEAN
  /\ raced = FALSE
-----------------------------------------------------------------------------
NoneOpen == \A i \in DOMAIN pulls : pulls[i].state # "open"

(* gh pr list, of every state; twenty of them, more than MaxPulls.         *)
ListedOpen == {i \in DOMAIN pulls : pulls[i].state = "open"}
Listed == DOMAIN pulls

(* _reconcile_existing_prs takes an open one if there is one, then one     *)
(* that was closed, then one that was merged; the newest of them.          *)
InState(w) == {i \in Listed : pulls[i].state = w}
Preferred ==
  IF InState("open") # {} THEN InState("open")
  ELSE IF InState("closed") # {} THEN InState("closed")
  ELSE InState("merged")
Selected(i) == i \in Preferred /\ \A j \in Preferred : j <= i

(* A node returns with a status; retries and routes in between are         *)
(* "running".  A process that has lost the run finds no lease to renew, and *)
(* its result does not count.                                              *)
Save(p, status, next, url) ==
  /\ state' = IF owner = p THEN [status |-> status, next |-> next, pr_url |-> url]
              ELSE state
  /\ pc' = [pc EXCEPT ![p] = IF owner = p /\ next # "end" THEN next ELSE "away"]
  /\ seen' = [seen EXCEPT ![p] = NothingSeen]
  /\ UNCHANGED <<commits, owner, reopen_closed, raced>>

(* A failed command: the node is tried again, or the run ends.             *)
Fails(p, node) ==
  \/ Save(p, "running", node, state.pr_url)
  \/ Save(p, "failed", "end", state.pr_url)

InNode(p, to) ==
  /\ pc' = [pc EXCEPT ![p] = to]
  /\ UNCHANGED <<run, raced>>
-----------------------------------------------------------------------------
(* A process takes the run up at its checkpoint: a first one, one after a  *)
(* pause or a death, or one that found the lease expired while its owner   *)
(* was at work.                                                            *)
Enter(p) ==
  /\ pc[p] = "away" /\ state.next # "end"
  /\ pc' = [pc EXCEPT ![p] = state.next]
  /\ owner' = p
  /\ raced' = (raced \/ \E q \in Process : pc[q] \notin {"away", "push_node"})
  /\ UNCHANGED <<github, commits, state, reopen_closed, seen>>

(* It is killed, or it pauses for the approval.                            *)
Leave(p) ==
  /\ pc[p] # "away"
  /\ pc' = [pc EXCEPT ![p] = "away"]
  /\ seen' = [seen EXCEPT ![p] = NothingSeen]
  /\ UNCHANGED <<github, run, raced>>

(* Both nodes answer from a recorded pull request without a look at it.    *)
Answered(p) ==
  /\ pc[p] \in Nodes /\ state.pr_url # 0
  /\ Save(p, "pr_created", "end", state.pr_url)
  /\ UNCHANGED github

Deny(p) ==
  /\ pc[p] \in Nodes /\ state.pr_url = 0
  /\ Save(p, "approval_denied", "end", 0)
  /\ UNCHANGED github

Push(p) ==
  /\ pc[p] = "push_node" /\ state.pr_url = 0
  /\ Save(p, "running", "pull_request_node", 0)
  /\ remote' = commits
  /\ UNCHANGED pulls

(* route_after_push lets only a branch that was pushed through.            *)
PushFailsAndGoesOn(p) ==
  /\ pc[p] = "push_node" /\ state.pr_url = 0
  /\ Fails(p, "pull_request_node")
  /\ remote' \in {remote, commits}
  /\ UNCHANGED pulls
PushFails(p) ==
  /\ pc[p] = "push_node" /\ state.pr_url = 0
  /\ Fails(p, "push_node")
  /\ remote' \in {remote, commits}
  /\ UNCHANGED pulls

(* open_pull_request: what the lookup found decides what follows.          *)
Reconciles(p, i) ==
  \/ /\ pulls[i].state = "merged"
     /\ Save(p, "pr_merged", "end", i)
  \/ /\ pulls[i].state = "closed" /\ ~reopen_closed
     /\ Save(p, "pr_closed", "end", i)
  \/ /\ pulls[i].state = "open" \/ (pulls[i].state = "closed" /\ reopen_closed)
     /\ seen' = [seen EXCEPT ![p] = [id |-> i, has |-> pulls[i].has]]
     /\ InNode(p, IF pulls[i].state = "open" THEN "edit" ELSE "reopen")

LookUp(p) ==
  /\ pc[p] = "pull_request_node" /\ state.pr_url = 0
  /\ \/ \E i \in Listed : Selected(i) /\ Reconciles(p, i)
     \/ Listed = {} /\ InNode(p, "create") /\ UNCHANGED seen
  /\ UNCHANGED github

LookUpFails(p) ==
  /\ pc[p] = "pull_request_node" /\ state.pr_url = 0
  /\ Fails(p, "pull_request_node")
  /\ UNCHANGED github

(* gh pr create opens the pull request and then adds labels and reviewers; *)
(* it may fail anywhere, and its reply may be lost.  GitHub keeps a branch *)
(* to one open pull request.                                               *)
Opens(has, ours) ==
  /\ NoneOpen /\ Len(pulls) < MaxPulls
  /\ pulls' = Append(pulls, [state |-> "open", has |-> has, ours |-> ours])
  /\ UNCHANGED remote

Create(p) ==
  /\ pc[p] = "create"
  /\ Opens(Wanted, TRUE)
  /\ Save(p, "pr_created", "end", Len(pulls) + 1)

CreateFails(p) ==
  /\ pc[p] = "create"
  /\ Fails(p, "pull_request_node")
  /\ UNCHANGED github \/ \E has \in SUBSET Policy : Opens(has \cup {Text}, TRUE)

(* gh pr reopen; the reconciliation goes on with what was looked up.       *)
Reopens(i) ==
  /\ pulls[i].state = "open" \/ (pulls[i].state = "closed" /\ NoneOpen)
  /\ pulls' = [pulls EXCEPT ![i].state = "open"]
  /\ UNCHANGED remote

Reopen(p) ==
  /\ pc[p] = "reopen"
  /\ Reopens(seen[p].id)
  /\ InNode(p, "reopened")
  /\ UNCHANGED seen

ReopenFails(p) ==
  /\ pc[p] = "reopen"
  /\ Fails(p, "pull_request_node")
  /\ UNCHANGED github \/ Reopens(seen[p].id)

(* _reconcile_open_pr edits what differed when it was looked up.           *)
MissingIfRetitled(has) == IF Text \in has THEN {} ELSE Wanted \ has
Missing(has) == Wanted \ has
Edits(p, added) ==
  /\ pulls' = [pulls EXCEPT ![seen[p].id].has = @ \cup added]
  /\ UNCHANGED remote

Edit(p) ==
  /\ pc[p] \in {"edit", "reopened"}
  /\ Edits(p, Missing(seen[p].has))
  /\ \/ Save(p, "pr_stale", "end", seen[p].id)
     \/ pc[p] = "edit" /\ Save(p, "pr_created", "end", seen[p].id)
     \/ pc[p] = "reopened" /\ Save(p, "pr_reopened", "end", seen[p].id)

EditFails(p) ==
  /\ pc[p] \in {"edit", "reopened"} /\ Missing(seen[p].has) # {}
  /\ \E added \in SUBSET Missing(seen[p].has) : Edits(p, added)
  /\ Fails(p, "pull_request_node")
-----------------------------------------------------------------------------
(* The thread is run again, with more commits or without.                  *)
Again ==
  /\ state.next = "end"
  /\ commits' \in {commits, commits + 1} /\ commits' <= MaxCommits
  /\ state' = [state EXCEPT !.next = "push_node", !.status = "running"]
  /\ UNCHANGED <<github, owner, reopen_closed, pc, seen, raced>>

(* People, on GitHub.                                                      *)
PersonOpens ==
  /\ remote > 0
  /\ \E has \in SUBSET Wanted : Opens(has, FALSE)
  /\ UNCHANGED <<run, pc, seen, raced>>

PersonDecides(i) ==
  /\ \/ pulls[i].state = "open" /\ \E s \in {"closed", "merged"} :
          pulls' = [pulls EXCEPT ![i].state = s]
     \/ pulls[i].state = "closed" /\ NoneOpen
          /\ pulls' = [pulls EXCEPT ![i].state = "open"]
  /\ UNCHANGED <<remote, run, pc, seen, raced>>

PersonEdits(i) ==
  /\ \E has \in SUBSET Wanted : pulls' = [pulls EXCEPT ![i].has = has]
  /\ UNCHANGED <<remote, run, pc, seen, raced>>

Runs(p) ==
  \/ Enter(p) \/ Leave(p) \/ Answered(p) \/ Deny(p) \/ Push(p) \/ PushFails(p)
  \/ LookUp(p) \/ LookUpFails(p) \/ Create(p) \/ CreateFails(p)
  \/ Reopen(p) \/ ReopenFails(p) \/ Edit(p) \/ EditFails(p)

Next ==
  \/ \E p \in Process : Runs(p)
  \/ Again \/ PersonOpens
  \/ \E i \in DOMAIN pulls : PersonDecides(i) \/ PersonEdits(i)

Spec == Init /\ [][Next]_vars
-----------------------------------------------------------------------------
(* Types; in them, that a reported pull request is one GitHub has, and     *)
(* that what is edited is one that was found.                              *)
TypeOK ==
  /\ pulls \in Seq(Pull) /\ commits \in Nat /\ remote \in Nat
  /\ state \in [status : Reported \cup {"running", "failed", "approval_denied"},
                next : Nodes \cup {"end"}, pr_url : 0..Len(pulls)]
  /\ state.status \in Reported => state.pr_url # 0
  /\ owner \in Process /\ reopen_closed \in BOOLEAN /\ raced \in BOOLEAN
  /\ pc \in [Process -> Nodes \cup {"away", "create", "reopen", "reopened", "edit"}]
  /\ seen \in [Process -> [id : 0..Len(pulls), has : SUBSET Wanted]]
  /\ \A p \in Process : pc[p] \in {"reopen", "reopened", "edit"} => seen[p].id # 0

(* "A re-run pull-request handoff looks up and reconciles an already-      *)
(* created PR instead of opening a duplicate": whatever was lost, retried, *)
(* closed or merged in between, the run opens one, unless it was taken     *)
(* over from a process that was in the handoff and went on with it.        *)
NoDuplicate ==
  ~raced => \A i, j \in DOMAIN pulls : pulls[i].ours /\ pulls[j].ours => i = j

(* Where the run reports a pull request as handed over, labels, reviewers  *)
(* and text are on it, also when it failed halfway before, but for what a  *)
(* person took away while the handoff was at it.                           *)
HandoffIsComplete ==
  [][\A p \in Process :
       /\ pc[p] \in {"create", "edit", "reopened"} /\ owner = p
       /\ state' # state /\ state'.status \in Handed
       => Wanted \subseteq pulls'[state'.pr_url].has \cup seen[p].has]_vars

(* "Push failure stops before PR lookup or creation": a pull request is    *)
(* reported only with all commits on the remote, unless it is the one an   *)
(* earlier invocation of the thread had reported.                          *)
HandoffHasTheWork ==
  [][state'.status \in Reported /\ state.status \notin Reported =>
       remote' = commits \/ state.pr_url # 0]_vars
=============================================================================

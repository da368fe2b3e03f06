------------------------------ MODULE ItemCommit ------------------------------
(***************************************************************************)
(* From the worktree of a run to its commits, file by file                 *)
(* (src/workflow/adapters.py, GitHubAdapter): the builder changes files,   *)
(* the policy gate reads them, the operator approves, and the commit reads *)
(* them again.  Between these readings the process may be another one,     *)
(* with another baseline of files to leave alone, and the worktree may     *)
(* change.                                                                 *)
(***************************************************************************)
CONSTANTS
  File,
  Guarded,   \* files whose name hooks/guarded-paths.txt matches
  Content,   \* what a file may hold
  Secret,    \* the contents gitleaks finds a secret in
  Absent,    \* no such file
  Faults     \* "status": git status fails; "edits": others change the worktree

ASSUME ItemCommitConstantsOK ==
  /\ Guarded \subseteq File /\ Secret \subseteq Content
  /\ Absent \in Content \ Secret

VARIABLES
  pc,        \* the node the run is at; in commit_item, how far it is
  head,      \* the last commit of the run's branch
  tree,      \* the worktree
  renames,   \* the renames staged in the index, as pairs of files
  baseline,  \* initial_dirty_files of the process's adapter
  listed,    \* the files commit_item is about to commit
  orphan,    \* an agent outlived the process that ran it
  unseen     \* history: files the last pass of the gate says nothing about

repository == <<head, tree, renames>>
vars == <<pc, repository, baseline, listed, orphan, unseen>>

Init ==
  /\ pc = "building"
  /\ head \in [File -> Content \ Secret]
  /\ tree = head
  /\ renames = {} /\ listed = {} /\ unseen = {} /\ orphan = FALSE
  /\ baseline \in SUBSET File
-----------------------------------------------------------------------------
Changed == {f \in File : tree[f] # head[f]}

(* A staged rename is one line of git status, of which the name after the  *)
(* arrow is taken: the deletion of the old file is not seen.               *)
Hidden == {f \in File : tree[f] = Absent /\ \E g \in Changed : <<f, g>> \in renames}

StatusFiles == Changed \ Hidden

(* The files git status shows, but for the names that were dirty, in the   *)
(* checkout Shanks was started in, when the adapter was made.  No builder  *)
(* of the program names the files it touched.                              *)
CandidateFilesExisting == {f \in StatusFiles \ baseline : tree[f] # Absent}
CandidateFiles == StatusFiles \ baseline

(* What the gate refuses to let through. *)
Risky(f) == f \in Guarded \/ tree[f] \in Secret

Write(f, c) ==
  /\ c # tree[f]
  /\ c = Absent => \A r \in renames : r[2] # f
  /\ tree' = [tree EXCEPT ![f] = c]

(* git mv. *)
Move(f, g) ==
  /\ head[f] # Absent /\ tree[f] # Absent /\ f # g
  /\ head[g] = Absent /\ tree[g] = Absent
  /\ tree' = [tree EXCEPT ![f] = Absent, ![g] = tree[f]]
  /\ renames' = renames \cup {<<f, g>>}

BuilderWrites ==
  /\ pc = "building"
  /\ \/ \E f \in File, c \in Content : Write(f, c) /\ UNCHANGED renames
     \/ \E f, g \in File : Move(f, g)
  /\ UNCHANGED <<pc, head, baseline, listed, orphan, unseen>>

(* Building and validation end; the tests may send the run back.           *)
Validate ==
  /\ pc = "building"
  /\ pc' = "pre_commit_policy_gate"
  /\ UNCHANGED <<repository, baseline, listed, orphan, unseen>>

(* policy_gate: no risky file among those it looks at.  With a git status  *)
(* that fails there are none.                                              *)
GatePasses ==
  /\ pc = "pre_commit_policy_gate"
  /\ \/ /\ \A f \in CandidateFiles : ~Risky(f)
        /\ unseen' = Hidden
     \/ /\ "status" \in Faults
        /\ unseen' = File
  /\ pc' = "approval"
  /\ UNCHANGED <<repository, baseline, listed, orphan>>

(* A refusal, or a scan that could not run.                                *)
GateFails ==
  /\ pc = "pre_commit_policy_gate" /\ CandidateFiles # {}
  /\ pc' = "end"
  /\ UNCHANGED <<repository, baseline, listed, orphan, unseen>>

(* The process that runs commit_item after the answer: the one that asked, *)
(* or, with `runs resume`, another, whose adapter takes a baseline anew.   *)
TakeBaseline ==
  /\ baseline' \in SUBSET File
  /\ unseen' = unseen \cup (baseline \ baseline')

Approve ==
  /\ pc = "approval"
  /\ pc' = "commit_item"
  /\ TakeBaseline \/ UNCHANGED <<baseline, unseen>>
  /\ UNCHANGED <<repository, listed, orphan>>

Deny ==
  /\ pc = "approval"
  /\ pc' = "end"
  /\ UNCHANGED <<repository, baseline, listed, orphan, unseen>>

(* commit_item lists the files again. *)
ListFiles ==
  /\ pc = "commit_item" /\ CandidateFiles # {}
  /\ listed' = CandidateFiles
  /\ pc' = "commit"
  /\ UNCHANGED <<repository, baseline, orphan, unseen>>

NoChanges ==
  /\ pc = "commit_item"
  /\ CandidateFiles = {} \/ "status" \in Faults
  /\ pc' = "item_router"
  /\ UNCHANGED <<repository, baseline, listed, orphan, unseen>>

(* git commit --only takes the listed files as they are by now. *)
CommitFilesAll ==
  /\ pc = "commit"
  /\ head' = tree
  /\ renames' = {}
  /\ listed' = {}
  /\ pc' = "item_router"
  /\ UNCHANGED <<tree, baseline, orphan, unseen>>
CommitFiles ==
  /\ pc = "commit"
  /\ head' = [f \in File |-> IF f \in listed THEN tree[f] ELSE head[f]]
  /\ renames' = {r \in renames : r[1] \notin listed /\ r[2] \notin listed}
  /\ listed' = {}
  /\ pc' = "item_router"
  /\ UNCHANGED <<tree, baseline, orphan, unseen>>

(* git add, the quality gate or the commit fails. *)
CommitFails ==
  /\ pc = "commit"
  /\ listed' = {}
  /\ pc' = "end"
  /\ UNCHANGED <<repository, baseline, orphan, unseen>>

(* The next item, or the handoff. *)
ItemRouter ==
  /\ pc = "item_router"
  /\ pc' \in {"building", "end"}
  /\ UNCHANGED <<repository, baseline, listed, orphan, unseen>>

(* The process dies, and another takes the run up at the last checkpoint.  *)
(* An agent runs in a session of its own and is not killed with it.        *)
Restart ==
  /\ \/ pc \in {"commit_item", "commit", "item_router"} /\ pc' = "approval"
     \/ pc \notin {"commit_item", "commit", "end"} /\ UNCHANGED pc
  /\ TakeBaseline
  /\ listed' = {}
  /\ orphan' = (orphan \/ pc = "building")
  /\ UNCHANGED repository

(* The agent left behind, or the operator who was asked, changes a file.   *)
OthersWrite ==
  /\ "edits" \in Faults /\ (orphan \/ pc = "approval")
  /\ \E f \in File, c \in Content : Write(f, c) /\ unseen' = unseen \cup {f}
  /\ UNCHANGED <<pc, head, renames, baseline, listed, orphan>>

OrphanEnds ==
  /\ orphan
  /\ orphan' = FALSE
  /\ UNCHANGED <<pc, repository, baseline, listed, unseen>>

Next ==
  \/ BuilderWrites \/ Validate \/ GatePasses \/ GateFails \/ Approve \/ Deny
  \/ ListFiles \/ NoChanges \/ CommitFiles \/ CommitFails \/ ItemRouter
  \/ Restart \/ OthersWrite \/ OrphanEnds

Spec == Init /\ [][Next]_vars
-----------------------------------------------------------------------------
(* Types; in them, that commit_item has files listed exactly while it      *)
(* commits, wherever a process died, and that git still has what a rename  *)
(* is about.                                                               *)
TypeOK ==
  /\ pc \in {"building", "pre_commit_policy_gate", "approval", "commit_item",
             "commit", "item_router", "end"}
  /\ head \in [File -> Content] /\ tree \in [File -> Content]
  /\ renames \subseteq File \X File
  /\ \A r \in renames : head[r[2]] = Absent /\ tree[r[2]] # Absent
  /\ baseline \subseteq File /\ listed \subseteq File /\ unseen \subseteq File
  /\ orphan \in BOOLEAN
  /\ pc = "commit" <=> listed # {}

(* "Reject high-risk paths or leaked secrets before anything is staged":   *)
(* through retries, answers in other processes, takeovers and items left   *)
(* over, no commit takes a secret or a guarded file, except one that was   *)
(* changed after the gate, or is no longer in the baseline it was in when  *)
(* the gate looked, or when git status had failed there.                   *)
NothingRiskyIsCommitted ==
  [][\A f \in File : head'[f] # head[f] => ~Risky(f) \/ f \in unseen]_vars

(* "Commit the validated current item before selecting the next one": no   *)
(* change of the item stays behind in the worktree, except in a file the   *)
(* adapter leaves alone, one that was moved away, or one changed since.    *)
WholeItemIsCommitted ==
  [][pc = "commit" /\ pc' = "item_router" =>
       \A f \in File : tree[f] = head'[f] \/ f \in baseline \cup Hidden \cup unseen]_vars
=============================================================================

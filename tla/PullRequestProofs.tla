-------------------------- MODULE PullRequestProofs --------------------------
(***************************************************************************)
(* Proofs about PullRequest, for any processes, policy and bounds.         *)
(*                                                                         *)
(* NoDuplicate is not inductive: what keeps a second pull request from     *)
(* being opened is that nobody but the owner is past the push while the    *)
(* run was not raced, and that the owner is at gh pr create only where its *)
(* lookup found nothing.  HandoffHasTheWork needs that the checkpoint      *)
(* names pull_request_node only after a push of all commits, and that no   *)
(* commit is added before the run has ended.                               *)
(***************************************************************************)
EXTENDS PullRequest, TLAPS

OwnerIsAlone ==
  ~raced => \A q \in Process \ {owner} : pc[q] \in {"away", "push_node"}

CreatesTheFirst ==
  ~raced => \A q \in Process :
    pc[q] = "create" => \A i \in DOMAIN pulls : ~pulls[i].ours

OwnerIsThere ==
  pc[owner] # "away" =>
    state.next = IF pc[owner] = "push_node" THEN "push_node" ELSE "pull_request_node"

WorkIsPushed ==
  state.next = "pull_request_node" /\ state.pr_url = 0 => remote = commits

HandoffInv ==
  /\ TypeOK /\ OwnerIsAlone /\ CreatesTheFirst /\ OwnerIsThere /\ WorkIsPushed
  /\ NoDuplicate

(* What a step does to GitHub: pull requests stay, and keep who opened     *)
(* them; at most one is added, the run's own only where new says so.       *)
GithubStep(new) ==
  /\ pulls' \in Seq(Pull)
  /\ Len(pulls') = Len(pulls) \/ Len(pulls') = Len(pulls) + 1
  /\ remote' \in {remote, commits}
  /\ \A i \in 1..Len(pulls) : pulls'[i].ours = pulls[i].ours
  /\ Len(pulls') = Len(pulls) + 1 /\ pulls'[Len(pulls) + 1].ours => new
-----------------------------------------------------------------------------
LEMMA PullFields ==
  ASSUME TypeOK, NEW i \in DOMAIN pulls
  PROVE  /\ i \in 1..Len(pulls) /\ Len(pulls) \in Nat
         /\ pulls[i] \in Pull
  BY DEF TypeOK

LEMMA SameGithub ==
  ASSUME TypeOK, UNCHANGED pulls, remote' \in {remote, commits}, NEW new \in BOOLEAN
  PROVE  GithubStep(new)
  BY DEF TypeOK, GithubStep

LEMMA OpensStep ==
  ASSUME TypeOK, NEW has \in SUBSET Wanted, NEW ours \in BOOLEAN, Opens(has, ours),
         NEW new \in BOOLEAN, ours => new
  PROVE  /\ GithubStep(new) /\ remote' = remote
         /\ Len(pulls') = Len(pulls) + 1 /\ pulls'[Len(pulls) + 1].has = has
<1> DEFINE r == [state |-> "open", has |-> has, ours |-> ours]
<1>1. r \in Pull /\ r.ours = ours /\ r.has = has
  BY DEF Pull
<1>2. pulls' = Append(pulls, r) /\ remote' = remote /\ pulls \in Seq(Pull)
  BY DEF Opens, TypeOK
<1> HIDE DEF r
<1>3. /\ pulls' \in Seq(Pull) /\ Len(pulls') = Len(pulls) + 1
      /\ pulls'[Len(pulls) + 1] = r
      /\ \A i \in 1..Len(pulls) : pulls'[i] = pulls[i]
  BY <1>1, <1>2
<1> QED BY <1>1, <1>2, <1>3 DEF GithubStep

(* One pull request gets another state, or other labels and text.          *)
LEMMA ChangeStep ==
  ASSUME TypeOK, NEW i \in DOMAIN pulls, NEW r \in Pull, r.ours = pulls[i].ours,
         pulls' = [pulls EXCEPT ![i] = r], remote' = remote, NEW new \in BOOLEAN
  PROVE  /\ GithubStep(new) /\ Len(pulls') = Len(pulls) /\ pulls'[i] = r
<1>1. pulls \in Seq(Pull) /\ i \in 1..Len(pulls) /\ Len(pulls) \in Nat
  BY PullFields DEF TypeOK
<1>2. pulls' \in Seq(Pull) /\ Len(pulls') = Len(pulls)
      /\ \A j \in 1..Len(pulls) : pulls'[j] = IF j = i THEN r ELSE pulls[j]
  BY <1>1
<1>3. remote' \in {remote, commits}
  OBVIOUS
<1>4. \A j \in 1..Len(pulls) : pulls'[j].ours = pulls[j].ours
  BY <1>1, <1>2
<1>5. pulls'[i] = r
  BY <1>1, <1>2
<1>6. Len(pulls') # Len(pulls) + 1
  <2>1. Len(pulls) \in Nat /\ Len(pulls') = Len(pulls)
    BY <1>1, <1>2
  <2> QED BY ONLY <2>1
<1> QED BY ONLY <1>2, <1>3, <1>4, <1>5, <1>6 DEF GithubStep

LEMMA ReopensStep ==
  ASSUME TypeOK, NEW i \in DOMAIN pulls, Reopens(i), NEW new \in BOOLEAN
  PROVE  GithubStep(new) /\ remote' = remote
<1> DEFINE r == [pulls[i] EXCEPT !.state = "open"]
<1>1. pulls[i] \in Pull
  BY PullFields
<1>2. r \in Pull /\ r.ours = pulls[i].ours
  BY <1>1 DEF Pull
<1>3. pulls' = [pulls EXCEPT ![i] = r] /\ remote' = remote
  BY DEF Reopens
<1> HIDE DEF r
<1> QED BY <1>2, <1>3, ChangeStep

LEMMA EditsStep ==
  ASSUME TypeOK, NEW p \in Process, seen[p].id # 0, NEW added \in SUBSET Wanted,
         Edits(p, added), NEW new \in BOOLEAN
  PROVE  /\ GithubStep(new) /\ remote' = remote /\ Len(pulls') = Len(pulls)
         /\ seen[p].id \in 1..Len(pulls) /\ added \subseteq pulls'[seen[p].id].has
<1> DEFINE i == seen[p].id
           r == [pulls[i] EXCEPT !.has = @ \cup added]
<1>1. i \in DOMAIN pulls
  BY DEF TypeOK
<1>2. pulls[i] \in Pull
  BY <1>1, PullFields
<1>3. r \in Pull /\ r.ours = pulls[i].ours /\ added \subseteq r.has
  BY <1>2 DEF Pull
<1>4. pulls' = [pulls EXCEPT ![i] = r] /\ remote' = remote
  BY DEF Edits
<1>5. GithubStep(new) /\ Len(pulls') = Len(pulls) /\ pulls'[i] = r
  <2> HIDE DEF i, r
  <2> QED BY <1>1, <1>3, <1>4, ChangeStep
<1> QED BY <1>1, <1>3, <1>4, <1>5, PullFields
-----------------------------------------------------------------------------
(* A node returns, after whatever it did on GitHub.                        *)
LEMMA SaveKeeps ==
  ASSUME HandoffInv, NEW p \in Process, pc[p] # "away", GithubStep(pc[p] = "create"),
         NEW status \in Reported \cup {"running", "failed", "approval_denied"},
         NEW next \in Nodes \cup {"end"}, NEW url \in 0..Len(pulls'),
         status \in Reported => url # 0,
         owner = p /\ next = "pull_request_node" /\ url = 0 => remote' = commits,
         Save(p, status, next, url)
  PROVE  HandoffInv'
<1> USE DEF HandoffInv
<1>1. /\ pulls' \in Seq(Pull)
      /\ remote' \in {remote, commits} /\ remote' \in Nat
      /\ DOMAIN pulls = 1..Len(pulls) /\ DOMAIN pulls' = 1..Len(pulls')
  BY DEF GithubStep, TypeOK
<1>2. /\ Len(pulls') \in Nat /\ Len(pulls) \in Nat
      /\ Len(pulls') = Len(pulls) \/ Len(pulls') = Len(pulls) + 1
  BY DEF GithubStep, TypeOK
<1>3. \A k \in 1..Len(pulls') :
         k \in 1..Len(pulls) \/ (k = Len(pulls) + 1 /\ Len(pulls') = Len(pulls) + 1)
  BY ONLY <1>2
<1>4. \A k \in 1..Len(pulls') :
         pulls'[k].ours => \/ k \in 1..Len(pulls) /\ pulls[k].ours
                           \/ k = Len(pulls) + 1 /\ pc[p] = "create"
  BY <1>3 DEF GithubStep
<1>5. /\ state' = IF owner = p THEN [status |-> status, next |-> next, pr_url |-> url]
                  ELSE state
      /\ pc' = [pc EXCEPT ![p] = IF owner = p /\ next # "end" THEN next ELSE "away"]
      /\ seen' = [seen EXCEPT ![p] = NothingSeen]
      /\ UNCHANGED <<commits, owner, reopen_closed, raced>>
  BY DEF Save
<1>6. \A q \in Process : q # p => pc'[q] = pc[q] /\ seen'[q] = seen[q]
  BY <1>5 DEF TypeOK
<1>7. pc'[p] = (IF owner = p /\ next # "end" THEN next ELSE "away")
      /\ pc'[p] \in Nodes \cup {"away"}
  BY <1>5 DEF TypeOK
<1>8. TypeOK'
  <2>1. state' \in [status : Reported \cup {"running", "failed", "approval_denied"},
                    next : Nodes \cup {"end"}, pr_url : 0..Len(pulls')]
        /\ (state'.status \in Reported => state'.pr_url # 0)
    <3>1. CASE owner = p
      BY <1>5, <3>1
    <3>2. CASE owner # p
      <4>1. state' = state
        BY <1>5, <3>2
      <4>2. 0..Len(pulls) \subseteq 0..Len(pulls')
        BY ONLY <1>2
      <4> QED BY <4>1, <4>2 DEF TypeOK
    <3> QED BY <3>1, <3>2
  <2>2. pc' \in [Process -> Nodes \cup {"away", "create", "reopen", "reopened", "edit"}]
    BY <1>5 DEF TypeOK
  <2>3. seen' \in [Process -> [id : 0..Len(pulls'), has : SUBSET Wanted]]
    <3>1. 0..Len(pulls) \subseteq 0..Len(pulls') /\ 0 \in 0..Len(pulls')
      BY ONLY <1>2
    <3>2. seen \in [Process -> [id : 0..Len(pulls'), has : SUBSET Wanted]]
      BY <3>1 DEF TypeOK
    <3>3. NothingSeen \in [id : 0..Len(pulls'), has : SUBSET Wanted]
      BY <3>1 DEF NothingSeen
    <3> QED BY <3>2, <3>3, <1>5
  <2>4. \A q \in Process : pc'[q] \in {"reopen", "reopened", "edit"} => seen'[q].id # 0
    BY <1>6, <1>7 DEF TypeOK, Nodes
  <2> QED BY <1>1, <1>5, <2>1, <2>2, <2>3, <2>4 DEF TypeOK
<1>9. OwnerIsAlone'
  BY <1>5, <1>6, <1>7 DEF OwnerIsAlone
<1>10. ~raced /\ p # owner => pc[p] = "push_node"
  BY DEF OwnerIsAlone
<1>11. CreatesTheFirst'
  <2> SUFFICES ASSUME ~raced, NEW q \in Process, pc'[q] = "create",
                      NEW i \in 1..Len(pulls'), pulls'[i].ours
               PROVE  FALSE
    BY <1>1, <1>5 DEF CreatesTheFirst
  <2>1. q # p /\ pc[q] = "create"
    BY <1>6, <1>7 DEF Nodes
  <2>2. q = owner
    BY <2>1 DEF OwnerIsAlone
  <2>3. pc[p] # "create"
    BY <1>10, <2>1, <2>2
  <2>4. i \in 1..Len(pulls) /\ pulls[i].ours
    BY <1>4, <2>3
  <2> QED BY <1>1, <2>1, <2>4 DEF CreatesTheFirst
<1>12. OwnerIsThere'
  <2>1. CASE owner = p
    BY <1>5, <1>7, <2>1 DEF OwnerIsThere, Nodes
  <2>2. CASE owner # p
    BY <1>5, <1>6, <2>2 DEF OwnerIsThere, TypeOK
  <2> QED BY <2>1, <2>2
<1>13. WorkIsPushed'
  <2>1. CASE owner = p
    BY <1>5, <2>1 DEF WorkIsPushed
  <2>2. CASE owner # p
    BY <1>1, <1>5, <2>2 DEF WorkIsPushed
  <2> QED BY <2>1, <2>2
<1>14. NoDuplicate'
  <2> SUFFICES ASSUME ~raced, NEW i \in 1..Len(pulls'), NEW j \in 1..Len(pulls'),
                      pulls'[i].ours, pulls'[j].ours
               PROVE  i = j
    BY <1>1, <1>5 DEF NoDuplicate
  <2>1. pc[p] = "create" => \A k \in 1..Len(pulls) : ~pulls[k].ours
    BY <1>1 DEF CreatesTheFirst
  <2>2. \A k, l \in 1..Len(pulls) : pulls[k].ours /\ pulls[l].ours => k = l
    BY <1>1 DEF NoDuplicate
  <2> QED BY <1>4, <2>1, <2>2
<1> QED BY <1>8, <1>9, <1>11, <1>12, <1>13, <1>14

LEMMA FailsKeeps ==
  ASSUME HandoffInv, NEW p \in Process, pc[p] # "away", GithubStep(pc[p] = "create"),
         NEW node \in Nodes,
         owner = p /\ node = "pull_request_node" /\ state.pr_url = 0 =>
           remote' = commits,
         Fails(p, node)
  PROVE  HandoffInv'
<1>1. state.pr_url \in 0..Len(pulls')
  BY DEF HandoffInv, TypeOK, GithubStep
<1>2. CASE Save(p, "running", node, state.pr_url)
  BY <1>1, <1>2, SaveKeeps DEF Nodes, Reported, Handed
<1>3. CASE Save(p, "failed", "end", state.pr_url)
  BY <1>1, <1>3, SaveKeeps DEF Nodes, Reported, Handed
<1> QED BY <1>2, <1>3 DEF Fails
-----------------------------------------------------------------------------
(* A step on GitHub that leaves the run and the processes where they are,  *)
(* or moves the process that is at it further into its node.               *)
LEMMA InNodeKeeps ==
  ASSUME HandoffInv, NEW p \in Process, GithubStep(FALSE),
         NEW to \in {"create", "reopen", "reopened", "edit"},
         pc[p] \in {"pull_request_node", "reopen"},
         to = "create" => pulls = <<>>,
         seen' \in [Process -> [id : 0..Len(pulls'), has : SUBSET Wanted]],
         \A q \in Process \ {p} : seen'[q] = seen[q],
         to # "create" => seen'[p].id # 0,
         InNode(p, to)
  PROVE  HandoffInv'
<1> USE DEF HandoffInv
<1>1. pc' = [pc EXCEPT ![p] = to] /\ UNCHANGED <<run, raced>>
  BY DEF InNode
<1>2. /\ pc'[p] = to /\ \A q \in Process \ {p} : pc'[q] = pc[q]
      /\ pc' \in [Process -> Nodes \cup {"away", "create", "reopen", "reopened", "edit"}]
  BY <1>1 DEF TypeOK
<1>3. \A k \in 1..Len(pulls') : pulls'[k].ours => k \in 1..Len(pulls) /\ pulls[k].ours
  <2>1. /\ Len(pulls') \in Nat /\ Len(pulls) \in Nat
        /\ Len(pulls') = Len(pulls) \/ Len(pulls') = Len(pulls) + 1
    BY DEF GithubStep, TypeOK
  <2>2. \A k \in 1..Len(pulls') :
          k \in 1..Len(pulls) \/ (k = Len(pulls) + 1 /\ Len(pulls') = Len(pulls) + 1)
    BY ONLY <2>1
  <2> QED BY <2>2 DEF GithubStep
<1>4. /\ Len(pulls') \in Nat /\ 0..Len(pulls) \subseteq 0..Len(pulls')
      /\ DOMAIN pulls = 1..Len(pulls) /\ DOMAIN pulls' = 1..Len(pulls')
  <2>1. /\ Len(pulls') \in Nat /\ Len(pulls) \in Nat
        /\ Len(pulls') = Len(pulls) \/ Len(pulls') = Len(pulls) + 1
    BY DEF GithubStep, TypeOK
  <2>2. 0..Len(pulls) \subseteq 0..Len(pulls')
    BY ONLY <2>1
  <2> QED BY <2>1, <2>2 DEF GithubStep, TypeOK
<1>5. TypeOK'
  <2>1. pulls' \in Seq(Pull) /\ commits' \in Nat /\ remote' \in Nat
        /\ owner' \in Process /\ reopen_closed' \in BOOLEAN /\ raced' \in BOOLEAN
    BY <1>1 DEF TypeOK, GithubStep, run
  <2>2. state' \in [status : Reported \cup {"running", "failed", "approval_denied"},
                    next : Nodes \cup {"end"}, pr_url : 0..Len(pulls')]
        /\ (state'.status \in Reported => state'.pr_url # 0)
    BY <1>1, <1>4 DEF TypeOK, run
  <2>3. \A q \in Process : pc'[q] \in {"reopen", "reopened", "edit"} => seen'[q].id # 0
    BY <1>2 DEF TypeOK
  <2> QED BY <1>2, <2>1, <2>2, <2>3 DEF TypeOK
<1>6. OwnerIsAlone'
  BY <1>1, <1>2 DEF OwnerIsAlone, run
<1>7. CreatesTheFirst'
  <2>1. \A q \in Process : q = p /\ pc'[q] = "create" => Len(pulls) = 0
    BY <1>2
  <2>2. pc'[p] = "create" => \A i \in 1..Len(pulls') : ~pulls'[i].ours
    BY <2>1, <1>3
  <2>3. \A q \in Process \ {p} : pc'[q] = "create" /\ ~raced =>
          \A i \in 1..Len(pulls') : ~pulls'[i].ours
    BY <1>2, <1>3, <1>4 DEF CreatesTheFirst
  <2> QED BY <1>1, <1>4, <2>2, <2>3 DEF CreatesTheFirst
<1>8. OwnerIsThere'
  BY <1>1, <1>2 DEF OwnerIsThere, run, TypeOK
<1>9. WorkIsPushed'
  BY <1>1 DEF WorkIsPushed, run, GithubStep
<1>10. NoDuplicate'
  <2>1. ~raced => \A k, l \in 1..Len(pulls) : pulls[k].ours /\ pulls[l].ours => k = l
    BY <1>4 DEF NoDuplicate
  <2>2. raced' = raced
    BY <1>1
  <2>3. ~raced => \A k, l \in 1..Len(pulls') : pulls'[k].ours /\ pulls'[l].ours => k = l
    BY <1>3, <2>1
  <2> QED BY <1>4, <2>2, <2>3 DEF NoDuplicate
<1> QED BY <1>5, <1>6, <1>7, <1>8, <1>9, <1>10

LEMMA PeopleKeep ==
  ASSUME HandoffInv, GithubStep(FALSE), remote' = remote,
         UNCHANGED <<run, pc, seen, raced>>
  PROVE  HandoffInv'
<1> USE DEF HandoffInv
<1>1. UNCHANGED <<commits, state, owner, reopen_closed, pc, seen, raced>>
  BY DEF run
<1>2. /\ Len(pulls') \in Nat /\ Len(pulls) \in Nat
      /\ Len(pulls') = Len(pulls) \/ Len(pulls') = Len(pulls) + 1
  BY DEF GithubStep, TypeOK
<1>3. /\ 0..Len(pulls) \subseteq 0..Len(pulls')
      /\ \A k \in 1..Len(pulls') :
           k \in 1..Len(pulls) \/ (k = Len(pulls) + 1 /\ Len(pulls') = Len(pulls) + 1)
  BY ONLY <1>2
<1>4. \A k \in 1..Len(pulls') : pulls'[k].ours => k \in 1..Len(pulls) /\ pulls[k].ours
  BY <1>3 DEF GithubStep
<1>5. DOMAIN pulls = 1..Len(pulls) /\ DOMAIN pulls' = 1..Len(pulls')
  BY DEF TypeOK, GithubStep
<1>6. TypeOK'
  <2>1. /\ pulls' \in Seq(Pull)
        /\ state \in [status : Reported \cup {"running", "failed", "approval_denied"},
                      next : Nodes \cup {"end"}, pr_url : 0..Len(pulls')]
        /\ seen \in [Process -> [id : 0..Len(pulls'), has : SUBSET Wanted]]
    BY <1>3 DEF TypeOK, GithubStep
  <2> QED BY <1>1, <2>1 DEF TypeOK
<1>7. OwnerIsAlone' /\ OwnerIsThere' /\ WorkIsPushed'
  BY <1>1 DEF OwnerIsAlone, OwnerIsThere, WorkIsPushed
<1>8. CreatesTheFirst'
  BY <1>1, <1>4, <1>5 DEF CreatesTheFirst
<1>9. NoDuplicate'
  <2>1. ~raced => \A k, l \in 1..Len(pulls) : pulls[k].ours /\ pulls[l].ours => k = l
    BY <1>5 DEF NoDuplicate
  <2>2. ~raced => \A k, l \in 1..Len(pulls') : pulls'[k].ours /\ pulls'[l].ours => k = l
    BY <1>4, <2>1
  <2> QED BY <1>1, <1>5, <2>2 DEF NoDuplicate
<1> QED BY <1>6, <1>7, <1>8, <1>9
-----------------------------------------------------------------------------
LEMMA EnterKeeps ==
  ASSUME HandoffInv, NEW p \in Process, Enter(p)
  PROVE  HandoffInv'
<1> USE DEF HandoffInv
<1>1. /\ pc[p] = "away" /\ state.next \in Nodes
      /\ pc' = [pc EXCEPT ![p] = state.next] /\ owner' = p
      /\ raced' = (raced \/ \E q \in Process : pc[q] \notin {"away", "push_node"})
      /\ UNCHANGED <<pulls, remote, commits, state, reopen_closed, seen>>
  BY DEF Enter, github, TypeOK
<1>2. pc'[p] = state.next /\ \A q \in Process \ {p} : pc'[q] = pc[q]
  BY <1>1 DEF TypeOK
<1>3. TypeOK'
  <2>1. pc' \in [Process -> Nodes \cup {"away", "create", "reopen", "reopened", "edit"}]
    BY <1>1 DEF TypeOK
  <2>2. \A q \in Process : pc'[q] \in {"reopen", "reopened", "edit"} => seen'[q].id # 0
    BY <1>1, <1>2 DEF TypeOK, Nodes
  <2>3. raced' \in BOOLEAN
    BY <1>1 DEF TypeOK
  <2> QED BY <1>1, <2>1, <2>2, <2>3 DEF TypeOK
<1>4. OwnerIsAlone'
  BY <1>1, <1>2 DEF OwnerIsAlone
<1>5. CreatesTheFirst'
  <2>1. ~raced' => ~raced
    BY <1>1
  <2>2. \A q \in Process : pc'[q] = "create" => pc[q] = "create"
    BY <1>1, <1>2 DEF Nodes
  <2> QED BY <1>1, <2>1, <2>2 DEF CreatesTheFirst
<1>6. OwnerIsThere'
  BY <1>1, <1>2 DEF OwnerIsThere, Nodes
<1>7. WorkIsPushed'
  BY <1>1 DEF WorkIsPushed
<1>8. NoDuplicate'
  <2>1. ~raced' => ~raced
    BY <1>1
  <2> QED BY <1>1, <2>1 DEF NoDuplicate
<1> QED BY <1>3, <1>4, <1>5, <1>6, <1>7, <1>8

LEMMA LeaveKeeps ==
  ASSUME HandoffInv, NEW p \in Process, Leave(p)
  PROVE  HandoffInv'
<1> USE DEF HandoffInv
<1>1. /\ pc' = [pc EXCEPT ![p] = "away"]
      /\ seen' = [seen EXCEPT ![p] = NothingSeen]
      /\ UNCHANGED <<pulls, remote, commits, state, owner, reopen_closed, raced>>
  BY DEF Leave, github, run
<1>2. pc'[p] = "away" /\ \A q \in Process \ {p} : pc'[q] = pc[q] /\ seen'[q] = seen[q]
  BY <1>1 DEF TypeOK
<1>3. TypeOK'
  <2>1. pc' \in [Process -> Nodes \cup {"away", "create", "reopen", "reopened", "edit"}]
    BY <1>1 DEF TypeOK
  <2>2. \A q \in Process : pc'[q] \in {"reopen", "reopened", "edit"} => seen'[q].id # 0
    BY <1>2 DEF TypeOK
  <2>3. seen' \in [Process -> [id : 0..Len(pulls), has : SUBSET Wanted]]
    <3>1. Len(pulls) \in Nat
      BY DEF TypeOK
    <3>2. NothingSeen \in [id : 0..Len(pulls), has : SUBSET Wanted]
      BY <3>1 DEF NothingSeen
    <3> QED BY <3>2, <1>1 DEF TypeOK
  <2> QED BY <1>1, <2>1, <2>2, <2>3 DEF TypeOK
<1>4. OwnerIsAlone' /\ OwnerIsThere' /\ WorkIsPushed'
  BY <1>1, <1>2 DEF OwnerIsAlone, OwnerIsThere, WorkIsPushed, TypeOK
<1>5. CreatesTheFirst' /\ NoDuplicate'
  BY <1>1, <1>2 DEF CreatesTheFirst, NoDuplicate
<1> QED BY <1>3, <1>4, <1>5

LEMMA AgainKeeps ==
  ASSUME HandoffInv, PullRequestConstantsOK, Again
  PROVE  HandoffInv'
<1> USE DEF HandoffInv
<1>1. /\ state.next = "end" /\ commits' \in Nat
      /\ state' = [state EXCEPT !.next = "push_node", !.status = "running"]
      /\ UNCHANGED <<pulls, remote, owner, reopen_closed, pc, seen, raced>>
  BY DEF Again, github, TypeOK
<1>2. state' = [status |-> "running", next |-> "push_node", pr_url |-> state.pr_url]
  BY <1>1 DEF TypeOK
<1>3. TypeOK'
  <2>1. state' \in [status : Reported \cup {"running", "failed", "approval_denied"},
                    next : Nodes \cup {"end"}, pr_url : 0..Len(pulls)]
    BY <1>2 DEF TypeOK, Nodes
  <2>2. state'.status \notin Reported
    BY <1>2 DEF Reported, Handed
  <2> QED BY <1>1, <2>1, <2>2 DEF TypeOK
<1>4. pc[owner] = "away"
  BY <1>1 DEF OwnerIsThere
<1> QED BY <1>1, <1>2, <1>3, <1>4
      DEF OwnerIsAlone, OwnerIsThere, WorkIsPushed, CreatesTheFirst, NoDuplicate

(* Where the owner is past the push, all commits are on the remote.        *)
LEMMA OwnerHasPushed ==
  ASSUME HandoffInv, NEW p \in Process, owner = p,
         pc[p] \notin {"away", "push_node"}, state.pr_url = 0
  PROVE  remote = commits
  BY DEF HandoffInv, OwnerIsThere, WorkIsPushed

LEMMA PushKeeps ==
  ASSUME HandoffInv, NEW p \in Process,
         Answered(p) \/ Deny(p) \/ Push(p) \/ PushFails(p)
  PROVE  HandoffInv'
<1>1. CASE Answered(p)
  <2>1. pulls' = pulls /\ remote' = remote /\ pc[p] # "away" /\ state.pr_url \in 0..Len(pulls')
    BY <1>1 DEF Answered, github, HandoffInv, TypeOK, Nodes
  <2>2. GithubStep(pc[p] = "create")
    BY <2>1, SameGithub DEF HandoffInv
  <2>3. Save(p, "pr_created", "end", state.pr_url) /\ state.pr_url # 0
    BY <1>1 DEF Answered
  <2> QED BY <2>1, <2>2, <2>3, SaveKeeps DEF Reported, Handed
<1>2. CASE Deny(p)
  <2>1. /\ pulls' = pulls /\ remote' = remote /\ pc[p] # "away" /\ 0 \in 0..Len(pulls')
        /\ Save(p, "approval_denied", "end", 0)
    BY <1>2 DEF Deny, github, HandoffInv, TypeOK, Nodes
  <2>2. GithubStep(pc[p] = "create")
    BY <2>1, SameGithub DEF HandoffInv
  <2> QED BY <2>1, <2>2, SaveKeeps DEF Reported, Handed
<1>3. CASE Push(p)
  <2>1. /\ pulls' = pulls /\ remote' = commits /\ pc[p] # "away" /\ 0 \in 0..Len(pulls')
        /\ Save(p, "running", "pull_request_node", 0)
    BY <1>3 DEF Push, HandoffInv, TypeOK
  <2>2. GithubStep(pc[p] = "create")
    BY <2>1, SameGithub DEF HandoffInv
  <2> QED BY <2>1, <2>2, SaveKeeps DEF Reported, Handed, Nodes
<1>4. CASE PushFails(p)
  <2>1. /\ pulls' = pulls /\ remote' \in {remote, commits} /\ pc[p] # "away"
        /\ Fails(p, "push_node")
    BY <1>4 DEF PushFails
  <2>2. GithubStep(pc[p] = "create")
    BY <2>1, SameGithub DEF HandoffInv
  <2> QED BY <2>1, <2>2, FailsKeeps DEF Nodes
<1> QED BY <1>1, <1>2, <1>3, <1>4

LEMMA LookUpKeeps ==
  ASSUME HandoffInv, NEW p \in Process, LookUp(p) \/ LookUpFails(p)
  PROVE  HandoffInv'
<1>1. /\ pc[p] = "pull_request_node" /\ state.pr_url = 0
      /\ pulls' = pulls /\ remote' = remote
  BY DEF LookUp, LookUpFails, github
<1>2. GithubStep(FALSE) /\ GithubStep(pc[p] = "create")
  BY <1>1, SameGithub DEF HandoffInv
<1>3. owner = p => remote' = commits
  BY <1>1, OwnerHasPushed
<1>4. CASE LookUpFails(p)
  <2>1. Fails(p, "pull_request_node")
    BY <1>4 DEF LookUpFails
  <2> QED BY <1>1, <1>2, <1>3, <2>1, FailsKeeps DEF Nodes
<1>5. ASSUME NEW i \in Listed, Reconciles(p, i) PROVE HandoffInv'
  <2>1. i \in DOMAIN pulls /\ i \in 0..Len(pulls') /\ i # 0
    BY <1>1 DEF Listed, HandoffInv, TypeOK
  <2>2. CASE Save(p, "pr_merged", "end", i)
    BY <1>1, <1>2, <2>1, <2>2, SaveKeeps DEF Reported, Handed
  <2>3. CASE Save(p, "pr_closed", "end", i)
    BY <1>1, <1>2, <2>1, <2>3, SaveKeeps DEF Reported, Handed
  <2>4. ASSUME seen' = [seen EXCEPT ![p] = [id |-> i, has |-> pulls[i].has]],
               NEW to \in {"edit", "reopen"}, InNode(p, to)
        PROVE  HandoffInv'
    <3>1. [id |-> i, has |-> pulls[i].has] \in [id : 0..Len(pulls'), has : SUBSET Wanted]
      BY <2>1, PullFields DEF HandoffInv, Pull
    <3>2. seen' \in [Process -> [id : 0..Len(pulls'), has : SUBSET Wanted]]
      BY <1>1, <2>4, <3>1 DEF HandoffInv, TypeOK
    <3>3. seen'[p].id # 0 /\ \A q \in Process \ {p} : seen'[q] = seen[q]
      BY <2>1, <2>4 DEF HandoffInv, TypeOK
    <3> QED BY <1>1, <1>2, <2>4, <3>2, <3>3, InNodeKeeps
  <2> QED BY <1>5, <2>2, <2>3, <2>4 DEF Reconciles
<1>6. CASE Listed = {} /\ InNode(p, "create") /\ UNCHANGED seen
  <2>1. pulls = <<>>
    BY <1>6 DEF Listed, HandoffInv, TypeOK
  <2>2. seen' \in [Process -> [id : 0..Len(pulls'), has : SUBSET Wanted]]
    BY <1>1, <1>6 DEF HandoffInv, TypeOK
  <2> QED BY <1>1, <1>2, <1>6, <2>1, <2>2, InNodeKeeps
<1> QED BY <1>4, <1>5, <1>6 DEF LookUp

LEMMA CreateKeeps ==
  ASSUME HandoffInv, NEW p \in Process, Create(p) \/ CreateFails(p)
  PROVE  HandoffInv'
<1>1. pc[p] = "create" /\ Policy \subseteq Wanted /\ Wanted \in SUBSET Wanted
  BY DEF Create, CreateFails, Wanted
<1>2. owner = p /\ state.pr_url = 0 => remote = commits
  BY <1>1, OwnerHasPushed
<1>3. CASE Create(p)
  <2>1. Opens(Wanted, TRUE) /\ Save(p, "pr_created", "end", Len(pulls) + 1)
    BY <1>3 DEF Create
  <2>2. GithubStep(pc[p] = "create") /\ Len(pulls') = Len(pulls) + 1
    BY <1>1, <2>1, OpensStep DEF HandoffInv
  <2>3. Len(pulls) + 1 \in 0..Len(pulls') /\ Len(pulls) + 1 # 0
    <3>1. Len(pulls) \in Nat
      BY DEF HandoffInv, TypeOK
    <3> QED BY <2>2, <3>1
  <2> QED BY <1>1, <2>1, <2>2, <2>3, SaveKeeps DEF Reported, Handed
<1>4. CASE CreateFails(p)
  <2>1. Fails(p, "pull_request_node")
    BY <1>4 DEF CreateFails
  <2>2. GithubStep(pc[p] = "create") /\ remote' = remote
    <3>1. CASE UNCHANGED github
      BY <3>1, SameGithub DEF HandoffInv, github
    <3>2. ASSUME NEW has \in SUBSET Policy, Opens(has \cup {Text}, TRUE)
          PROVE  GithubStep(pc[p] = "create") /\ remote' = remote
      <4>1. has \cup {Text} \in SUBSET Wanted
        BY DEF Wanted
      <4> QED BY <1>1, <3>2, <4>1, OpensStep DEF HandoffInv
    <3> QED BY <1>4, <3>1, <3>2 DEF CreateFails
  <2> QED BY <1>1, <1>2, <2>1, <2>2, FailsKeeps DEF Nodes
<1> QED BY <1>3, <1>4

LEMMA ReopenKeeps ==
  ASSUME HandoffInv, NEW p \in Process, Reopen(p) \/ ReopenFails(p)
  PROVE  HandoffInv'
<1>1. /\ pc[p] = "reopen" /\ seen[p].id # 0 /\ seen[p].id \in DOMAIN pulls
      /\ seen \in [Process -> [id : 0..Len(pulls), has : SUBSET Wanted]]
  BY DEF Reopen, ReopenFails, HandoffInv, TypeOK
<1>2. CASE Reopen(p)
  <2>1. Reopens(seen[p].id) /\ InNode(p, "reopened") /\ UNCHANGED seen
    BY <1>2 DEF Reopen
  <2>2. GithubStep(FALSE) /\ 0..Len(pulls) \subseteq 0..Len(pulls')
    <3>1. GithubStep(FALSE)
      BY <1>1, <2>1, ReopensStep DEF HandoffInv
    <3>2. Len(pulls) \in Nat /\ (Len(pulls') = Len(pulls) \/ Len(pulls') = Len(pulls) + 1)
      BY <3>1 DEF GithubStep, HandoffInv, TypeOK
    <3>3. 0..Len(pulls) \subseteq 0..Len(pulls')
      BY ONLY <3>2
    <3> QED BY <3>1, <3>3
  <2>3. seen' \in [Process -> [id : 0..Len(pulls'), has : SUBSET Wanted]]
    BY <1>1, <2>1, <2>2
  <2> QED BY <1>1, <2>1, <2>2, <2>3, InNodeKeeps
<1>3. CASE ReopenFails(p)
  <2>1. Fails(p, "pull_request_node")
    BY <1>3 DEF ReopenFails
  <2>2. GithubStep(pc[p] = "create") /\ remote' = remote
    <3>1. CASE UNCHANGED github
      BY <3>1, SameGithub DEF HandoffInv, github
    <3>2. CASE Reopens(seen[p].id)
      BY <1>1, <3>2, ReopensStep DEF HandoffInv
    <3> QED BY <1>3, <3>1, <3>2 DEF ReopenFails
  <2>3. owner = p /\ state.pr_url = 0 => remote' = commits
    BY <1>1, <2>2, OwnerHasPushed
  <2> QED BY <1>1, <2>1, <2>2, <2>3, FailsKeeps DEF Nodes
<1> QED BY <1>2, <1>3

LEMMA EditKeeps ==
  ASSUME HandoffInv, NEW p \in Process, Edit(p) \/ EditFails(p)
  PROVE  HandoffInv'
<1>1. /\ pc[p] \in {"edit", "reopened"} /\ seen[p].id # 0
      /\ Missing(seen[p].has) \in SUBSET Wanted
  BY DEF Edit, EditFails, HandoffInv, TypeOK, Missing
<1>2. PICK added \in SUBSET Wanted : Edits(p, added)
  BY <1>1 DEF Edit, EditFails
<1>3. /\ GithubStep(pc[p] = "create") /\ remote' = remote
      /\ seen[p].id \in 0..Len(pulls')
  <2>1. /\ GithubStep(pc[p] = "create") /\ remote' = remote
        /\ Len(pulls') = Len(pulls) /\ seen[p].id \in 1..Len(pulls)
    BY <1>1, <1>2, EditsStep DEF HandoffInv
  <2>2. Len(pulls) \in Nat
    BY DEF HandoffInv, TypeOK
  <2> QED BY <2>1, <2>2
<1>4. CASE Edit(p)
  <2>1. PICK status \in Handed : Save(p, status, "end", seen[p].id)
    BY <1>4 DEF Edit, Handed
  <2> QED BY <1>1, <1>3, <2>1, SaveKeeps DEF Reported
<1>5. CASE EditFails(p)
  <2>1. Fails(p, "pull_request_node")
    BY <1>5 DEF EditFails
  <2>2. owner = p /\ state.pr_url = 0 => remote' = commits
    BY <1>1, <1>3, OwnerHasPushed
  <2> QED BY <1>1, <1>3, <2>1, <2>2, FailsKeeps DEF Nodes
<1> QED BY <1>4, <1>5

LEMMA PersonKeeps ==
  ASSUME HandoffInv,
         \/ PersonOpens
         \/ \E i \in DOMAIN pulls : PersonDecides(i) \/ PersonEdits(i)
  PROVE  HandoffInv'
<1>1. CASE PersonOpens
  <2>1. PICK has \in SUBSET Wanted : Opens(has, FALSE)
    BY <1>1 DEF PersonOpens
  <2>2. GithubStep(FALSE) /\ remote' = remote
    BY <2>1, OpensStep DEF HandoffInv
  <2> QED BY <1>1, <2>2, PeopleKeep DEF PersonOpens
<1>2. ASSUME NEW i \in DOMAIN pulls, PersonDecides(i) \/ PersonEdits(i)
      PROVE  HandoffInv'
  <2>1. pulls[i] \in Pull
    BY PullFields DEF HandoffInv
  <2>2. /\ remote' = remote /\ UNCHANGED <<run, pc, seen, raced>>
        /\ \/ \E s \in {"open", "closed", "merged"} :
                 pulls' = [pulls EXCEPT ![i] = [pulls[i] EXCEPT !.state = s]]
           \/ \E has \in SUBSET Wanted :
                 pulls' = [pulls EXCEPT ![i] = [pulls[i] EXCEPT !.has = has]]
    BY <1>2 DEF PersonDecides, PersonEdits
  <2>3. PICK r \in Pull : r.ours = pulls[i].ours /\ pulls' = [pulls EXCEPT ![i] = r]
    <3>1. ASSUME NEW s \in {"open", "closed", "merged"}
          PROVE  LET r == [pulls[i] EXCEPT !.state = s]
                 IN  r \in Pull /\ r.ours = pulls[i].ours
      BY <2>1 DEF Pull
    <3>2. ASSUME NEW has \in SUBSET Wanted
          PROVE  LET r == [pulls[i] EXCEPT !.has = has]
                 IN  r \in Pull /\ r.ours = pulls[i].ours
      BY <2>1 DEF Pull
    <3>3. CASE \E s \in {"open", "closed", "merged"} :
                 pulls' = [pulls EXCEPT ![i] = [pulls[i] EXCEPT !.state = s]]
      <4>1. PICK t \in {"open", "closed", "merged"} :
                 pulls' = [pulls EXCEPT ![i] = [pulls[i] EXCEPT !.state = t]]
        BY <3>3
      <4> DEFINE q == [pulls[i] EXCEPT !.state = t]
      <4>2. q \in Pull /\ q.ours = pulls[i].ours /\ pulls' = [pulls EXCEPT ![i] = q]
        BY <3>1, <4>1
      <4> HIDE DEF q
      <4> QED BY <4>2
    <3>4. CASE \E has \in SUBSET Wanted :
                 pulls' = [pulls EXCEPT ![i] = [pulls[i] EXCEPT !.has = has]]
      <4>1. PICK has \in SUBSET Wanted :
                 pulls' = [pulls EXCEPT ![i] = [pulls[i] EXCEPT !.has = has]]
        BY <3>4
      <4> DEFINE q == [pulls[i] EXCEPT !.has = has]
      <4>2. q \in Pull /\ q.ours = pulls[i].ours /\ pulls' = [pulls EXCEPT ![i] = q]
        BY <3>2, <4>1
      <4> HIDE DEF q
      <4> QED BY <4>2
    <3> QED BY <2>2, <3>3, <3>4
  <2>4. GithubStep(FALSE)
    BY <2>2, <2>3, ChangeStep DEF HandoffInv
  <2> QED BY <2>2, <2>4, PeopleKeep
<1> QED BY <1>1, <1>2
-----------------------------------------------------------------------------
LEMMA HandoffInit == ASSUME PullRequestConstantsOK, Init PROVE HandoffInv
<1> USE DEF Init
<1>1. pulls \in Seq(Pull) /\ Len(pulls) = 0 /\ DOMAIN pulls = {}
  OBVIOUS
<1>2. TypeOK
  <2>1. NothingSeen \in [id : 0..Len(pulls), has : SUBSET Wanted]
    BY <1>1 DEF NothingSeen
  <2>2. seen \in [Process -> [id : 0..Len(pulls), has : SUBSET Wanted]]
    BY <2>1
  <2>3. state \in [status : Reported \cup {"running", "failed", "approval_denied"},
                   next : Nodes \cup {"end"}, pr_url : 0..Len(pulls)]
        /\ state.status \notin Reported
    BY <1>1 DEF Nodes, Reported, Handed
  <2>4. /\ commits \in Nat /\ remote \in Nat /\ owner \in Process
        /\ reopen_closed \in BOOLEAN /\ raced \in BOOLEAN
        /\ pc \in [Process -> Nodes \cup {"away", "create", "reopen", "reopened", "edit"}]
        /\ \A p \in Process : pc[p] = "away"
    OBVIOUS
  <2>5. \A p \in Process : pc[p] \in {"reopen", "reopened", "edit"} => seen[p].id # 0
    BY <2>4
  <2> HIDE DEF Init
  <2> QED BY <1>1, <2>2, <2>3, <2>4, <2>5 DEF TypeOK
<1>3. OwnerIsAlone /\ CreatesTheFirst /\ OwnerIsThere /\ WorkIsPushed /\ NoDuplicate
  BY <1>1 DEF OwnerIsAlone, CreatesTheFirst, OwnerIsThere, WorkIsPushed, NoDuplicate
<1> QED BY <1>2, <1>3 DEF HandoffInv

LEMMA HandoffStep ==
  ASSUME PullRequestConstantsOK, HandoffInv, [Next]_vars PROVE HandoffInv'
<1>1. ASSUME NEW p \in Process, Runs(p) PROVE HandoffInv'
  <2>1. CASE Enter(p)      BY <2>1, EnterKeeps
  <2>2. CASE Leave(p)      BY <2>2, LeaveKeeps
  <2>3. CASE Answered(p) \/ Deny(p) \/ Push(p) \/ PushFails(p)
    BY <2>3, PushKeeps
  <2>4. CASE LookUp(p) \/ LookUpFails(p)
    BY <2>4, LookUpKeeps
  <2>5. CASE Create(p) \/ CreateFails(p)
    BY <2>5, CreateKeeps
  <2>6. CASE Reopen(p) \/ ReopenFails(p)
    BY <2>6, ReopenKeeps
  <2>7. CASE Edit(p) \/ EditFails(p)
    BY <2>7, EditKeeps
  <2> QED BY <1>1, <2>1, <2>2, <2>3, <2>4, <2>5, <2>6, <2>7 DEF Runs
<1>2. CASE Again
  BY <1>2, AgainKeeps
<1>3. CASE PersonOpens \/ \E i \in DOMAIN pulls : PersonDecides(i) \/ PersonEdits(i)
  BY <1>3, PersonKeeps
<1>4. CASE UNCHANGED vars
  BY <1>4 DEF vars, github, run, HandoffInv, TypeOK, OwnerIsAlone, CreatesTheFirst,
              OwnerIsThere, WorkIsPushed, NoDuplicate
<1> QED BY <1>1, <1>2, <1>3, <1>4 DEF Next

(* The inductive invariant holds: who is past the push, what gh pr create  *)
(* was preceded by, and what the checkpoint says of the remote.            *)
THEOREM HandoffInvariant == Spec => []HandoffInv
<1>1. Init => HandoffInv
  BY HandoffInit, PullRequestConstantsOK
<1>2. HandoffInv /\ [Next]_vars => HandoffInv'
  BY HandoffStep, PullRequestConstantsOK
<1> QED BY <1>1, <1>2, PTL DEF Spec

(* A reported pull request is one GitHub has, for any processes, policy    *)
(* and bounds.                                                             *)
THEOREM HandoffTypes == Spec => []TypeOK
<1>1. HandoffInv => TypeOK
  BY DEF HandoffInv
<1> QED BY <1>1, HandoffInvariant, PTL

(* Whatever is lost, retried, closed or merged, the handoff opens one pull *)
(* request (open_pull_request), unless a live process was overtaken in it. *)
THEOREM OpensOnePullRequest == Spec => []NoDuplicate
<1>1. HandoffInv => NoDuplicate
  BY DEF HandoffInv
<1> QED BY <1>1, HandoffInvariant, PTL

LEMMA ReportsAfterPush ==
  ASSUME HandoffInv, [Next]_vars, state'.status \in Reported, state.status \notin Reported
  PROVE  remote' = commits \/ state.pr_url # 0
<1> SUFFICES ASSUME state.pr_url = 0 PROVE remote' = commits
  OBVIOUS
<1>1. state' # state
  OBVIOUS
<1>2. ASSUME NEW p \in Process, NEW status, NEW next, NEW url, Save(p, status, next, url)
      PROVE  owner = p /\ state' = [status |-> status, next |-> next, pr_url |-> url]
  BY <1>1, <1>2 DEF Save
<1>3. ASSUME NEW p \in Process, NEW node, Fails(p, node) PROVE FALSE
  BY <1>2, <1>3 DEF Fails, Reported, Handed
<1>4. ASSUME NEW p \in Process, NEW to, InNode(p, to) PROVE FALSE
  BY <1>1, <1>4 DEF InNode, run
<1>5. ASSUME NEW p \in Process, owner = p, pc[p] \notin {"away", "push_node"}, remote' = remote
      PROVE  remote' = commits
  BY <1>5, OwnerHasPushed
<1>6. ASSUME NEW p \in Process, Runs(p) PROVE remote' = commits
  <2>1. CASE Enter(p)      BY <1>1, <2>1 DEF Enter
  <2>2. CASE Leave(p)      BY <1>1, <2>2 DEF Leave, run
  <2>3. CASE Answered(p)   BY <2>3 DEF Answered
  <2>4. CASE Deny(p)       BY <1>2, <2>4 DEF Deny, Reported, Handed
  <2>5. CASE Push(p)       BY <1>2, <2>5 DEF Push, Reported, Handed
  <2>6. CASE PushFails(p)  BY <1>3, <2>6 DEF PushFails
  <2>7. CASE LookUp(p)
    <3>1. pc[p] = "pull_request_node" /\ remote' = remote
      BY <2>7 DEF LookUp, github
    <3>2. owner = p
      BY <1>2, <1>4, <2>7 DEF LookUp, Reconciles
    <3> QED BY <1>5, <3>1, <3>2
  <2>8. CASE LookUpFails(p) \/ CreateFails(p) \/ ReopenFails(p) \/ EditFails(p)
    BY <1>3, <2>8 DEF LookUpFails, CreateFails, ReopenFails, EditFails
  <2>9. CASE Create(p)
    BY <1>2, <1>5, <2>9 DEF Create, Opens
  <2>10. CASE Reopen(p)
    BY <1>4, <2>10 DEF Reopen
  <2>11. CASE Edit(p)
    <3>1. owner = p
      BY <1>2, <2>11 DEF Edit
    <3> QED BY <1>5, <2>11, <3>1 DEF Edit, Edits
  <2> QED BY <1>6, <2>1, <2>2, <2>3, <2>4, <2>5, <2>6, <2>7, <2>8, <2>9, <2>10, <2>11
          DEF Runs
<1>7. CASE Again
  BY <1>7 DEF Again, HandoffInv, TypeOK, Reported, Handed
<1>8. CASE PersonOpens \/ \E i \in DOMAIN pulls : PersonDecides(i) \/ PersonEdits(i)
  BY <1>1, <1>8 DEF PersonOpens, PersonDecides, PersonEdits, run
<1>9. CASE UNCHANGED vars
  BY <1>1, <1>9 DEF vars, run
<1> QED BY <1>6, <1>7, <1>8, <1>9 DEF Next

(* A pull request is reported only with all commits on the remote, for any *)
(* processes and bounds: route_after_push and the wrapper's checkpoint.    *)
THEOREM NothingUnpushedIsHandedOver == Spec => HandoffHasTheWork
<1>1. HandoffInv /\ [Next]_vars =>
        [state'.status \in Reported /\ state.status \notin Reported =>
           remote' = commits \/ state.pr_url # 0]_vars
  BY ReportsAfterPush
<1> QED BY <1>1, HandoffInvariant, PTL DEF Spec, HandoffHasTheWork

LEMMA HandsOverAll ==
  ASSUME HandoffInv, [Next]_vars, NEW p \in Process, pc[p] \in {"create", "edit", "reopened"},
         owner = p, state' # state, state'.status \in Handed
  PROVE  Wanted \subseteq pulls'[state'.pr_url].has \cup seen[p].has
<1>1. ASSUME NEW q \in Process, NEW status, NEW next, NEW url, Save(q, status, next, url)
      PROVE  q = p /\ state' = [status |-> status, next |-> next, pr_url |-> url]
  BY <1>1 DEF Save
<1>2. ASSUME NEW q \in Process, NEW node, Fails(q, node) PROVE FALSE
  BY <1>1, <1>2 DEF Fails, Handed
<1>3. ASSUME NEW q \in Process, NEW to, InNode(q, to) PROVE FALSE
  BY <1>3 DEF InNode, run
<1>4. CASE Create(p)
  <2>1. Opens(Wanted, TRUE) /\ Save(p, "pr_created", "end", Len(pulls) + 1)
    BY <1>4 DEF Create
  <2>2. state'.pr_url = Len(pulls) + 1
    BY <2>1, <1>1
  <2>3. pulls'[Len(pulls) + 1].has = Wanted
    BY <2>1, OpensStep DEF HandoffInv
  <2> QED BY <2>2, <2>3
<1>5. CASE Edit(p)
  <2>1. Edits(p, Wanted \ seen[p].has) /\ state'.pr_url = seen[p].id
    BY <1>1, <1>5 DEF Edit, Missing
  <2>2. Wanted \ seen[p].has \subseteq pulls'[seen[p].id].has
    <3>1. seen[p].id # 0
      BY <1>5 DEF Edit, HandoffInv, TypeOK
    <3> QED BY <2>1, <3>1, EditsStep DEF HandoffInv
  <2> QED BY <2>1, <2>2
<1>6. ASSUME NEW q \in Process, Runs(q) PROVE Create(p) \/ Edit(p)
  <2>1. CASE Enter(q) \/ Leave(q)
    BY <2>1 DEF Enter, Leave, run
  <2>2. CASE Answered(q) \/ Deny(q) \/ Push(q)
    BY <1>1, <2>2 DEF Answered, Deny, Push, Nodes
  <2>3. CASE LookUp(q)
    BY <1>1, <1>3, <2>3 DEF LookUp, Reconciles
  <2>4. CASE PushFails(q) \/ LookUpFails(q) \/ CreateFails(q) \/ ReopenFails(q) \/ EditFails(q)
    BY <1>2, <2>4 DEF PushFails, LookUpFails, CreateFails, ReopenFails, EditFails
  <2>5. CASE Reopen(q)
    BY <1>3, <2>5 DEF Reopen
  <2>6. CASE Create(q)
    BY <1>1, <2>6 DEF Create
  <2>7. CASE Edit(q)
    <3>1. q = p
      BY <1>1, <2>7 DEF Edit
    <3> QED BY <2>7, <3>1
  <2> QED BY <1>6, <2>1, <2>2, <2>3, <2>4, <2>5, <2>6, <2>7 DEF Runs
<1>7. ~Again
  BY DEF Again, HandoffInv, TypeOK, Handed
<1>8. ~PersonOpens /\ \A i \in DOMAIN pulls : ~PersonDecides(i) /\ ~PersonEdits(i)
  BY DEF PersonOpens, PersonDecides, PersonEdits, run
<1>9. vars' # vars
  BY DEF vars, run
<1> QED BY <1>4, <1>5, <1>6, <1>7, <1>8, <1>9 DEF Next

(* A pull request is handed over with all labels, reviewers and text the   *)
(* run wants, but for what a person took away meanwhile, also after        *)
(* attempts that failed halfway (_reconcile_open_pr).                      *)
THEOREM HandsOverComplete == Spec => HandoffIsComplete
<1>1. HandoffInv /\ [Next]_vars =>
        [\A p \in Process :
           /\ pc[p] \in {"create", "edit", "reopened"} /\ owner = p
           /\ state' # state /\ state'.status \in Handed
           => Wanted \subseteq pulls'[state'.pr_url].has \cup seen[p].has]_vars
  BY HandsOverAll
<1> QED BY <1>1, HandoffInvariant, PTL DEF Spec, HandoffIsComplete
=============================================================================

--------------------------- MODULE WorkspacesProofs ---------------------------
(***************************************************************************)
(* Proofs about Workspaces, for any runs, ids and cleaners: the types, and *)
(* that a command takes nothing from a run that has been live since the    *)
(* command began, nor, without --force, what is only local.                *)
(***************************************************************************)
EXTENDS Workspaces, Sequences, TLAPS

(* What a call has read and not yet used never names a run that has been   *)
(* live since the call began.                                              *)
CallSpares(c) ==
  \A r \in steady[c] :
    /\ record[r] = "live"
    /\ call[c].phase = "listing" => NameOf(r) \in call[c].live
    /\ NameOf(r) \notin call[c].trees \cup call[c].locals \cup call[c].heads
IdleIsBlank(c) == call[c] = Idle => steady[c] = {}
Targets(c) == call[c].trees \cup call[c].locals \cup call[c].heads
ListsFirst(c) == call[c].phase = "listing" => Targets(c) = {}
CallInv(c) == CallSpares(c) /\ IdleIsBlank(c) /\ ListsFirst(c)
CallsSpare == \A c \in Cleaner : CallInv(c)
WorkspaceInv == TypeOK /\ CallsSpare

(* Names tell runs apart: an id that was changed carries itself.           *)
LEMMA NamesTellApart ==
  ASSUME NEW r \in Run, NEW s \in Run, NameOf(r) = NameOf(s)
  PROVE  r = s
<1>1. CASE r \in Changed /\ s \in Changed
  BY <1>1 DEF NameOf
<1>2. CASE r \notin Changed /\ s \notin Changed
  BY <1>2, ConstantsOK DEF NameOf
<1>3. CASE (r \in Changed) # (s \in Changed)
  <2>1. Len(NameOf(r)) # Len(NameOf(s))
    BY <1>3 DEF NameOf
  <2> QED BY <2>1
<1> QED BY <1>1, <1>2, <1>3
-----------------------------------------------------------------------------
LEMMA IdleType == Idle.trees = {} /\ Idle.locals = {} /\ Idle.heads = {}
  BY DEF Idle

LEMMA CallType ==
  ASSUME TypeOK, NEW c \in Cleaner, NEW new \in Busy \cup {Idle}, SetCall(c, new)
  PROVE  call' \in [Cleaner -> Busy \cup {Idle}]
  BY DEF TypeOK, SetCall

LEMMA NamesOfRuns == ASSUME NEW r \in Run PROVE NameOf(r) \in Name
  BY DEF Name

LEMMA MarkedType ==
  ASSUME TypeOK
  PROVE  Marked \in [Run -> {"none", "live", "complete", "failed", "abandoned"}]
  BY DEF TypeOK, Marked

LEMMA BusyIsNotIdle == \A k \in Busy : k # Idle
  BY DEF Busy, Idle

(* What a removal leaves is well typed, whether it was done or not.        *)
LEMMA RemovalType ==
  ASSUME TypeOK, NEW c \in Cleaner, NEW done \in BOOLEAN,
         NEW rest \in Busy,
         OneRemoval(c, done, rest),
         done => /\ tree' \in [Name -> {"none", "clean", "dirty"}]
                 /\ branch' \in [Name -> {"none", "base", "ahead", "pushed", "forked"}]
                 /\ remote' \subseteq Name
  PROVE  /\ tree' \in [Name -> {"none", "clean", "dirty"}]
         /\ branch' \in [Name -> {"none", "base", "ahead", "pushed", "forked"}]
         /\ remote' \subseteq Name
         /\ call' \in [Cleaner -> Busy \cup {Idle}]
<1>1. CASE done /\ SetCall(c, rest)
  BY <1>1, CallType
<1>2. CASE UNCHANGED disk /\ (SetCall(c, rest) \/ Close(c))
  <2>1. call' \in [Cleaner -> Busy \cup {Idle}]
    BY <1>2, CallType DEF Close
  <2> QED BY <1>2, <2>1 DEF TypeOK, disk
<1> QED BY <1>1, <1>2 DEF OneRemoval

(* The types of everything but the history, which Observe keeps.           *)
TableTypes ==
  /\ record \in [Run -> {"none", "live", "complete", "failed", "abandoned"}]
  /\ leased \in [Run -> BOOLEAN]
  /\ at \in [Run -> {"out", "acquired", "node", "dead"}]
  /\ tree \in [Name -> {"none", "clean", "dirty"}]
  /\ branch \in [Name -> {"none", "base", "ahead", "pushed", "forked"}]
  /\ remote \subseteq Name
  /\ call \in [Cleaner -> Busy \cup {Idle}]

LEMMA SetRunType ==
  ASSUME TypeOK, NEW r \in Run,
         NEW status \in {"none", "live", "complete", "failed", "abandoned"},
         NEW lease \in BOOLEAN, NEW place \in {"out", "acquired", "node", "dead"},
         SetRun(r, status, lease, place), UNCHANGED <<disk, call>>
  PROVE  TableTypes'
  BY DEF TypeOK, TableTypes, SetRun, disk

LEMMA RunStepType ==
  ASSUME TypeOK, NEW r \in Run, RunStep(r)
  PROVE  TableTypes'
<1> USE NamesOfRuns DEF TypeOK, TableTypes, runVars, disk
<1>1. CASE Acquire(r) \/ EnsureFails(r)
  BY <1>1, SetRunType DEF Acquire, EnsureFails
<1>2. CASE Ensure(r)
  <2> DEFINE n == NameOf(r)
  <2>1. tree' \in [Name -> {"none", "clean", "dirty"}]
    BY <1>2 DEF Ensure
  <2>2. branch' \in [Name -> {"none", "base", "ahead", "pushed", "forked"}]
    BY <1>2 DEF Ensure
  <2> QED BY <1>2, <2>1, <2>2 DEF Ensure
<1>3. CASE Work(r) \/ CommitFiles(r)
  BY <1>3 DEF Work, CommitFiles
<1>4. CASE PushBranch(r)
  BY <1>4 DEF PushBranch
<1>5. CASE LeaveNode(r) \/ Finish(r)
  BY <1>5, SetRunType DEF LeaveNode, Finish
<1>6. CASE Crash(r) \/ Expire(r)
  BY <1>6 DEF Crash, Expire
<1>7. CASE Forget(r)
  BY <1>7 DEF Forget
<1> QED BY <1>1, <1>2, <1>3, <1>4, <1>5, <1>6, <1>7 DEF RunStep

LEMMA CleanerStepType ==
  ASSUME TypeOK, NEW c \in Cleaner, CleanerStep(c)
  PROVE  TableTypes'
<1>1. CASE BeginPrune(c)
  <2>1. LiveNames(Marked) \in SUBSET Name
    BY NamesOfRuns DEF LiveNames
  <2>2. PICK flags \in Flags :
          SetCall(c, [Idle EXCEPT !.phase = "listing", !.flags = flags,
                        !.live = LiveNames(Marked)])
    BY <1>1 DEF BeginPrune
  <2>3. [Idle EXCEPT !.phase = "listing", !.flags = flags,
           !.live = LiveNames(Marked)] \in Busy
    BY <2>1 DEF Busy, Idle
  <2>4. call' \in [Cleaner -> Busy \cup {Idle}]
    BY <2>2, <2>3, CallType
  <2> QED BY <1>1, <2>4, MarkedType DEF BeginPrune, TypeOK, TableTypes, disk
<1>2. CASE ListTargets(c)
  <2>1. call[c] \in Busy
    BY <1>2 DEF ListTargets, TypeOK, Idle
  <2>2. PICK new \in Busy : SetCall(c, new)
    BY <1>2, <2>1 DEF ListTargets, TypeOK, Busy
  <2>3. call' \in [Cleaner -> Busy \cup {Idle}]
    BY <2>2, CallType
  <2> QED BY <1>2, <2>3 DEF ListTargets, TypeOK, TableTypes, disk, runVars
<1>3. CASE EndCall(c)
  <2>1. call' \in [Cleaner -> Busy \cup {Idle}]
    BY <1>3, CallType DEF EndCall, Close
  <2> QED BY <1>3, <2>1 DEF EndCall, TypeOK, TableTypes, disk, runVars
<1>4. ASSUME NEW r \in Run, BeginRemove(c, r)
      PROVE  TableTypes'
  <2>1. PICK flags \in Flags :
          SetCall(c, [Idle EXCEPT !.phase = "removing", !.flags = flags,
                        !.trees = {NameOf(r)},
                        !.locals = {n \in {NameOf(r)} : flags.branches}])
    BY <1>4 DEF BeginRemove
  <2>2. [Idle EXCEPT !.phase = "removing", !.flags = flags,
           !.trees = {NameOf(r)},
           !.locals = {n \in {NameOf(r)} : flags.branches}] \in Busy
    BY NamesOfRuns DEF Busy, Idle
  <2>3. call' \in [Cleaner -> Busy \cup {Idle}]
    BY <2>1, <2>2, CallType
  <2> QED BY <1>4, <2>3 DEF BeginRemove, TypeOK, TableTypes, disk, runVars
<1>5. ASSUME NEW n \in Name, RemoveTree(c, n)
      PROVE  TableTypes'
  <2>1. call[c] \in Busy
    BY <1>5, IdleType DEF RemoveTree, TypeOK
  <2>2. [call[c] EXCEPT !.trees = @ \ {n}] \in Busy
    BY <2>1 DEF Busy
  <2>3. Remove(n, call[c].flags.force) =>
          /\ tree' \in [Name -> {"none", "clean", "dirty"}]
          /\ branch' = branch /\ remote' = remote
    BY DEF Remove, TypeOK
  <2>4. Remove(n, call[c].flags.force) \in BOOLEAN
    BY DEF Remove
  <2> QED BY <1>5, <2>2, <2>3, <2>4, RemovalType
          DEF RemoveTree, TypeOK, TableTypes, runVars
<1>6. ASSUME NEW n \in Name, RemoveBranch(c, n)
      PROVE  TableTypes'
  <2>1. call[c] \in Busy
    BY <1>6, IdleType DEF RemoveBranch, TypeOK
  <2>2. [call[c] EXCEPT !.locals = @ \ {n}] \in Busy
    BY <2>1 DEF Busy
  <2>3. DeleteBranch(n, call[c].flags.force) =>
          /\ branch' \in [Name -> {"none", "base", "ahead", "pushed", "forked"}]
          /\ tree' = tree /\ remote' = remote
    BY DEF DeleteBranch, TypeOK
  <2>4. DeleteBranch(n, call[c].flags.force) \in BOOLEAN
    BY DEF DeleteBranch
  <2> QED BY <1>6, <2>2, <2>3, <2>4, RemovalType
          DEF RemoveBranch, TypeOK, TableTypes, runVars
<1>7. ASSUME NEW n \in Name, RemoveRemote(c, n)
      PROVE  TableTypes'
  <2>1. call[c] \in Busy
    BY <1>7, IdleType DEF RemoveRemote, TypeOK
  <2>2. [call[c] EXCEPT !.heads = @ \ {n}] \in Busy
    BY <2>1 DEF Busy
  <2>3. DeleteRemote(n) =>
          /\ remote' \subseteq Name
          /\ tree' = tree /\ branch' = branch
    BY DEF DeleteRemote, TypeOK
  <2>4. DeleteRemote(n) \in BOOLEAN
    BY DEF DeleteRemote
  <2> QED BY <1>7, <2>2, <2>3, <2>4, RemovalType
          DEF RemoveRemote, TypeOK, TableTypes, runVars
<1> QED BY <1>1, <1>2, <1>3, <1>4, <1>5, <1>6, <1>7 DEF CleanerStep
-----------------------------------------------------------------------------
LEMMA ObserveType ==
  ASSUME Observe, steady \in [Cleaner -> SUBSET Run]
  PROVE  /\ steady' \in [Cleaner -> SUBSET Run]
         /\ \A c \in Cleaner :
              /\ \A r \in steady'[c] : r \in Run /\ record'[r] = "live"
              /\ call'[c] = Idle => steady'[c] = {}
              /\ call[c] # Idle => steady'[c] \subseteq steady[c]
  BY DEF Observe

LEMMA TypeStep ==
  ASSUME TypeOK, [Next]_vars
  PROVE  TypeOK'
<1>1. CASE Next
  <2>1. TableTypes'
    <3>1. CASE Recover
      BY <3>1, MarkedType DEF Recover, TypeOK, TableTypes, disk
    <3> QED BY <1>1, <3>1, RunStepType, CleanerStepType DEF Next
  <2>2. steady' \in [Cleaner -> SUBSET Run]
    BY <1>1, ObserveType DEF Next, TypeOK
  <2> QED BY <2>1, <2>2 DEF TypeOK, TableTypes
<1>2. CASE UNCHANGED vars
  BY <1>2 DEF vars, runVars, disk, TypeOK
<1> QED BY <1>1, <1>2

LEMMA TypeInit == Init => TypeOK
<1> SUFFICES ASSUME Init PROVE TypeOK
  OBVIOUS
<1> QED BY NamesOfRuns DEF Init, TypeOK, Idle

(* The types of every variable, in every state of the program.             *)
THEOREM WorkspaceTypes == Spec => []TypeOK
  BY TypeInit, TypeStep, PTL DEF Spec
-----------------------------------------------------------------------------
(* A call that this step leaves alone still spares its steady runs.        *)
LEMMA OtherCall ==
  ASSUME WorkspaceInv, Observe, NEW c \in Cleaner, call'[c] = call[c]
  PROVE  CallInv(c)'
<1>1. CASE call[c] = Idle
  BY <1>1, ObserveType DEF WorkspaceInv, TypeOK, CallsSpare, CallInv, CallSpares, IdleIsBlank, ListsFirst, Targets
<1>2. CASE call[c] # Idle
  BY <1>2, ObserveType
     DEF WorkspaceInv, TypeOK, CallsSpare, CallInv, CallSpares, IdleIsBlank, ListsFirst, Targets
<1> QED BY <1>1, <1>2

(* A call that goes on with less to remove.                                *)
LEMMA ShorterCall ==
  ASSUME WorkspaceInv, Observe, NEW c \in Cleaner, call[c] # Idle,
         call'[c].phase # "listing",
         call'[c].trees \subseteq call[c].trees,
         call'[c].locals \subseteq call[c].locals,
         call'[c].heads \subseteq call[c].heads
  PROVE  CallInv(c)'
  BY ObserveType DEF WorkspaceInv, TypeOK, CallsSpare, CallInv, CallSpares, IdleIsBlank, ListsFirst, Targets

(* A call that is over.                                                    *)
LEMMA ClosedCall ==
  ASSUME WorkspaceInv, Observe, NEW c \in Cleaner, call'[c] = Idle
  PROVE  CallInv(c)'
<1>1. steady'[c] = {}
  BY ObserveType DEF WorkspaceInv, TypeOK
<1>2. call'[c].phase = "idle"
  BY DEF Idle
<1> QED BY <1>1, <1>2 DEF CallInv, CallSpares, IdleIsBlank, ListsFirst

LEMMA RemovalSpares ==
  ASSUME WorkspaceInv, Observe, NEW c \in Cleaner, NEW done, NEW rest \in Busy,
         OneRemoval(c, done, rest), call[c] \in Busy, rest.phase # "listing",
         rest.trees \subseteq call[c].trees,
         rest.locals \subseteq call[c].locals,
         rest.heads \subseteq call[c].heads
  PROVE  CallInv(c)'
<1>1. call'[c] = Idle \/ call'[c] = rest
  BY DEF OneRemoval, SetCall, Close, WorkspaceInv, TypeOK
<1>2. CASE call'[c] = Idle
  BY <1>2, ClosedCall
<1>3. CASE call'[c] = rest
  BY <1>3, ShorterCall, BusyIsNotIdle
<1> QED BY <1>1, <1>2, <1>3

(* Only a call that has listed what there is removes anything.             *)
LEMMA RemovingCall ==
  ASSUME WorkspaceInv, NEW c \in Cleaner, Targets(c) # {}
  PROVE  call[c] \in Busy /\ call[c].phase # "listing"
  BY IdleType DEF WorkspaceInv, TypeOK, CallsSpare, CallInv, ListsFirst, Targets

LEMMA BeginPruneSpares ==
  ASSUME WorkspaceInv, Observe, NEW c \in Cleaner, BeginPrune(c)
  PROVE  CallInv(c)'
<1>1. PICK flags \in Flags :
        call' = [call EXCEPT ![c] =
          [Idle EXCEPT !.phase = "listing", !.flags = flags,
             !.live = LiveNames(Marked)]]
  BY DEF BeginPrune, SetCall
<1>2. /\ call'[c].phase = "listing"
      /\ call'[c].live = LiveNames(Marked)
      /\ call'[c].trees = {} /\ call'[c].locals = {} /\ call'[c].heads = {}
  BY <1>1 DEF WorkspaceInv, TypeOK, Idle
<1>3. ASSUME NEW r \in steady'[c]
      PROVE  /\ record'[r] = "live"
             /\ NameOf(r) \in LiveNames(Marked)
  <2>1. r \in Run /\ record'[r] = "live"
    BY <1>3, ObserveType DEF WorkspaceInv, TypeOK
  <2>2. Marked[r] = "live"
    BY <2>1 DEF BeginPrune
  <2> QED BY <2>1, <2>2 DEF LiveNames
<1>4. call'[c] # Idle
  BY <1>2 DEF Idle
<1> QED BY <1>2, <1>3, <1>4 DEF CallInv, CallSpares, IdleIsBlank, ListsFirst, Targets

LEMMA ListTargetsSpares ==
  ASSUME WorkspaceInv, Observe, NEW c \in Cleaner, ListTargets(c)
  PROVE  CallInv(c)'
<1>1. call[c] \in Busy /\ call[c].phase = "listing"
  BY DEF ListTargets, WorkspaceInv, TypeOK, Idle
<1>2. /\ call'[c].phase = "pruning"
      /\ call'[c].trees \cap call[c].live = {}
      /\ call'[c].locals \cap call[c].live = {}
      /\ call'[c].heads \cap call[c].live = {}
  BY <1>1 DEF ListTargets, SetCall, WorkspaceInv, TypeOK, Busy
<1>3. \A r \in steady'[c] : record'[r] = "live" /\ NameOf(r) \in call[c].live
  BY <1>1, ObserveType, BusyIsNotIdle
     DEF WorkspaceInv, TypeOK, CallsSpare, CallInv, CallSpares
<1>4. call'[c] # Idle
  BY <1>2 DEF Idle
<1> QED BY <1>2, <1>3, <1>4 DEF CallInv, CallSpares, IdleIsBlank, ListsFirst, Targets

(* The run that is removed has ended, so it is none of the steady ones,    *)
(* and no other run has its name.                                          *)
LEMMA BeginRemoveSpares ==
  ASSUME WorkspaceInv, Observe, NEW c \in Cleaner, NEW s \in Run,
         BeginRemove(c, s)
  PROVE  CallInv(c)'
<1>1. PICK flags \in Flags :
        call' = [call EXCEPT ![c] =
          [Idle EXCEPT !.phase = "removing", !.flags = flags,
             !.trees = {NameOf(s)},
             !.locals = {n \in {NameOf(s)} : flags.branches}]]
  BY DEF BeginRemove, SetCall
<1>2. /\ call'[c].phase = "removing"
      /\ call'[c].trees \subseteq {NameOf(s)}
      /\ call'[c].locals \subseteq {NameOf(s)}
      /\ call'[c].heads = {}
  BY <1>1 DEF WorkspaceInv, TypeOK, Idle
<1>3. ASSUME NEW r \in steady'[c]
      PROVE  record'[r] = "live" /\ NameOf(r) # NameOf(s)
  <2>1. r \in Run /\ record'[r] = "live"
    BY <1>3, ObserveType DEF WorkspaceInv, TypeOK
  <2>2. r # s
    BY <2>1 DEF BeginRemove, runVars
  <2> QED BY <2>1, <2>2, NamesTellApart
<1>4. call'[c] # Idle
  BY <1>2 DEF Idle
<1> QED BY <1>2, <1>3, <1>4 DEF CallInv, CallSpares, IdleIsBlank, ListsFirst, Targets

LEMMA EndCallSpares ==
  ASSUME WorkspaceInv, Observe, NEW c \in Cleaner, EndCall(c)
  PROVE  CallInv(c)'
<1>1. call'[c] = Idle
  BY DEF EndCall, Close, SetCall, WorkspaceInv, TypeOK
<1> QED BY <1>1, ClosedCall

LEMMA RemoveTreeSpares ==
  ASSUME WorkspaceInv, Observe, NEW c \in Cleaner, NEW n \in Name, RemoveTree(c, n)
  PROVE  CallInv(c)'
<1> DEFINE rest == [call[c] EXCEPT !.trees = @ \ {n}]
<1>1. call[c] \in Busy /\ call[c].phase # "listing"
  BY RemovingCall DEF RemoveTree, Targets
<1>2. rest \in Busy /\ rest.phase # "listing"
  BY <1>1 DEF Busy
<1>3. /\ rest.trees \subseteq call[c].trees
      /\ rest.locals \subseteq call[c].locals
      /\ rest.heads \subseteq call[c].heads
  BY <1>1 DEF Busy
<1> QED BY <1>1, <1>2, <1>3, RemovalSpares DEF RemoveTree

LEMMA RemoveBranchSpares ==
  ASSUME WorkspaceInv, Observe, NEW c \in Cleaner, NEW n \in Name, RemoveBranch(c, n)
  PROVE  CallInv(c)'
<1> DEFINE rest == [call[c] EXCEPT !.locals = @ \ {n}]
<1>1. call[c] \in Busy /\ call[c].phase # "listing"
  BY RemovingCall DEF RemoveBranch, Targets
<1>2. rest \in Busy /\ rest.phase # "listing"
  BY <1>1 DEF Busy
<1>3. /\ rest.trees \subseteq call[c].trees
      /\ rest.locals \subseteq call[c].locals
      /\ rest.heads \subseteq call[c].heads
  BY <1>1 DEF Busy
<1> QED BY <1>1, <1>2, <1>3, RemovalSpares DEF RemoveBranch

LEMMA RemoveRemoteSpares ==
  ASSUME WorkspaceInv, Observe, NEW c \in Cleaner, NEW n \in Name, RemoveRemote(c, n)
  PROVE  CallInv(c)'
<1> DEFINE rest == [call[c] EXCEPT !.heads = @ \ {n}]
<1>1. call[c] \in Busy /\ call[c].phase # "listing"
  BY RemovingCall DEF RemoveRemote, Targets
<1>2. rest \in Busy /\ rest.phase # "listing"
  BY <1>1 DEF Busy
<1>3. /\ rest.trees \subseteq call[c].trees
      /\ rest.locals \subseteq call[c].locals
      /\ rest.heads \subseteq call[c].heads
  BY <1>1 DEF Busy
<1> QED BY <1>1, <1>2, <1>3, RemovalSpares DEF RemoveRemote

LEMMA CleanerStepSpares ==
  ASSUME WorkspaceInv, Observe, NEW c \in Cleaner, CleanerStep(c)
  PROVE  CallInv(c)'
  BY BeginPruneSpares, ListTargetsSpares, BeginRemoveSpares, EndCallSpares,
     RemoveTreeSpares, RemoveBranchSpares, RemoveRemoteSpares DEF CleanerStep

(* A step of one cleaner, or of a run, is no step of another cleaner.      *)
LEMMA OnlyItsCall ==
  ASSUME TypeOK, NEW c \in Cleaner, CleanerStep(c), NEW d \in Cleaner, d # c
  PROVE  call'[d] = call[d]
  BY DEF TypeOK, CleanerStep, BeginPrune, ListTargets, BeginRemove, EndCall,
         RemoveTree, RemoveBranch, RemoveRemote, OneRemoval, Close, SetCall

LEMMA RunKeepsCalls ==
  ASSUME NEW r \in Run, RunStep(r)
  PROVE  UNCHANGED call
  BY DEF RunStep, Acquire, Ensure, EnsureFails, Work, CommitFiles, PushBranch,
         LeaveNode, Finish, Crash, Expire, Forget

LEMMA InvInit == Init => WorkspaceInv
<1> SUFFICES ASSUME Init PROVE WorkspaceInv
  OBVIOUS
<1>1. \A c \in Cleaner : call[c] = Idle /\ steady[c] = {}
  BY DEF Init
<1> QED BY <1>1, TypeInit
        DEF WorkspaceInv, CallsSpare, CallInv, CallSpares, IdleIsBlank, ListsFirst, Targets, Idle

LEMMA InvStep ==
  ASSUME WorkspaceInv, [Next]_vars
  PROVE  WorkspaceInv'
<1>1. TypeOK'
  BY TypeStep DEF WorkspaceInv
<1>2. ASSUME Next, NEW d \in Cleaner
      PROVE  CallInv(d)'
  <2>1. Observe
    BY <1>2 DEF Next
  <2>2. CASE call'[d] = call[d]
    BY <2>1, <2>2, OtherCall
  <2>3. CASE call'[d] # call[d]
    <3>1. PICK c \in Cleaner : CleanerStep(c)
      BY <1>2, <2>3, RunKeepsCalls DEF Next, Recover
    <3>2. c = d
      BY <2>3, <3>1, OnlyItsCall DEF WorkspaceInv
    <3> QED BY <2>1, <3>1, <3>2, CleanerStepSpares
  <2> QED BY <2>2, <2>3
<1>3. CASE UNCHANGED vars
  BY <1>3 DEF vars, runVars, disk, WorkspaceInv, TypeOK, CallsSpare, CallInv,
              CallSpares, IdleIsBlank, ListsFirst, Targets
<1> QED BY <1>1, <1>2, <1>3 DEF WorkspaceInv, CallsSpare

(* What commands have read and not yet used spares the runs that have been *)
(* live since they read it.                                                *)
THEOREM WorkspaceInvariant == Spec => []WorkspaceInv
  BY InvInit, InvStep, PTL DEF Spec
-----------------------------------------------------------------------------
Spares(c, r) ==
  LET n == NameOf(r) IN
  /\ tree[n] # "none" => tree'[n] # "none"
  /\ branch[n] # "none" => branch'[n] # "none"
  /\ n \in remote => n \in remote'

LEMMA CleanerSpares ==
  ASSUME WorkspaceInv, NEW c \in Cleaner, CleanerStep(c), NEW r \in steady[c]
  PROVE  Spares(c, r)
<1>1. NameOf(r) \notin Targets(c)
  BY DEF WorkspaceInv, CallsSpare, CallInv, CallSpares, Targets
<1>2. CASE UNCHANGED disk
  BY <1>2 DEF disk, Spares
<1>3. NameOf(r) \in Name
  BY NamesOfRuns DEF WorkspaceInv, TypeOK
<1>4. ASSUME NEW n \in Name, n # NameOf(r), NEW force,
             Remove(n, force) \/ DeleteBranch(n, force) \/ DeleteRemote(n)
      PROVE  Spares(c, r)
  <2>1. CASE Remove(n, force)
    BY <1>3, <1>4, <2>1 DEF Remove, Spares, WorkspaceInv, TypeOK
  <2>2. CASE DeleteBranch(n, force)
    BY <1>3, <1>4, <2>2 DEF DeleteBranch, Spares, WorkspaceInv, TypeOK
  <2>3. CASE DeleteRemote(n)
    BY <1>4, <2>3 DEF DeleteRemote, Spares
  <2> QED BY <1>4, <2>1, <2>2, <2>3
<1>5. ASSUME NEW n \in Name, RemoveTree(c, n) \/ RemoveBranch(c, n) \/ RemoveRemote(c, n)
      PROVE  Spares(c, r)
  <2>1. n # NameOf(r)
    BY <1>1, <1>5 DEF RemoveTree, RemoveBranch, RemoveRemote, Targets
  <2>2. \/ UNCHANGED disk
        \/ \E force : Remove(n, force) \/ DeleteBranch(n, force) \/ DeleteRemote(n)
    BY <1>5 DEF RemoveTree, RemoveBranch, RemoveRemote, OneRemoval
  <2> QED BY <1>2, <1>4, <2>1, <2>2
<1> QED BY <1>2, <1>5 DEF CleanerStep, BeginPrune, ListTargets, BeginRemove, EndCall

(* `runs remove` and `runs prune` take nothing from a run that has been    *)
(* live since the command began.                                           *)
THEOREM SteadyRunIsSpared == Spec => SteadyRunKeepsWork
<1> DEFINE Kept ==
      \A c \in Cleaner : Acts(c) => \A r \in steady[c] : Spares(c, r)
<1>1. WorkspaceInv /\ [Next]_vars => [Kept]_vars
  <2> SUFFICES ASSUME WorkspaceInv, Next, NEW c \in Cleaner, Acts(c),
                      NEW r \in steady[c]
               PROVE  Spares(c, r)
    OBVIOUS
  <2>1. PICK d \in Cleaner : CleanerStep(d)
    BY RunKeepsCalls DEF Next, Recover, Acts
  <2>2. d = c
    BY <2>1, OnlyItsCall DEF Acts, WorkspaceInv
  <2> QED BY <2>1, <2>2, CleanerSpares
<1>2. [Kept]_vars <=>
        [\A c \in Cleaner : Acts(c) => \A r \in steady[c] : LET n == NameOf(r) IN
           /\ tree[n] # "none" => tree'[n] # "none"
           /\ branch[n] # "none" => branch'[n] # "none"
           /\ n \in remote => n \in remote']_vars
  BY DEF Spares
<1> QED BY <1>1, <1>2, WorkspaceInvariant, PTL DEF Spec, SteadyRunKeepsWork
-----------------------------------------------------------------------------
LocalWorkKept ==
  \A n \in Name :
    /\ tree[n] = "dirty" => tree'[n] = "dirty"
    /\ branch[n] \in {"ahead", "forked"} => branch'[n] # "none"

LEMMA UnforcedKeeps ==
  ASSUME TypeOK, NEW c \in Cleaner, CleanerStep(c), ~call[c].flags.force
  PROVE  LocalWorkKept
<1>1. CASE UNCHANGED disk
  BY <1>1 DEF disk, LocalWorkKept
<1>2. ASSUME NEW n \in Name, NEW force, ~force,
             Remove(n, force) \/ DeleteBranch(n, force) \/ DeleteRemote(n)
      PROVE  LocalWorkKept
  <2>1. CASE Remove(n, force)
    BY <1>2, <2>1 DEF Remove, Removable, LocalWorkKept, TypeOK
  <2>2. CASE DeleteBranch(n, force)
    BY <1>2, <2>2 DEF DeleteBranch, Deletable, LocalWorkKept, TypeOK
  <2>3. CASE DeleteRemote(n)
    BY <2>3 DEF DeleteRemote, LocalWorkKept
  <2> QED BY <1>2, <2>1, <2>2, <2>3
<1>3. ASSUME NEW n \in Name, RemoveTree(c, n) \/ RemoveBranch(c, n) \/ RemoveRemote(c, n)
      PROVE  LocalWorkKept
  <2>1. \/ UNCHANGED disk
        \/ \E force : ~force /\ (Remove(n, force) \/ DeleteBranch(n, force) \/ DeleteRemote(n))
    BY <1>3 DEF RemoveTree, RemoveBranch, RemoveRemote, OneRemoval
  <2> QED BY <1>1, <1>2, <2>1
<1> QED BY <1>1, <1>3 DEF CleanerStep, BeginPrune, ListTargets, BeginRemove, EndCall

(* Without --force, no command takes uncommitted files or commits that     *)
(* were not pushed, of any run and for any number of commands at once.     *)
THEOREM UnforcedCommandsKeepWork == Spec => UnforcedKeepsLocalWork
<1> DEFINE Kept == \A c \in Cleaner : Acts(c) /\ ~call[c].flags.force => LocalWorkKept
<1>1. TypeOK /\ [Next]_vars => [Kept]_vars
  <2> SUFFICES ASSUME TypeOK, Next, NEW c \in Cleaner, Acts(c), ~call[c].flags.force
               PROVE  LocalWorkKept
    OBVIOUS
  <2>1. PICK d \in Cleaner : CleanerStep(d)
    BY RunKeepsCalls DEF Next, Recover, Acts
  <2>2. d = c
    BY <2>1, OnlyItsCall DEF Acts
  <2> QED BY <2>1, <2>2, UnforcedKeeps
<1>2. [Kept]_vars <=>
        [\A c \in Cleaner : Acts(c) /\ ~call[c].flags.force => \A n \in Name :
           /\ tree[n] = "dirty" => tree'[n] = "dirty"
           /\ branch[n] \in {"ahead", "forked"} => branch'[n] # "none"]_vars
  BY DEF LocalWorkKept
<1> QED BY <1>1, <1>2, WorkspaceTypes, PTL DEF Spec, UnforcedKeepsLocalWork
=============================================================================

--------------------------- MODULE ItemCommitProofs ---------------------------
(***************************************************************************)
(* Proofs about ItemCommit, for any files, guarded files and contents.     *)
(*                                                                         *)
(* NothingRiskyIsCommitted speaks of one step, the commit; what makes it   *)
(* true is what the gate saw, several steps and perhaps several processes  *)
(* before.  GateInv carries it from there: between the gate and the next   *)
(* item, a risky change is in a file the adapter leaves alone or in one    *)
(* the gate's pass says nothing about.                                     *)
(***************************************************************************)
EXTENDS ItemCommit, TLAPS

AfterGate == {"approval", "commit_item", "commit", "item_router"}

RiskIsKnown ==
  pc \in AfterGate => \A f \in Changed : Risky(f) => f \in baseline \cup unseen

ListedIsFresh ==
  pc = "commit" => listed \subseteq Changed \cup unseen /\ listed \cap baseline = {}

NothingIsMissed ==
  pc = "commit" => Changed \subseteq listed \cup baseline \cup Hidden \cup unseen

GateInv == TypeOK /\ RiskIsKnown /\ ListedIsFresh /\ NothingIsMissed

(* The worktree and the index after somebody has written a file.           *)
LEMMA WriteStep ==
  ASSUME TypeOK, ItemCommitConstantsOK,
         NEW f \in File, NEW c \in Content, Write(f, c), UNCHANGED <<head, renames>>
  PROVE  /\ tree' \in [File -> Content]
         /\ \A r \in renames' : head'[r[2]] = Absent /\ tree'[r[2]] # Absent
         /\ \A g \in File \ {f} : tree'[g] = tree[g]
<1>1. tree' = [tree EXCEPT ![f] = c] /\ tree \in [File -> Content]
  BY DEF Write, TypeOK
<1>2. tree' \in [File -> Content] /\ \A g \in File \ {f} : tree'[g] = tree[g]
  BY <1>1
<1>3. ASSUME NEW r \in renames PROVE head[r[2]] = Absent /\ tree'[r[2]] # Absent
  <2>1. r \in File \X File /\ head[r[2]] = Absent /\ tree[r[2]] # Absent
    BY DEF TypeOK
  <2>2. r[2] \in File
    BY <2>1
  <2>3. CASE r[2] = f
    BY <1>1, <2>1, <2>2, <2>3 DEF Write
  <2>4. CASE r[2] # f
    BY <1>1, <2>1, <2>2, <2>4
  <2> QED BY <2>3, <2>4, <2>1
<1> QED BY <1>2, <1>3

LEMMA TypeInit == ASSUME ItemCommitConstantsOK, Init PROVE TypeOK
  BY DEF Init, TypeOK, ItemCommitConstantsOK

LEMMA TypeStep ==
  ASSUME ItemCommitConstantsOK, TypeOK, [Next]_vars PROVE TypeOK'
<1>1. CASE BuilderWrites
  <2>1. ASSUME NEW f \in File, NEW c \in Content, Write(f, c), UNCHANGED renames,
               UNCHANGED <<pc, head, baseline, listed, orphan, unseen>>
        PROVE  TypeOK'
    BY <2>1, WriteStep DEF TypeOK
  <2>2. ASSUME NEW f \in File, NEW g \in File, Move(f, g),
               UNCHANGED <<pc, head, baseline, listed, orphan, unseen>>
        PROVE  TypeOK'
    <3>1. tree' = [tree EXCEPT ![f] = Absent, ![g] = tree[f]]
          /\ renames' = renames \cup {<<f, g>>} /\ f # g
          /\ head[g] = Absent /\ tree[f] # Absent /\ head[f] # Absent
      BY <2>2 DEF Move
    <3>2. tree' \in [File -> Content]
      BY <3>1 DEF TypeOK, ItemCommitConstantsOK
    <3>3. ASSUME NEW r \in renames'
          PROVE  r \in File \X File /\ head'[r[2]] = Absent /\ tree'[r[2]] # Absent
      <4>1. CASE r = <<f, g>>
        BY <4>1, <3>1, <2>2 DEF TypeOK
      <4>2. CASE r \in renames
        <5>1. r \in File \X File /\ head[r[2]] = Absent /\ tree[r[2]] # Absent
          BY <4>2 DEF TypeOK
        <5>2. r[2] \in File /\ r[2] # f
          BY <5>1, <3>1
        <5>3. tree'[r[2]] # Absent
          BY <3>1, <5>1, <5>2 DEF TypeOK
        <5> QED BY <5>1, <5>3, <2>2
      <4> QED BY <4>1, <4>2, <3>1
    <3>4. renames' \subseteq File \X File
      BY <3>3
    <3> QED BY <3>2, <3>3, <3>4, <2>2 DEF TypeOK
  <2> QED BY <1>1, <2>1, <2>2 DEF BuilderWrites
<1>2. CASE Validate
  BY <1>2 DEF TypeOK, Validate, repository
<1>3. CASE GatePasses
  BY <1>3 DEF TypeOK, GatePasses, repository, Hidden
<1>4. CASE GateFails
  BY <1>4 DEF TypeOK, GateFails, repository
<1>5. CASE Approve
  BY <1>5 DEF TypeOK, Approve, TakeBaseline, repository
<1>6. CASE Deny
  BY <1>6 DEF TypeOK, Deny, repository
<1>7. CASE ListFiles
  BY <1>7 DEF TypeOK, ListFiles, CandidateFiles, StatusFiles, Changed, repository
<1>8. CASE NoChanges
  BY <1>8 DEF TypeOK, NoChanges, repository
<1>9. CASE CommitFiles
  <2>1. head' \in [File -> Content]
    BY <1>9 DEF CommitFiles, TypeOK
  <2>2. ASSUME NEW r \in renames'
        PROVE  head'[r[2]] = Absent /\ tree'[r[2]] # Absent
    <3>1. r \in renames /\ r[2] \notin listed /\ r \in File \X File
      BY <1>9 DEF CommitFiles, TypeOK
    <3> QED BY <3>1, <1>9 DEF CommitFiles, TypeOK
  <2> QED BY <1>9, <2>1, <2>2 DEF CommitFiles, TypeOK
<1>10. CASE CommitFails
  BY <1>10 DEF TypeOK, CommitFails, repository
<1>11. CASE ItemRouter
  BY <1>11 DEF TypeOK, ItemRouter, repository
<1>12. CASE Restart
  BY <1>12 DEF TypeOK, Restart, TakeBaseline, repository
<1>13. CASE OthersWrite
  BY <1>13, WriteStep DEF TypeOK, OthersWrite
<1>14. CASE OrphanEnds
  BY <1>14 DEF TypeOK, OrphanEnds, repository
<1>15. CASE UNCHANGED vars
  BY <1>15 DEF TypeOK, vars, repository
<1> QED
  BY <1>1, <1>2, <1>3, <1>4, <1>5, <1>6, <1>7, <1>8, <1>9, <1>10, <1>11, <1>12,
     <1>13, <1>14, <1>15 DEF Next

(* The types of a run's commit, for any files and contents.                *)
THEOREM CommitTypes == Spec => []TypeOK
<1>1. Init => TypeOK
  BY TypeInit, ItemCommitConstantsOK
<1>2. TypeOK /\ [Next]_vars => TypeOK'
  BY TypeStep, ItemCommitConstantsOK
<1> QED BY <1>1, <1>2, PTL DEF Spec

(* A new baseline forgets no file that the gate left out.                  *)
LEMMA BaselineStep ==
  ASSUME TakeBaseline \/ UNCHANGED <<baseline, unseen>>
  PROVE  baseline \cup unseen \subseteq baseline' \cup unseen'
  BY DEF TakeBaseline

LEMMA RiskStep ==
  ASSUME ItemCommitConstantsOK, TypeOK, RiskIsKnown, ListedIsFresh, [Next]_vars
  PROVE  RiskIsKnown'
<1> USE DEF RiskIsKnown, AfterGate
<1>1. CASE BuilderWrites
  BY <1>1 DEF BuilderWrites
<1>2. CASE Validate
  BY <1>2 DEF Validate
<1>3. CASE GatePasses
  <2>1. Changed' = Changed /\ baseline' = baseline
        /\ \A f \in File : Risky(f)' <=> Risky(f)
    BY <1>3 DEF GatePasses, repository, Changed, Risky
  <2>2. ASSUME NEW f \in Changed, Risky(f) PROVE f \in baseline \cup unseen'
    <3>1. f \in File
      BY DEF Changed
    <3>2. CASE unseen' = Hidden /\ \A g \in CandidateFiles : ~Risky(g)
      BY <3>2, <2>2 DEF CandidateFiles, StatusFiles
    <3> QED BY <3>1, <3>2, <1>3 DEF GatePasses
  <2>3. Changed \subseteq File
    BY DEF Changed
  <2> QED BY <2>1, <2>2, <2>3
<1>4. CASE GateFails
  BY <1>4 DEF GateFails
<1>5. CASE Approve
  <2>1. pc \in AfterGate /\ tree' = tree /\ head' = head
        /\ baseline \cup unseen \subseteq baseline' \cup unseen'
    BY <1>5, BaselineStep DEF Approve, repository
  <2> QED BY <2>1 DEF Changed, Risky
<1>6. CASE Deny
  BY <1>6 DEF Deny
<1>7. CASE ListFiles
  BY <1>7 DEF ListFiles, repository, Changed, Risky
<1>8. CASE NoChanges
  BY <1>8 DEF NoChanges, repository, Changed, Risky
<1>9. CASE CommitFiles
  <2>1. pc = "commit" /\ tree' = tree /\ UNCHANGED <<baseline, unseen>>
        /\ head' = [f \in File |-> IF f \in listed THEN tree[f] ELSE head[f]]
    BY <1>9 DEF CommitFiles
  <2>2. ASSUME NEW f \in Changed', Risky(f)' PROVE f \in baseline' \cup unseen'
    <3>1. f \in File /\ tree'[f] # head'[f]
      BY DEF Changed
    <3>2. f \in Changed /\ Risky(f)
      BY <2>1, <2>2, <3>1 DEF Changed, Risky
    <3> QED BY <2>1, <3>2
  <2> QED BY <2>2
<1>10. CASE CommitFails
  BY <1>10 DEF CommitFails
<1>11. CASE ItemRouter
  BY <1>11 DEF ItemRouter
<1>12. CASE Restart
  <2>1. tree' = tree /\ head' = head
        /\ baseline \cup unseen \subseteq baseline' \cup unseen'
    BY <1>12, BaselineStep DEF Restart, repository
  <2>2. pc' \in AfterGate => pc \in AfterGate
    BY <1>12 DEF Restart
  <2> QED BY <2>1, <2>2 DEF Changed, Risky
<1>13. CASE OthersWrite
  <2>1. PICK f \in File, c \in Content : Write(f, c) /\ unseen' = unseen \cup {f}
    BY <1>13 DEF OthersWrite
  <2>2. UNCHANGED <<pc, head, renames, baseline>>
    BY <1>13 DEF OthersWrite
  <2>3. \A g \in File \ {f} : tree'[g] = tree[g]
    BY <2>1, <2>2, WriteStep
  <2>4. \A g \in Changed' \ {f} : g \in Changed /\ (Risky(g)' => Risky(g))
    BY <2>2, <2>3 DEF Changed, Risky
  <2> QED BY <2>1, <2>2, <2>4
<1>14. CASE OrphanEnds
  BY <1>14 DEF OrphanEnds, repository, Changed, Risky
<1>15. CASE UNCHANGED vars
  BY <1>15 DEF vars, repository, Changed, Risky
<1> QED
  BY <1>1, <1>2, <1>3, <1>4, <1>5, <1>6, <1>7, <1>8, <1>9, <1>10, <1>11, <1>12,
     <1>13, <1>14, <1>15 DEF Next

(* While files are listed, whoever writes one leaves it in unseen.         *)
LEMMA ListedStep ==
  ASSUME ItemCommitConstantsOK, TypeOK, ListedIsFresh, NothingIsMissed, [Next]_vars
  PROVE  ListedIsFresh' /\ NothingIsMissed'
<1> USE DEF ListedIsFresh, NothingIsMissed
<1>1. CASE ListFiles
  <2>1. UNCHANGED <<tree, head, renames, baseline, unseen>> /\ listed' = CandidateFiles
    BY <1>1 DEF ListFiles, repository
  <2> QED BY <2>1 DEF CandidateFiles, StatusFiles, Hidden, Changed
<1>2. CASE OthersWrite
  <2>1. PICK f \in File, c \in Content : Write(f, c) /\ unseen' = unseen \cup {f}
    BY <1>2 DEF OthersWrite
  <2>2. UNCHANGED <<pc, head, renames, baseline, listed>>
    BY <1>2 DEF OthersWrite
  <2>3. /\ \A g \in File \ {f} : tree'[g] = tree[g]
        /\ \A r \in renames : head[r[2]] = Absent /\ tree'[r[2]] # Absent
    BY <2>1, <2>2, WriteStep
  <2>4. \A g \in File \ {f} : g \in Changed' <=> g \in Changed
    BY <2>2, <2>3 DEF Changed
  <2>5. \A g \in Hidden \ {f} : g \in Hidden'
    <3>1. ASSUME NEW g \in Hidden, g # f PROVE g \in Hidden'
      <4>1. PICK h \in Changed : <<g, h>> \in renames
        BY <3>1 DEF Hidden
      <4>2. h \in Changed'
        BY <4>1, <2>2, <2>3 DEF Changed
      <4>3. g \in File /\ tree'[g] = Absent
        BY <3>1, <2>3 DEF Hidden
      <4> QED BY <4>1, <4>2, <4>3, <2>2 DEF Hidden
    <3> QED BY <3>1
  <2> QED BY <2>1, <2>2, <2>4, <2>5 DEF Changed
<1>3. CASE UNCHANGED vars \/ OrphanEnds
  BY <1>3 DEF vars, OrphanEnds, repository, Changed, Hidden
<1>4. CASE Restart
  BY <1>4 DEF Restart
<1>5. CASE BuilderWrites \/ Validate \/ GatePasses \/ GateFails \/ Approve \/ Deny
  BY <1>5 DEF BuilderWrites, Validate, GatePasses, GateFails, Approve, Deny
<1>6. CASE NoChanges \/ CommitFiles \/ CommitFails \/ ItemRouter
  BY <1>6 DEF NoChanges, CommitFiles, CommitFails, ItemRouter
<1> QED BY <1>1, <1>2, <1>3, <1>4, <1>5, <1>6 DEF Next

(* The inductive invariant: a risky change that passed the gate is in a    *)
(* file the adapter leaves alone or one the gate's pass does not cover.    *)
THEOREM GateInvariant == Spec => []GateInv
<1>1. Init => GateInv
  <2> SUFFICES ASSUME Init PROVE GateInv
    OBVIOUS
  <2>1. TypeOK
    BY TypeInit, ItemCommitConstantsOK
  <2> QED BY <2>1 DEF Init, GateInv, RiskIsKnown, ListedIsFresh, NothingIsMissed, AfterGate
<1>2. GateInv /\ [Next]_vars => GateInv'
  BY TypeStep, RiskStep, ListedStep, ItemCommitConstantsOK DEF GateInv
<1> QED BY <1>1, <1>2, PTL DEF Spec

(* No commit takes a risky file the gate could have seen, for any files.   *)
THEOREM RiskStaysOut == Spec => NothingRiskyIsCommitted
<1>1. ASSUME GateInv, [Next]_vars, NEW f \in File, head'[f] # head[f]
      PROVE  ~Risky(f) \/ f \in unseen
  <2>1. CASE CommitFiles
    <3>1. pc = "commit" /\ head' = [g \in File |-> IF g \in listed THEN tree[g] ELSE head[g]]
      BY <2>1 DEF CommitFiles
    <3>2. f \in listed /\ f \in Changed
      BY <3>1, <1>1 DEF Changed
    <3> QED BY <3>1, <3>2, <1>1 DEF GateInv, ListedIsFresh, RiskIsKnown, AfterGate
  <2>2. CASE ~CommitFiles
    <3>1. head' = head
      BY <2>2, <1>1 DEF Next, BuilderWrites, Validate, GatePasses, GateFails, Approve,
         Deny, ListFiles, NoChanges, CommitFails, ItemRouter, Restart, OthersWrite,
         OrphanEnds, repository, vars
    <3> QED BY <3>1, <1>1
  <2> QED BY <2>1, <2>2
<1>2. GateInv /\ [Next]_vars
      => [\A f \in File : head'[f] # head[f] => ~Risky(f) \/ f \in unseen]_vars
  BY <1>1
<1> QED BY <1>2, GateInvariant, PTL DEF Spec, NothingRiskyIsCommitted

(* A commit takes the whole item, for any files.                           *)
THEOREM ItemIsWhole == Spec => WholeItemIsCommitted
<1>1. ASSUME GateInv, [Next]_vars, pc = "commit", pc' = "item_router", NEW f \in File
      PROVE  tree[f] = head'[f] \/ f \in baseline \cup Hidden \cup unseen
  <2>1. CommitFiles
    BY <1>1 DEF Next, BuilderWrites, Validate, GatePasses, GateFails, Approve,
       Deny, ListFiles, NoChanges, CommitFails, ItemRouter, Restart, OthersWrite,
       OrphanEnds, vars
  <2>2. head'[f] = IF f \in listed THEN tree[f] ELSE head[f]
    BY <2>1 DEF CommitFiles
  <2>3. f \in Changed => f \in listed \cup baseline \cup Hidden \cup unseen
    BY <1>1 DEF GateInv, NothingIsMissed
  <2> QED BY <2>2, <2>3 DEF Changed
<1>2. GateInv /\ [Next]_vars
      => [pc = "commit" /\ pc' = "item_router" =>
           \A f \in File :
             tree[f] = head'[f] \/ f \in baseline \cup Hidden \cup unseen]_vars
  BY <1>1
<1> QED BY <1>2, GateInvariant, PTL DEF Spec, WholeItemIsCommitted
=============================================================================

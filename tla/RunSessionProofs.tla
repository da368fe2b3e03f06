-------------------------- MODULE RunSessionProofs --------------------------
(***************************************************************************)
(* Proofs about sessions, for any number of processes and runs.  Sessions  *)
(* use the leases only as RunLifecycle describes, so what is proved of the *)
(* leases holds of them; no answer of the operator is used for another     *)
(* node's side effect; a run that was cancelled stays stopped; no question *)
(* is lost by a process that may write; and a commit that was lost is      *)
(* reviewed before anything is done with it.                               *)
(***************************************************************************)
EXTENDS RunSession, RunLifecycleProofs

(* The sessions by themselves. *)
SessionsOK ==
  /\ session = [o \in Owner |-> session[o]]
  /\ \A o \in Owner : InSession(o) => session[o] \in Session

LEMMA AfterType ==
  ASSUME NEW node \in Node, NEW status \in SessionStatus
  PROVE  After(node, status) \in Node
  BY DEF After, Node, Ending, SessionStatus

LEMMA FollowingType ==
  ASSUME NEW checkpoint \in Checkpoint, NEW status \in SessionStatus
  PROVE  /\ Following(checkpoint, status) \in Checkpoint
         /\ Following(checkpoint, status).given = <<>>
         /\ Following(checkpoint, status).spare = <<>>
  <1>1. After(checkpoint.next, status) \in Node
    BY AfterType DEF Checkpoint
  <1>2. <<>> \in Seq(Answer)
    OBVIOUS
  <1>3. QED
    BY <1>1, <1>2 DEF Following, Checkpoint

LEMMA FieldsOfSession ==
  ASSUME NEW s \in Session
  PROVE  /\ s.run \in Run
         /\ s.loaded \in Checkpoint
         /\ s.count \in 0..MaxRecoveries
         /\ s.recovered \in BOOLEAN
         /\ s.update \in Seq(Put)
         /\ s.late \in Seq(LatePut)
  BY DEF Session

(* A change of one session to a session, or its end, keeps the type. *)
LEMMA OneSession ==
  ASSUME SessionsOK, NEW o \in Owner, NEW s \in Session,
         session' = [session EXCEPT ![o] = s]
  PROVE  SessionsOK'
  BY DEF SessionsOK, InSession

LEMMA EndOfSession ==
  ASSUME SessionsOK, NEW o \in Owner,
         session' = [session EXCEPT ![o] = NoSession]
  PROVE  SessionsOK'
  BY DEF SessionsOK, InSession

LEMMA ContinueType ==
  ASSUME SessionsOK, NEW o \in Owner, InSession(o),
         NEW checkpoint \in Checkpoint, NEW late \in Seq(LatePut),
         Continue(o, checkpoint, late)
  PROVE  SessionsOK'
  <1>1. CASE checkpoint.next = "end"
    BY <1>1, EndOfSession DEF Continue
  <1>2. CASE checkpoint.next # "end"
    <2> DEFINE s == [session[o] EXCEPT !.loaded = checkpoint, !.recovered = FALSE,
                                       !.update = <<>>, !.late = late]
    <2>1. session[o] \in Session
      BY DEF SessionsOK
    <2>2. s \in Session
      <3>1. <<>> \in Seq(Put)
        OBVIOUS
      <3>2. QED
        BY <2>1, <3>1, FieldsOfSession DEF Session
    <2>3. session' = [session EXCEPT ![o] = s]
      BY <1>2 DEF Continue, SessionsOK
    <2> HIDE DEF s
    <2>4. QED
      BY <2>2, <2>3, OneSession
  <1>3. QED
    BY <1>1, <1>2

(* A put makes a checkpoint of the process the latest. *)
LEMMA StoreType ==
  ASSUME SessionTypeOK, NEW o \in Owner, NEW r \in Run, NEW checkpoint \in Checkpoint,
         Store(o, r, checkpoint)
  PROVE  /\ head' \in [Run -> Checkpoint]
         /\ latest' \in [Run -> SUBSET Owner]
  BY DEF SessionTypeOK, Store

LEMMA UpdatedType ==
  ASSUME NEW s \in Session, NEW put \in Put
  PROVE  [s EXCEPT !.update = <<put>>] \in Session
  <1>1. <<put>> \in Seq(Put)
    OBVIOUS
  <1>2. QED
    BY <1>1, FieldsOfSession DEF Session

(* A node that returns leaves an update in its session. *)
Updated(o) ==
  \E put \in Put :
    /\ put.checkpoint.given = <<>> /\ put.checkpoint.spare = <<>>
    /\ session' = [session EXCEPT ![o].update = <<put>>]

LEMMA ReturnsType ==
  ASSUME SessionsOK, NEW o \in Owner, InSession(o), NEW status \in SessionStatus,
         NEW committed \in BOOLEAN, Returns(o, status, committed)
  PROVE  SessionsOK' /\ Updated(o)
  <1> DEFINE s == session[o]
             kept == [s.loaded EXCEPT !.committed = committed,
                        !.reconciled = IF Reconciles(s) THEN s.count ELSE @]
             put == [checkpoint |-> Following(kept, status), status |-> status]
             t == [s EXCEPT !.update = <<put>>]
  <1>1. s \in Session
    BY DEF SessionsOK
  <1>2. kept \in Checkpoint
    BY <1>1, FieldsOfSession DEF Checkpoint
  <1>3. put \in Put /\ put.checkpoint.given = <<>> /\ put.checkpoint.spare = <<>>
    BY <1>2, FollowingType DEF Put
  <1>4. session' = [session EXCEPT ![o].update = <<put>>]
    BY DEF Returns
  <1> HIDE DEF put
  <1>5. t \in Session
    BY <1>1, <1>3, UpdatedType
  <1>6. session' = [session EXCEPT ![o] = t]
    BY <1>4 DEF SessionsOK
  <1> HIDE DEF t
  <1>7. QED
    BY <1>3, <1>4, <1>5, <1>6, OneSession DEF Updated

(* What is remembered keeps its type. *)
LEMMA HistoryType ==
  ASSUME SessionTypeOK, NEW o \in Owner, NEW s \in Session, NEW answer
  PROVE  /\ Reviewed(s) \in History
         /\ Acted(o, s, answer) \in History
         /\ \A r \in Run : Freed(o, r) \in History
  <1>1. history \in History /\ s.run \in Run
    BY FieldsOfSession DEF SessionTypeOK
  <1>2. Reviewed(s) \in History
    BY <1>1 DEF Reviewed, History
  <1>3. \A r \in Run : Freed(o, r) \in History
    BY <1>1 DEF Freed, History
  <1>4. Acted(o, s, answer) \in History
    BY <1>1, <1>2 DEF Acted, History
  <1>5. QED
    BY <1>2, <1>3, <1>4
-----------------------------------------------------------------------------
(* Every step keeps the types of checkpoints, sessions and worktrees. *)
LEMMA BeginType ==
  ASSUME SessionTypeOK, NEW o \in Owner, NEW r \in Run, NEW spare \in Seq(Answer),
         Begin(o, r, spare)
  PROVE  SessionTypeOK'
  <1>1. head' \in [Run -> Checkpoint]
    <2>1. [head[r] EXCEPT !.spare = spare] \in Checkpoint
      BY DEF SessionTypeOK, Checkpoint
    <2>2. QED
      BY <2>1 DEF Begin, SessionTypeOK
  <1>2. SessionsOK'
    <2> DEFINE s == [run |-> r, loaded |-> head'[r], count |-> 0,
                     recovered |-> FALSE, update |-> <<>>, late |-> <<>>]
    <2>1. <<>> \in Seq(Put) /\ <<>> \in Seq(LatePut)
      OBVIOUS
    <2>2. head'[r] \in Checkpoint /\ 0 \in 0..MaxRecoveries
      BY <1>1, ConstantsOK
    <2>5. s \in Session
      BY <2>1, <2>2 DEF Session
    <2>3. session' = [session EXCEPT ![o] = s]
      BY DEF Begin
    <2> HIDE DEF s
    <2>4. QED
      BY <2>3, <2>5, OneSession DEF SessionTypeOK, SessionsOK
  <1>3. latest' \in [Run -> SUBSET Owner]
    BY DEF Begin, SessionTypeOK
  <1>4. QED
    BY <1>1, <1>2, <1>3 DEF Begin, SessionTypeOK, SessionsOK

LEMMA WorkType ==
  ASSUME SessionTypeOK, NEW o \in Owner, Work(o)
  PROVE  SessionTypeOK' /\ Updated(o)
  <1> DEFINE s == session[o]
             answer == Answers(s)[Len(Questions(s))]
  <1>1. SessionsOK /\ InSession(o) /\ s \in Session
    BY DEF Work, InNode, Between, SessionTypeOK, SessionsOK
  <1>2. s.run \in Run /\ s.loaded.committed \in BOOLEAN /\ repo[s.run].dirty \in BOOLEAN
    BY <1>1, FieldsOfSession DEF Checkpoint, SessionTypeOK, Repository
  <1>3. history' \in History
    BY <1>1, HistoryType DEF Work
  <1>4. SessionsOK' /\ Updated(o) /\ repo' \in [Run -> Repository]
    <2>1. CASE Plan(o, s)
      BY <1>1, <1>2, <2>1, ReturnsType DEF Plan, SessionStatus, SessionTypeOK
    <2>2. CASE Build(o, s)
      BY <1>1, <1>2, <2>2, ReturnsType
      DEF Build, SessionStatus, SessionTypeOK, Repository
    <2>3. CASE Skip(o, s)
      BY <1>1, <1>2, <2>3, ReturnsType DEF Skip, SessionStatus, SessionTypeOK
    <2>4. CASE Finish(o, s)
      BY <1>1, <1>2, <2>4, ReturnsType DEF Finish, SessionStatus, SessionTypeOK
    <2>5. CASE Deny(o, s, answer)
      BY <1>1, <1>2, <2>5, ReturnsType DEF Deny, SessionStatus, SessionTypeOK
    <2>6. CASE Commit(o, s)
      BY <1>1, <1>2, <2>6, ReturnsType
      DEF Commit, SessionStatus, SessionTypeOK, Repository
    <2>7. CASE HandOff(o, s)
      BY <1>1, <1>2, <2>7, ReturnsType DEF HandOff, SessionStatus, SessionTypeOK
    <2>8. QED
      BY <2>1, <2>2, <2>3, <2>4, <2>5, <2>6, <2>7 DEF Work
  <1>5. QED
    BY <1>3, <1>4 DEF Work, SessionTypeOK, SessionsOK

LEMMA SaveType ==
  ASSUME SessionTypeOK, NEW o \in Owner, Save(o)
  PROVE  SessionTypeOK'
  <1> DEFINE s == session[o]
             put == s.update[1]
  <1>1. SessionsOK /\ InSession(o) /\ s \in Session
    BY DEF Save, SessionTypeOK, SessionsOK
  <1>2. put \in Put /\ s.run \in Run
    BY <1>1, FieldsOfSession DEF Save
  <1>3. put.checkpoint \in Checkpoint
    BY <1>2 DEF Put
  <1>4. history' \in History
    BY <1>1, <1>2, HistoryType DEF Save, SessionTypeOK
  <1>5. <<>> \in Seq(LatePut)
    OBVIOUS
  <1>6. CASE Store(o, s.run, put.checkpoint) /\ Continue(o, put.checkpoint, <<>>)
    <2>1. SessionsOK'
      BY <1>1, <1>3, <1>5, <1>6, ContinueType
    <2>2. QED
      BY <1>2, <1>3, <1>4, <1>6, <2>1, StoreType DEF Save, SessionTypeOK, SessionsOK
  <1>7. CASE /\ put.status \in TerminalRunStatuses
             /\ Continue(o, put.checkpoint, <<put>>)
             /\ UNCHANGED <<head, latest>>
    <2>1. put \in LatePut
      BY <1>2, <1>7 DEF Put, LatePut
    <2>2. <<put>> \in Seq(LatePut)
      BY <2>1
    <2>3. SessionsOK'
      BY <1>1, <1>3, <1>7, <2>2, ContinueType
    <2>4. QED
      BY <1>4, <1>7, <2>3 DEF Save, SessionTypeOK, SessionsOK
  <1>8. QED
    BY <1>6, <1>7 DEF Save

(* The questions of a node are questions, with or without the one about   *)
(* the recovery before them.                                               *)
LEMMA AskedOnce ==
  ASSUME NEW c PROVE NodeQuestions(c) \in Seq(Question)
  <1>1. <<>> \in Seq(Question)
    OBVIOUS
  <1>2. ASSUME c.next \in DOMAIN ActionOf PROVE <<ActionOf[c.next]>> \in Seq(Question)
    <2>1. ActionOf[c.next] \in Question
      BY <1>2 DEF ActionOf, Question
    <2>2. QED
      BY <2>1
  <1>3. QED
    BY <1>1, <1>2 DEF NodeQuestions

LEMMA RecoveryAskedFirst ==
  ASSUME NEW questions \in Seq(Question), NEW review \in BOOLEAN
  PROVE (IF review THEN <<"recovery">> ELSE <<>>) \o questions \in Seq(Question)
  <1>1. <<"recovery">> \in Seq(Question)
    BY DEF Question
  <1>2. <<>> \in Seq(Question)
    OBVIOUS
  <1>3. QED
    BY <1>1, <1>2

LEMMA SessionTypeStep ==
  ASSUME TypeOK, SessionTypeOK, [SessionNext]_allVars
  PROVE  SessionTypeOK'
  <1>1. SessionsOK
    BY DEF SessionTypeOK, SessionsOK
  <1>2. ASSUME NEW o \in Owner, NEW r \in Run, NEW value \in {"approve", "reject"},
               Resume(o, r, value)
        PROVE  SessionTypeOK'
    <2> DEFINE answer == [value |-> value, at |-> head[r].next, to |-> head[r].asked]
    <2>1. answer \in Answer
      BY DEF Answer, SessionTypeOK, Checkpoint
    <2>2. <<answer>> \in Seq(Answer)
      BY <2>1
    <2>3. QED
      BY <1>2, <2>2, BeginType DEF Resume
  <1>3. ASSUME NEW o \in Owner, NEW r \in Run, Invoke(o, r) PROVE SessionTypeOK'
    <2>1. head[r].spare \in Seq(Answer)
      BY DEF SessionTypeOK, Checkpoint
    <2>2. QED
      BY <1>3, <2>1, BeginType DEF Invoke
  <1>4. ASSUME NEW o \in Owner, NEW r \in Run, CancelRun(o, r) PROVE SessionTypeOK'
    <2>1. head[r] \in Checkpoint /\ <<>> \in Seq(Answer)
      BY DEF SessionTypeOK
    <2>2. head' \in [Run -> Checkpoint]
      <3> DEFINE stop == IF head[r].next \in {"pull_request_node", "end"}
                         THEN "end" ELSE "stop_run"
                 c == [head[r] EXCEPT !.next = stop, !.cancel = TRUE, !.asked = "none",
                                      !.given = <<>>, !.spare = <<>>]
      <3>1. c \in Checkpoint
        BY <2>1 DEF Checkpoint, Node, Ending
      <3>2. head' = [head EXCEPT ![r] = c]
        BY <1>4 DEF CancelRun, SessionTypeOK
      <3> HIDE DEF c
      <3>3. QED
        BY <3>1, <3>2 DEF SessionTypeOK
    <2>3. history' \in History
      BY <1>4 DEF CancelRun, SessionTypeOK, History
    <2>4. QED
      BY <1>1, <1>4, <2>2, <2>3 DEF CancelRun, SessionTypeOK, SessionsOK, InSession
  <1>5. ASSUME NEW o \in Owner, NEW r \in Run, ReleaseCancelled(o, r)
        PROVE  SessionTypeOK'
    <2>1. history' \in History
      BY <1>5 DEF ReleaseCancelled, Freed, SessionTypeOK, History
    <2>2. QED
      BY <1>5, <2>1 DEF ReleaseCancelled, SessionTypeOK, InSession
  <1>6. ASSUME NEW o \in Owner, Refused(o) PROVE SessionTypeOK'
    <2> DEFINE s == session[o]
               c == Following(s.loaded, "run_locked")
    <2>1. InSession(o) /\ s \in Session /\ <<>> \in Seq(LatePut)
      BY <1>1, <1>6 DEF Refused, Between, SessionsOK
    <2>2. s.run \in Run /\ c \in Checkpoint
      BY <2>1, FieldsOfSession, FollowingType DEF SessionStatus
    <2>3. Store(o, s.run, c) /\ Continue(o, c, <<>>)
      BY <1>6 DEF Refused
    <2> HIDE DEF c
    <2>4. SessionsOK'
      BY <1>1, <2>1, <2>2, <2>3, ContinueType
    <2>5. QED
      BY <1>6, <2>2, <2>3, <2>4, StoreType DEF Refused, SessionTypeOK, SessionsOK
  <1>7. ASSUME NEW o \in Owner, Enter(o) PROVE SessionTypeOK'
    <2> DEFINE s == session[o]
               count == RecoveryCount(s.run) + IF Recovered(o, s.run) THEN 1 ELSE 0
               t == [s EXCEPT !.recovered = Recovered(o, s.run), !.count = count]
    <2>1. s \in Session /\ s.run \in Run
      BY <1>1, <1>7, FieldsOfSession DEF Enter, Between, SessionsOK
    <2>2. count \in 0..MaxRecoveries
      BY <1>7, <2>1, RecoveryCountType, ConstantsOK DEF Enter, Acquire
    <2>3. Recovered(o, s.run) \in BOOLEAN
      BY DEF Recovered
    <2>4. t \in Session
      <3> HIDE DEF count
      <3>1. QED
        BY <2>1, <2>2, <2>3, FieldsOfSession DEF Session
    <2>5. session' = [session EXCEPT ![o] = t]
      BY <1>1, <1>7 DEF Enter, SessionsOK
    <2>6. SessionsOK'
      <3> HIDE DEF t
      <3>1. QED
        BY <1>1, <2>4, <2>5, OneSession
    <2>7. history' \in History
      BY <1>7, <2>1 DEF Enter, SessionTypeOK, History
    <2>8. QED
      BY <1>7, <2>6, <2>7 DEF Enter, SessionTypeOK, SessionsOK
  <1>8. ASSUME NEW o \in Owner, Stop(o) PROVE SessionTypeOK'
    <2> DEFINE s == session[o]
               put == [checkpoint |-> Following(s.loaded, "cancelled"),
                       status |-> "cancelled"]
               t == [s EXCEPT !.update = <<put>>]
    <2>1. s \in Session
      BY <1>1, <1>8 DEF Stop, InNode, Between, SessionsOK
    <2>2. put \in Put
      BY <2>1, FieldsOfSession, FollowingType DEF Put, SessionStatus
    <2>3. session' = [session EXCEPT ![o] = t]
      BY <1>1, <1>8 DEF Stop, SessionsOK
    <2> HIDE DEF put
    <2>4. t \in Session
      BY <2>1, <2>2, UpdatedType
    <2> HIDE DEF t
    <2>5. SessionsOK'
      BY <1>1, <2>3, <2>4, OneSession
    <2>6. QED
      BY <1>8, <2>5 DEF Stop, SessionTypeOK, SessionsOK
  <1>9. ASSUME NEW o \in Owner, Pause(o) PROVE SessionTypeOK'
    <2> DEFINE s == session[o]
    <2>1. s \in Session
      BY <1>1, <1>9 DEF Pause, InNode, Between, SessionsOK
    <2>2. s.run \in Run /\ Answers(s) \in Seq(Answer)
      BY <2>1, FieldsOfSession DEF Answers, Checkpoint
    <2>3. Questions(s)[Len(Answers(s)) + 1] \in Question
      <3>1. NodeQuestions(s.loaded) \in Seq(Question)
        BY AskedOnce
      <3>2. Questions(s) \in Seq(Question)
        BY <3>1, RecoveryAskedFirst DEF Questions
      <3>3. Len(Answers(s)) + 1 \in 1..Len(Questions(s))
        BY <1>9, <2>2, <3>2 DEF Pause
      <3>4. QED
        BY <3>2, <3>3
    <2>4. head' \in [Run -> Checkpoint]
      <3> DEFINE asked == Questions(s)[Len(Answers(s)) + 1]
                 given == Answers(s)
      <3>1. CASE o \in latest[s.run]
        <4> DEFINE c == [head[s.run] EXCEPT !.asked = asked, !.given = given]
        <4>1. asked \in Question /\ given \in Seq(Answer)
          BY <2>2, <2>3
        <4>2. head' = [head EXCEPT ![s.run] = c]
          BY <1>9, <3>1 DEF Pause
        <4> HIDE DEF asked, given
        <4>3. c \in Checkpoint
          BY <2>2, <4>1 DEF SessionTypeOK, Checkpoint
        <4> HIDE DEF c
        <4>4. QED
          BY <2>2, <4>2, <4>3 DEF SessionTypeOK
      <3>2. CASE o \notin latest[s.run]
        BY <1>9, <3>2 DEF Pause, SessionTypeOK
      <3>3. QED
        BY <3>1, <3>2
    <2>5. SessionsOK'
      BY <1>1, <1>9, EndOfSession DEF Pause
    <2>6. latest' \in [Run -> SUBSET Owner]
      BY <1>9, <2>2 DEF Pause, SessionTypeOK
    <2>7. QED
      BY <1>9, <2>4, <2>5, <2>6 DEF Pause, SessionTypeOK, SessionsOK
  <1>10. ASSUME NEW o \in Owner, Return(o) PROVE SessionTypeOK'
    <2> DEFINE s == session[o]
    <2>1. InSession(o) /\ s \in Session
      BY <1>1, <1>10 DEF Return, SessionsOK
    <2>2. CASE UNCHANGED session
      BY <1>10, <2>2 DEF Return, SessionTypeOK, InSession
    <2>3. CASE session' = [session EXCEPT ![o].update =
                 <<[checkpoint |-> [@[1].checkpoint EXCEPT
                                      !.next = After(s.loaded.next, "failed")],
                    status |-> "failed"]>>]
      <3> DEFINE c == [s.update[1].checkpoint EXCEPT
                         !.next = After(s.loaded.next, "failed")]
                 put == [checkpoint |-> c, status |-> "failed"]
                 t == [s EXCEPT !.update = <<put>>]
      <3>1. s.update[1] \in Put
        BY <1>10, <2>1, FieldsOfSession DEF Return
      <3>2. s.update[1].checkpoint \in Checkpoint /\ s.loaded.next \in Node
        BY <2>1, <3>1, FieldsOfSession DEF Put, Checkpoint
      <3>3. After(s.loaded.next, "failed") \in Node
        BY <3>2, AfterType DEF SessionStatus
      <3>4. c \in Checkpoint
        BY <3>2, <3>3 DEF Checkpoint
      <3> HIDE DEF c
      <3>5. put \in Put
        BY <3>4 DEF Put, SessionStatus
      <3>6. session' = [session EXCEPT ![o] = t]
        BY <1>1, <2>3 DEF SessionsOK, c
      <3> HIDE DEF put
      <3>7. t \in Session
        BY <2>1, <3>5, UpdatedType
      <3> HIDE DEF t
      <3>8. SessionsOK'
        BY <1>1, <3>6, <3>7, OneSession
      <3>9. QED
        BY <1>10, <3>8 DEF Return, SessionTypeOK, SessionsOK
    <2>4. QED
      BY <1>10, <2>2, <2>3 DEF Return
  <1>11. ASSUME NEW o \in Owner, SaveLate(o) PROVE SessionTypeOK'
    <2> DEFINE s == session[o]
               put == s.late[1]
               t == [s EXCEPT !.late = <<>>]
    <2>1. s \in Session /\ s.run \in Run
      BY <1>1, <1>11, FieldsOfSession DEF SaveLate, SessionsOK
    <2>2. put \in LatePut
      BY <1>11, <2>1, FieldsOfSession DEF SaveLate
    <2>3. put.checkpoint \in Checkpoint
      BY <2>2 DEF LatePut
    <2>4. <<>> \in Seq(LatePut)
      OBVIOUS
    <2>5. t \in Session
      BY <2>1, <2>4, FieldsOfSession DEF Session
    <2>6. session' = [session EXCEPT ![o] = t]
      BY <1>1, <1>11 DEF SaveLate, SessionsOK
    <2> HIDE DEF t
    <2>7. SessionsOK'
      BY <1>1, <2>5, <2>6, OneSession
    <2>8. history' \in History
      BY <1>11, <2>1, HistoryType DEF SaveLate
    <2>9. QED
      BY <1>11, <2>1, <2>3, <2>7, <2>8, StoreType
      DEF SaveLate, SessionTypeOK, SessionsOK
  <1>12. ASSUME NEW o \in Owner, Die(o) PROVE SessionTypeOK'
    <2>1. SessionsOK'
      BY <1>1, <1>12, EndOfSession DEF Die
    <2>2. latest' \in [Run -> SUBSET Owner]
      BY <1>12 DEF Die, SessionTypeOK
    <2>3. QED
      BY <1>12, <2>1, <2>2 DEF Die, SessionTypeOK, SessionsOK
  <1>13. ASSUME NEW r \in Run, LoseCommit(r) PROVE SessionTypeOK'
    BY <1>13 DEF LoseCommit, SessionTypeOK, Repository, InSession
  <1>14. CASE UNCHANGED sessionVars
    BY <1>14 DEF sessionVars, SessionTypeOK, InSession
  <1>15. QED
    BY <1>2, <1>3, <1>4, <1>5, <1>6, <1>7, <1>8, <1>9, <1>10, <1>11, <1>12, <1>13,
       <1>14, WorkType, SaveType
    DEF SessionNext, SessionStep, Leave, TimePasses, allVars
-----------------------------------------------------------------------------
(* Every step of a session is a step of RunLifecycle or leaves it alone.   *)
LEMMA SessionLeaseStep ==
  ASSUME SessionTypeOK, [SessionNext]_allVars
  PROVE  [Next]_vars
  <1>1. ASSUME NEW o \in Owner, InSession(o) PROVE session[o].run \in Run
    BY <1>1, FieldsOfSession DEF SessionTypeOK
  <1>2. ASSUME NEW o \in Owner, NEW r \in Run,
               \/ \E value \in {"approve", "reject"} : Resume(o, r, value)
               \/ Invoke(o, r) \/ CancelRun(o, r) \/ ReleaseCancelled(o, r)
        PROVE  [Next]_vars
    BY <1>2 DEF Resume, Invoke, CancelRun, ReleaseCancelled, Next, ProcessStep,
                RunStep, TerminalRunStatuses
  <1>3. ASSUME NEW o \in Owner, Refused(o) \/ Enter(o) \/ Stop(o) \/ Pause(o)
        PROVE  [Next]_vars
    BY <1>1, <1>3 DEF Refused, Enter, Stop, Pause, InNode, Between, Next,
                      ProcessStep, RunStep
  <1>4. ASSUME NEW o \in Owner, Return(o) PROVE [Next]_vars
    BY <1>1, <1>4 DEF Return, Next, ProcessStep, RunStep
  <1>5. ASSUME NEW o \in Owner, Save(o) PROVE [Next]_vars
    <2>1. session[o].run \in Run
      BY <1>1, <1>5 DEF Save
    <2>2. QED
      BY <1>5, <2>1 DEF Save, Next, ProcessStep, RunStep
  <1>6. ASSUME NEW o \in Owner, SaveLate(o) PROVE [Next]_vars
    <2>1. InSession(o) /\ session[o].late # <<>>
      BY <1>6 DEF SaveLate
    <2>2. session[o].run \in Run /\ session[o].late[1] \in LatePut
      BY <2>1, FieldsOfSession DEF SessionTypeOK
    <2>3. session[o].late[1].status \in TerminalRunStatuses
      BY <2>2 DEF LatePut
    <2>4. QED
      BY <1>6, <2>2, <2>3 DEF SaveLate, Next, ProcessStep, RunStep
  <1>7. ASSUME NEW o \in Owner, Work(o) \/ Leave(o) \/ Die(o) PROVE [Next]_vars
    BY <1>7 DEF Work, Leave, Die, Next, ProcessStep
  <1>8. CASE TimePasses \/ (\E r \in Run : LoseCommit(r)) \/ UNCHANGED allVars
    BY <1>8 DEF TimePasses, LoseCommit, allVars, Next
  <1>9. QED
    BY <1>2, <1>3, <1>4, <1>5, <1>6, <1>7, <1>8 DEF SessionNext, SessionStep

(* The leases, the checkpoints and the sessions keep their types.          *)
THEOREM SessionTypes == SessionSpec => [](TypeOK /\ SessionTypeOK)
  <1>1. SessionInit => TypeOK /\ SessionTypeOK
    <2> SUFFICES ASSUME SessionInit PROVE TypeOK /\ SessionTypeOK
      OBVIOUS
    <2>1. TypeOK
      BY ConstantsOK DEF SessionInit, Init, TypeOK, Phase
    <2>2. Input \in Checkpoint
      <3>1. <<>> \in Seq(Answer)
        OBVIOUS
      <3>2. QED
        BY <3>1, ConstantsOK DEF Input, Checkpoint, Node
    <2>3. QED
      BY <2>1, <2>2 DEF SessionInit, SessionTypeOK, InSession, Repository, History
  <1>2. TypeOK /\ SessionTypeOK /\ [SessionNext]_allVars
          => TypeOK' /\ SessionTypeOK'
    BY SessionLeaseStep, TypeStep, SessionTypeStep
  <1>3. QED
    BY <1>1, <1>2, PTL DEF SessionSpec

(* The sessions use the leases only as RunLifecycle describes ...          *)
THEOREM SessionsRefineLeases == SessionSpec => SessionsAreLeased
  <1>1. SessionInit => Init
    BY DEF SessionInit
  <1>2. SessionTypeOK /\ [SessionNext]_allVars => [Next]_vars
    BY SessionLeaseStep
  <1>3. QED
    BY <1>1, <1>2, SessionTypes, PTL DEF SessionSpec, SessionsAreLeased, Spec

(* ... so two sessions of one run never both hold an unexpired lease.      *)
THEOREM SessionsExclude == SessionSpec => []OneLiveHolder
  BY SessionsRefineLeases, MutualExclusion DEF SessionsAreLeased
-----------------------------------------------------------------------------
(* Why no answer is used elsewhere: an answer is kept with the node the    *)
(* run was at when it was given, in the latest checkpoint and in what the  *)
(* sessions loaded; a checkpoint put after a node has none; and a session  *)
(* that has the latest checkpoint is at the node that one names.           *)
AllAt(answers, node) == \A i \in 1..Len(answers) : answers[i].at = node
AnswersAt(checkpoint) ==
  AllAt(checkpoint.given, checkpoint.next) /\ AllAt(checkpoint.spare, checkpoint.next)
Unanswered(puts) ==
  puts # <<>> => puts[1].checkpoint.given = <<>> /\ puts[1].checkpoint.spare = <<>>

SessionAnswers(o) ==
  LET s == session[o] IN
  InSession(o) =>
    /\ AnswersAt(s.loaded)
    /\ Unanswered(s.update) /\ Unanswered(s.late)
    /\ s.late # <<>> => s.late[1].checkpoint.next = s.loaded.next
    /\ o \in latest[s.run] /\ s.late = <<>> => head[s.run].next = s.loaded.next

AnswersInv ==
  /\ SessionTypeOK
  /\ \A r \in Run : AnswersAt(head[r])
  /\ \A o \in Owner : SessionAnswers(o)
  /\ EffectIsApproved

(* A session that is untouched keeps its answers when the checkpoint of a  *)
(* run changes, if it is not among the latest or the node is the same.     *)
LEMMA OtherSession ==
  ASSUME SessionTypeOK, NEW p \in Owner, SessionAnswers(p),
         session'[p] = session[p],
         InSession(p) =>
           \/ p \notin latest'[session[p].run]
           \/ /\ p \in latest[session[p].run]
              /\ head'[session[p].run].next = head[session[p].run].next
  PROVE  SessionAnswers(p)'
  BY DEF SessionAnswers, InSession

(* After a checkpoint without answers was put, the session goes on at the  *)
(* node of that checkpoint, and no other session has the latest.           *)
LEMMA StoreAnswers ==
  ASSUME AnswersInv, NEW o \in Owner, InSession(o), NEW c \in Checkpoint,
         c.given = <<>>, c.spare = <<>>,
         Store(o, session[o].run, c), Continue(o, c, <<>>)
  PROVE  /\ \A r \in Run : AnswersAt(head[r])'
         /\ \A p \in Owner : SessionAnswers(p)'
  <1> DEFINE r == session[o].run
  <1>1. session[o] \in Session /\ r \in Run
    BY FieldsOfSession DEF AnswersInv, SessionTypeOK
  <1>2. AnswersAt(c)
    BY DEF AnswersAt, AllAt
  <1>3. \A q \in Run : AnswersAt(head[q])'
    BY <1>1, <1>2 DEF Store, AnswersInv, SessionTypeOK, AnswersAt
  <1>4. SessionAnswers(o)'
    <2>1. CASE c.next = "end"
      BY <2>1 DEF Continue, SessionAnswers, InSession, AnswersInv, SessionTypeOK
    <2>2. CASE c.next # "end"
      <3>1. session' = [session EXCEPT ![o] = [session[o] EXCEPT !.loaded = c,
                !.recovered = FALSE, !.update = <<>>, !.late = <<>>]]
        BY <2>2 DEF Continue, AnswersInv, SessionTypeOK
      <3>2. /\ session'[o].loaded = c /\ session'[o].run = r
            /\ session'[o].update = <<>> /\ session'[o].late = <<>>
        BY <1>1, <3>1 DEF AnswersInv, SessionTypeOK, Session
      <3>3. head'[r] = c
        BY <1>1 DEF Store, AnswersInv, SessionTypeOK
      <3>4. QED
        BY <1>2, <3>2, <3>3 DEF SessionAnswers, Unanswered
    <2>3. QED
      BY <2>1, <2>2
  <1>5. ASSUME NEW p \in Owner, p # o PROVE SessionAnswers(p)'
    <2>1. session'[p] = session[p]
      BY <1>5 DEF Continue, AnswersInv, SessionTypeOK
    <2>2. InSession(p) => session[p].run \in Run
      BY FieldsOfSession DEF AnswersInv, SessionTypeOK
    <2>3. CASE InSession(p) /\ session[p].run = r
      <3>1. p \notin latest'[r]
        BY <1>1, <1>5 DEF Store, AnswersInv, SessionTypeOK
      <3>2. QED
        BY <2>1, <2>3, <3>1, OtherSession DEF AnswersInv
    <2>4. CASE InSession(p) /\ session[p].run # r
      <3>1. /\ head'[session[p].run] = head[session[p].run]
            /\ latest'[session[p].run] = latest[session[p].run]
        BY <1>1, <2>2, <2>4 DEF Store, AnswersInv, SessionTypeOK
      <3>2. QED
        BY <2>1, <3>1, OtherSession DEF AnswersInv
    <2>5. QED
      BY <2>1, <2>3, <2>4, OtherSession DEF AnswersInv
  <1>6. QED
    BY <1>3, <1>4, <1>5

(* The update of a node in progress has no answers.                        *)
LEMMA UpdateAnswers ==
  ASSUME AnswersInv, NEW o \in Owner, InSession(o), NEW put \in Put,
         put.checkpoint.given = <<>>, put.checkpoint.spare = <<>>,
         session' = [session EXCEPT ![o].update = <<put>>],
         UNCHANGED <<head, latest>>
  PROVE  /\ \A r \in Run : AnswersAt(head[r])'
         /\ \A p \in Owner : SessionAnswers(p)'
  <1>1. session[o] \in Session
    BY DEF AnswersInv, SessionTypeOK
  <1>2. SessionAnswers(o)'
    <2> DEFINE t == [session[o] EXCEPT !.update = <<put>>]
    <2>1. session' = [session EXCEPT ![o] = t]
      BY DEF AnswersInv, SessionTypeOK
    <2>2. /\ t.loaded = session[o].loaded /\ t.run = session[o].run
          /\ t.late = session[o].late /\ t.update = <<put>>
      BY <1>1 DEF Session
    <2>3. session'[o] = t
      BY <2>1 DEF AnswersInv, SessionTypeOK
    <2> HIDE DEF t
    <2>4. SessionAnswers(o)
      BY DEF AnswersInv
    <2>5. QED
      BY <2>2, <2>3, <2>4 DEF SessionAnswers, Unanswered, InSession
  <1>3. ASSUME NEW p \in Owner, p # o PROVE SessionAnswers(p)'
    BY <1>3, OtherSession DEF AnswersInv, SessionTypeOK, SessionAnswers, InSession
  <1>4. QED
    BY <1>2, <1>3 DEF AnswersInv

(* A session that begins takes the answer of the operator with it, or      *)
(* goes on with the one the checkpoint has.                                *)
LEMMA BeginAnswers ==
  ASSUME AnswersInv, NEW o \in Owner, NEW r \in Run, NEW spare \in Seq(Answer),
         AllAt(spare, head[r].next), Begin(o, r, spare)
  PROVE  AnswersInv' \/ ~SessionTypeOK'
  <1> SUFFICES ASSUME SessionTypeOK' PROVE AnswersInv'
    OBVIOUS
  <1> DEFINE c == [head[r] EXCEPT !.spare = spare]
  <1>1. /\ head' = [head EXCEPT ![r] = c] /\ head[r] \in Checkpoint
        /\ latest' = [latest EXCEPT ![r] = @ \cup {o}]
        /\ ~InSession(o) /\ UNCHANGED history
    BY DEF Begin, AnswersInv, SessionTypeOK
  <1>2. c.next = head[r].next /\ c.given = head[r].given /\ c.spare = spare
    BY <1>1 DEF Checkpoint
  <1>3. head'[r] = c
    BY <1>1 DEF AnswersInv, SessionTypeOK
  <1>4. AnswersAt(c)
    BY <1>2 DEF AnswersAt, AnswersInv
  <1>5. session' = [session EXCEPT ![o] =
          [run |-> r, loaded |-> c, count |-> 0, recovered |-> FALSE,
           update |-> <<>>, late |-> <<>>]]
    BY <1>3 DEF Begin
  <1> HIDE DEF c
  <1>6. \A q \in Run : AnswersAt(head'[q])
    BY <1>1, <1>4 DEF AnswersInv, SessionTypeOK
  <1>7. SessionAnswers(o)'
    <2>1. /\ session'[o].loaded = c /\ session'[o].run = r
          /\ session'[o].update = <<>> /\ session'[o].late = <<>>
      BY <1>5 DEF AnswersInv, SessionTypeOK
    <2>2. QED
      BY <1>3, <1>4, <2>1 DEF SessionAnswers, Unanswered
  <1>8. ASSUME NEW p \in Owner, p # o PROVE SessionAnswers(p)'
    <2>1. session'[p] = session[p]
      BY <1>5, <1>8 DEF AnswersInv, SessionTypeOK
    <2>2. InSession(p) => session[p].run \in Run
      BY FieldsOfSession DEF AnswersInv, SessionTypeOK
    <2>3. ASSUME InSession(p)
          PROVE  /\ head'[session[p].run].next = head[session[p].run].next
                 /\ p \in latest'[session[p].run] => p \in latest[session[p].run]
      BY <1>1, <1>2, <1>3, <1>8, <2>2, <2>3 DEF AnswersInv, SessionTypeOK
    <2>4. QED
      BY <2>1, <2>3, OtherSession DEF AnswersInv
  <1>9. QED
    BY <1>1, <1>6, <1>7, <1>8 DEF AnswersInv, EffectIsApproved, AnswersAt

LEMMA ReviewCounts ==
  ASSUME NEW questions \in Seq(Question), questions # <<>>, NEW review \in BOOLEAN
  PROVE  LET all == (IF review THEN <<"recovery">> ELSE <<>>) \o questions IN
         Len(all) \in Nat /\ Len(all) >= 1
  <1>1. Len(questions) >= 1
    OBVIOUS
  <1>2. <<"recovery">> \in Seq(Question) /\ <<>> \in Seq(Question)
    BY DEF Question
  <1>3. QED
    BY <1>1, <1>2

LEMMA Concatenation ==
  ASSUME NEW first \in Seq(Answer), NEW second \in Seq(Answer)
  PROVE  first \o second \in Seq(Answer)
  OBVIOUS

LEMMA AllAtBoth ==
  ASSUME NEW first \in Seq(Answer), NEW second \in Seq(Answer), NEW node,
         AllAt(first, node), AllAt(second, node)
  PROVE  AllAt(first \o second, node)
  <1>1. ASSUME NEW i \in 1..Len(first \o second)
        PROVE  (first \o second)[i].at = node
    <2>1. CASE i <= Len(first)
      BY <2>1 DEF AllAt
    <2>2. CASE i > Len(first)
      <3>1. i - Len(first) \in 1..Len(second)
        BY <2>2
      <3>2. (first \o second)[i] = second[i - Len(first)]
        BY <2>2
      <3>3. QED
        BY <3>1, <3>2 DEF AllAt
    <2>3. QED
      BY <2>1, <2>2
  <1>2. QED
    BY <1>1 DEF AllAt

(* A side effect takes the answer of its node: it is among the answers the *)
(* node has, and all of these were given there.                            *)
LEMMA WorkAnswers ==
  ASSUME AnswersInv, NEW o \in Owner, Work(o)
  PROVE  EffectIsApproved'
  <1> DEFINE s == session[o]
             answer == Answers(s)[Len(Questions(s))]
  <1>1. s \in Session /\ s.loaded \in Checkpoint /\ InSession(o)
    BY FieldsOfSession DEF AnswersInv, SessionTypeOK, Work, InNode, Between
  <1>2. CASE history' = Reviewed(s)
    BY <1>2 DEF Reviewed, AnswersInv, EffectIsApproved, SessionTypeOK, History
  <1>3. CASE /\ NodeQuestions(s.loaded) # <<>> /\ answer.value = "approve"
             /\ history' = Acted(o, s, answer)
    <2>1. NodeQuestions(s.loaded) \in Seq(Question) /\ Questions(s) \in Seq(Question)
      BY AskedOnce, RecoveryAskedFirst DEF Questions
    <2>2. Len(Questions(s)) \in Nat /\ Len(Questions(s)) >= 1
      BY <1>3, <2>1, ReviewCounts DEF Questions
    <2>3. s.loaded.given \in Seq(Answer) /\ s.loaded.spare \in Seq(Answer)
      BY <1>1 DEF Checkpoint
    <2>4. AllAt(Answers(s), s.loaded.next)
      <3>1. AllAt(s.loaded.given, s.loaded.next) /\ AllAt(s.loaded.spare, s.loaded.next)
        BY <1>1 DEF AnswersInv, SessionAnswers, AnswersAt
      <3>2. QED
        BY <2>3, <3>1, AllAtBoth DEF Answers
    <2>5. Len(Questions(s)) \in 1..Len(Answers(s))
      <3>1. Len(Answers(s)) >= Len(Questions(s))
        BY DEF Work
      <3>2. Answers(s) \in Seq(Answer)
        BY <2>3, Concatenation DEF Answers
      <3>3. Len(Answers(s)) \in Nat
        BY <3>2
      <3>4. QED
        BY <2>2, <3>1, <3>3
    <2>6. answer.at = s.loaded.next
      BY <2>4, <2>5 DEF AllAt
    <2>7. history' = [Reviewed(s) EXCEPT !.doubt = history'.doubt,
            !.unreviewed = history'.unreviewed, !.afterStop = history'.afterStop,
            !.unapproved = Reviewed(s).unapproved]
      <3> HIDE DEF answer
      <3>1. QED
      BY <1>3, <2>6 DEF Acted
    <2>8. Reviewed(s).unapproved = history.unapproved
      BY DEF Reviewed, AnswersInv, SessionTypeOK, History
    <2>9. history'.unapproved = Reviewed(s).unapproved
      BY <1>1, <2>7 DEF Reviewed, AnswersInv, SessionTypeOK, History
    <2>10. QED
      BY <2>8, <2>9 DEF AnswersInv, EffectIsApproved
  <1>4. QED
    BY <1>2, <1>3 DEF Work

(* The session of a process that writes no checkpoint keeps its answers,   *)
(* and so do the others.                                                   *)
LEMMA SameAnswers ==
  ASSUME AnswersInv, SessionTypeOK', NEW o \in Owner,
         \A r \in Run : AnswersAt(head[r])',
         \A r \in Run : head'[r].next = head[r].next,
         \A r \in Run : latest'[r] \subseteq latest[r],
         \A p \in Owner \ {o} : session'[p] = session[p],
         InSession(o)' => /\ InSession(o)
                          /\ session'[o].loaded = session[o].loaded
                          /\ session'[o].run = session[o].run
                          /\ session'[o].late = session[o].late
                          /\ Unanswered(session'[o].update),
         EffectIsApproved'
  PROVE  AnswersInv'
  <1>1. ASSUME NEW p \in Owner, InSession(p)' PROVE SessionAnswers(p)'
    <2>1. session'[p].run \in Run
      BY <1>1, FieldsOfSession DEF SessionTypeOK, InSession
    <2>2. CASE p = o
      BY <1>1, <2>1, <2>2 DEF AnswersInv, SessionAnswers, InSession
    <2>3. CASE p # o
      BY <1>1, <2>1, <2>3 DEF AnswersInv, SessionAnswers, InSession
    <2>4. QED
      BY <2>2, <2>3
  <1>2. QED
    BY <1>1 DEF AnswersInv, SessionAnswers, AnswersAt

LEMMA AnswersStep ==
  ASSUME AnswersInv, SessionTypeOK', [SessionNext]_allVars
  PROVE  AnswersInv'
  <1>1. ASSUME NEW o \in Owner, InSession(o)
        PROVE  /\ session[o] \in Session /\ session[o].run \in Run
               /\ session[o].loaded \in Checkpoint
    BY <1>1, FieldsOfSession DEF AnswersInv, SessionTypeOK
  <1>2. ASSUME NEW o \in Owner, NEW r \in Run,
               NEW value \in {"approve", "reject"}, Resume(o, r, value)
        PROVE  AnswersInv'
    <2> DEFINE a == [value |-> value, at |-> head[r].next, to |-> head[r].asked]
    <2>1. head[r].next \in Node /\ head[r].asked \in Question \cup {"none"}
      BY DEF AnswersInv, SessionTypeOK, Checkpoint
    <2>2. a \in Answer
      BY <2>1 DEF Answer
    <2>3. <<a>> \in Seq(Answer) /\ AllAt(<<a>>, head[r].next)
      <3>1. a.at = head[r].next
        OBVIOUS
      <3> HIDE DEF a
      <3>2. QED
        BY <2>2, <3>1 DEF AllAt
    <2>4. QED
      BY <1>2, <2>3, BeginAnswers DEF Resume, AnswersInv
  <1>3. ASSUME NEW o \in Owner, NEW r \in Run, Invoke(o, r) PROVE AnswersInv'
    <2>1. head[r].spare \in Seq(Answer)
      BY DEF AnswersInv, SessionTypeOK, Checkpoint
    <2>2. QED
      BY <1>3, <2>1, BeginAnswers DEF Invoke, AnswersInv, AnswersAt
  <1>4. ASSUME NEW o \in Owner, Refused(o) PROVE AnswersInv'
    <2> DEFINE c == Following(session[o].loaded, "run_locked")
    <2>1. /\ c \in Checkpoint /\ c.given = <<>> /\ c.spare = <<>>
          /\ InSession(o) /\ UNCHANGED history
          /\ Store(o, session[o].run, c) /\ Continue(o, c, <<>>)
      BY <1>1, <1>4, FollowingType DEF Refused, Between, SessionStatus
    <2> HIDE DEF c
    <2>2. QED
      BY <2>1, StoreAnswers DEF AnswersInv, EffectIsApproved
  <1>5. ASSUME NEW o \in Owner, Enter(o) PROVE AnswersInv'
    <2> DEFINE s == session[o]
               count == RecoveryCount(s.run) + IF Recovered(o, s.run) THEN 1 ELSE 0
               t == [s EXCEPT !.recovered = Recovered(o, s.run), !.count = count]
    <2>1. InSession(o) /\ s \in Session /\ s.update = <<>>
      BY <1>1, <1>5 DEF Enter, Between
    <2>2. session' = [session EXCEPT ![o] = t]
      BY <1>5 DEF Enter, AnswersInv, SessionTypeOK
    <2>3. /\ t.loaded = s.loaded /\ t.run = s.run /\ t.late = s.late
          /\ t.update = <<>>
      <3> HIDE DEF count
      <3>1. QED
        BY <2>1 DEF Session
    <2> HIDE DEF t
    <2>4. EffectIsApproved'
      BY <1>5 DEF Enter, AnswersInv, EffectIsApproved, SessionTypeOK, History
    <2>5. session'[o] = t /\ \A p \in Owner \ {o} : session'[p] = session[p]
      BY <2>2 DEF AnswersInv, SessionTypeOK
    <2>6. UNCHANGED <<head, latest>>
      BY <1>5 DEF Enter
    <2>7. \A r \in Run : AnswersAt(head[r])'
      BY <2>6 DEF AnswersInv, AnswersAt
    <2>8. QED
      BY <2>1, <2>3, <2>4, <2>5, <2>6, <2>7, SameAnswers DEF Unanswered
  <1>6. ASSUME NEW o \in Owner, Stop(o) PROVE AnswersInv'
    <2> DEFINE c == Following(session[o].loaded, "cancelled")
               put == [checkpoint |-> c, status |-> "cancelled"]
    <2>1. /\ c \in Checkpoint /\ c.given = <<>> /\ c.spare = <<>>
          /\ InSession(o) /\ UNCHANGED <<head, latest, history>>
      BY <1>1, <1>6, FollowingType DEF Stop, InNode, Between, SessionStatus
    <2>2. session' = [session EXCEPT ![o].update = <<put>>]
      BY <1>6 DEF Stop
    <2> HIDE DEF c
    <2>3. put \in Put /\ put.checkpoint.given = <<>> /\ put.checkpoint.spare = <<>>
      BY <2>1 DEF Put, SessionStatus
    <2> HIDE DEF put
    <2>4. QED
      BY <2>1, <2>2, <2>3, UpdateAnswers DEF AnswersInv, EffectIsApproved
  <1>7. ASSUME NEW o \in Owner, Pause(o) PROVE AnswersInv'
    <2> DEFINE s == session[o]
    <2>1. /\ InSession(o) /\ s.late = <<>> /\ UNCHANGED history
          /\ session' = [session EXCEPT ![o] = NoSession]
          /\ latest' = [latest EXCEPT ![s.run] = @ \ {o}]
      BY <1>7 DEF Pause, InNode, Between
    <2>2. /\ \A r \in Run : AnswersAt(head[r])'
          /\ \A r \in Run : head'[r].next = head[r].next
      <3>1. CASE o \in latest[s.run]
        <4> DEFINE given == Answers(s)
                   asked == Questions(s)[Len(Answers(s)) + 1]
                   c == [head[s.run] EXCEPT !.asked = asked, !.given = given]
        <4>1. head' = [head EXCEPT ![s.run] = c]
          BY <1>7, <3>1 DEF Pause
        <4>2. /\ head[s.run] \in Checkpoint /\ AnswersAt(head[s.run])
              /\ head[s.run].next = s.loaded.next
          BY <1>1, <2>1, <3>1 DEF AnswersInv, SessionTypeOK, SessionAnswers
        <4>3. AllAt(given, head[s.run].next)
          <5>1. AllAt(s.loaded.given, s.loaded.next) /\ AllAt(s.loaded.spare, s.loaded.next)
            BY <2>1 DEF AnswersInv, SessionAnswers, AnswersAt
          <5>2. s.loaded.given \in Seq(Answer) /\ s.loaded.spare \in Seq(Answer)
            BY <1>1, <2>1 DEF Checkpoint
          <5>3. QED
            BY <4>2, <5>1, <5>2, AllAtBoth DEF Answers
        <4> HIDE DEF given, asked
        <4>4. /\ c.next = head[s.run].next /\ c.given = given
              /\ c.spare = head[s.run].spare
          BY <4>2 DEF Checkpoint
        <4>5. AnswersAt(c)
          BY <4>2, <4>3, <4>4 DEF AnswersAt
        <4> HIDE DEF c
        <4>6. QED
          BY <1>1, <2>1, <4>1, <4>4, <4>5 DEF AnswersInv, SessionTypeOK, AnswersAt
      <3>2. CASE o \notin latest[s.run]
        BY <1>7, <3>2 DEF Pause, AnswersInv, AnswersAt
      <3>3. QED
        BY <3>1, <3>2
    <2>3. ~InSession(o)' /\ \A p \in Owner \ {o} : session'[p] = session[p]
      BY <2>1 DEF InSession, AnswersInv, SessionTypeOK
    <2>4. \A r \in Run : latest'[r] \subseteq latest[r]
      BY <2>1 DEF AnswersInv, SessionTypeOK
    <2>5. QED
      BY <2>1, <2>2, <2>3, <2>4, SameAnswers DEF AnswersInv, EffectIsApproved
  <1>8. ASSUME NEW o \in Owner, Work(o) PROVE AnswersInv'
    <2>1. EffectIsApproved'
      BY <1>8, WorkAnswers
    <2>2. InSession(o) /\ UNCHANGED <<head, latest>>
      BY <1>8 DEF Work, InNode, Between
    <2>3. Updated(o)
      BY <1>8, WorkType DEF AnswersInv
    <2>4. QED
      BY <2>1, <2>2, <2>3, UpdateAnswers DEF AnswersInv, Updated
  <1>9. ASSUME NEW o \in Owner, Return(o) PROVE AnswersInv'
    <2> DEFINE s == session[o]
    <2>1. InSession(o) /\ s \in Session /\ UNCHANGED <<head, latest, history>>
      BY <1>1, <1>9 DEF Return
    <2>2. CASE UNCHANGED session
      BY <2>1, <2>2 DEF AnswersInv, SessionAnswers, InSession, AnswersAt,
                        EffectIsApproved
    <2>3. CASE session' = [session EXCEPT ![o].update =
                 <<[checkpoint |-> [@[1].checkpoint EXCEPT
                                      !.next = After(s.loaded.next, "failed")],
                    status |-> "failed"]>>]
      <3> DEFINE c == [s.update[1].checkpoint EXCEPT
                         !.next = After(s.loaded.next, "failed")]
                 put == [checkpoint |-> c, status |-> "failed"]
      <3>1. s.update # <<>> /\ s.update[1] \in Put
        BY <1>9, <2>1, FieldsOfSession DEF Return
      <3>2. /\ s.update[1].checkpoint.given = <<>>
            /\ s.update[1].checkpoint.spare = <<>>
        BY <2>1, <3>1 DEF AnswersInv, SessionAnswers, Unanswered
      <3>3. /\ s.update[1].checkpoint \in Checkpoint
            /\ After(s.loaded.next, "failed") \in Node
        BY <1>1, <2>1, <3>1, AfterType DEF Put, Checkpoint, SessionStatus
      <3>4. c \in Checkpoint /\ c.given = <<>> /\ c.spare = <<>>
        BY <3>2, <3>3 DEF Checkpoint
      <3>5. session' = [session EXCEPT ![o].update = <<put>>]
        BY <2>3 DEF AnswersInv, SessionTypeOK
      <3> HIDE DEF c
      <3>6. put \in Put /\ put.checkpoint.given = <<>> /\ put.checkpoint.spare = <<>>
        BY <3>4 DEF Put, SessionStatus
      <3> HIDE DEF put
      <3>7. QED
        BY <2>1, <3>5, <3>6, UpdateAnswers DEF AnswersInv, EffectIsApproved
    <2>4. QED
      BY <1>9, <2>2, <2>3 DEF Return
  <1>10. ASSUME NEW o \in Owner, NEW r \in Run
         PROVE  Freed(o, r).unapproved = history.unapproved
    BY DEF Freed, AnswersInv, SessionTypeOK, History
  <1>11. ASSUME NEW o \in Owner, Save(o) PROVE AnswersInv'
    <2> DEFINE s == session[o]
               put == s.update[1]
               c == put.checkpoint
    <2>1. InSession(o) /\ s \in Session /\ s.run \in Run /\ s.update # <<>>
      BY <1>1, <1>11 DEF Save
    <2>2. put \in Put
      BY <2>1, FieldsOfSession
    <2>3. c \in Checkpoint /\ c.given = <<>> /\ c.spare = <<>>
      BY <2>1, <2>2 DEF AnswersInv, SessionAnswers, Unanswered, Put
    <2>4. EffectIsApproved'
      BY <1>10, <1>11, <2>1 DEF Save, AnswersInv, EffectIsApproved
    <2>5. CASE Store(o, s.run, c) /\ Continue(o, c, <<>>)
      <3> HIDE DEF c
      <3>1. QED
        BY <2>1, <2>3, <2>4, <2>5, StoreAnswers DEF AnswersInv
    <2>6. CASE /\ c.next # "end" /\ Continue(o, c, <<put>>)
               /\ UNCHANGED <<head, latest>>
      <3> DEFINE t == [s EXCEPT !.loaded = c, !.recovered = FALSE,
                                !.update = <<>>, !.late = <<put>>]
      <3>1. session' = [session EXCEPT ![o] = t]
        BY <2>6 DEF Continue, AnswersInv, SessionTypeOK
      <3> HIDE DEF put, c
      <3>2. /\ t.loaded = c /\ t.update = <<>> /\ t.late = <<put>>
        BY <2>1 DEF Session
      <3> HIDE DEF t
      <3>3. SessionAnswers(o)'
        <4>1. session'[o] = t
          BY <3>1 DEF AnswersInv, SessionTypeOK
        <4>2. AnswersAt(c)
          BY <2>3 DEF AnswersAt, AllAt
        <4>3. c = put.checkpoint
          BY DEF c
        <4>4. t.late # <<>> /\ t.late[1].checkpoint = c
          BY <3>2, <4>3
        <4>5. Unanswered(t.update) /\ Unanswered(t.late)
          BY <2>3, <3>2, <4>4 DEF Unanswered
        <4>6. QED
          BY <3>2, <4>1, <4>2, <4>4, <4>5 DEF SessionAnswers
      <3>4. ASSUME NEW p \in Owner, p # o PROVE SessionAnswers(p)'
        BY <2>6, <3>1, <3>4 DEF AnswersInv, SessionTypeOK, SessionAnswers, InSession
      <3>5. QED
        BY <2>4, <2>6, <3>3, <3>4 DEF AnswersInv, AnswersAt
    <2>7. QED
      BY <1>11, <2>5, <2>6 DEF Save
  <1>12. ASSUME NEW o \in Owner, SaveLate(o) PROVE AnswersInv'
    <2> DEFINE s == session[o]
               c == s.late[1].checkpoint
               t == [s EXCEPT !.late = <<>>]
    <2>1. InSession(o) /\ s \in Session /\ s.run \in Run /\ s.late # <<>>
      BY <1>1, <1>12 DEF SaveLate
    <2>2. s.late[1] \in LatePut
      BY <2>1, FieldsOfSession
    <2>3. /\ c \in Checkpoint /\ c.given = <<>> /\ c.spare = <<>>
          /\ c.next = s.loaded.next
      BY <2>1, <2>2 DEF AnswersInv, SessionAnswers, Unanswered, LatePut
    <2>4. AnswersAt(c)
      BY <2>3 DEF AnswersAt, AllAt
    <2>5. /\ head' = [head EXCEPT ![s.run] = c]
          /\ latest' = [latest EXCEPT ![s.run] = {o}]
      BY <1>12 DEF SaveLate, Store
    <2>6. session' = [session EXCEPT ![o] = t]
      BY <1>12 DEF SaveLate, AnswersInv, SessionTypeOK
    <2>7. /\ t.loaded = s.loaded /\ t.run = s.run /\ t.update = s.update
          /\ t.late = <<>>
      BY <2>1 DEF Session
    <2> HIDE DEF t, c
    <2>8. SessionAnswers(o)'
      <3>1. session'[o] = t /\ head'[s.run] = c
        BY <2>1, <2>5, <2>6 DEF AnswersInv, SessionTypeOK
      <3>2. QED
        BY <2>1, <2>3, <2>7, <3>1 DEF AnswersInv, SessionAnswers, Unanswered
    <2>9. ASSUME NEW p \in Owner, p # o PROVE SessionAnswers(p)'
      <3>1. session'[p] = session[p]
        BY <2>6, <2>9 DEF AnswersInv, SessionTypeOK
      <3>2. InSession(p) => session[p].run \in Run
        BY <1>1
      <3>3. InSession(p) =>
              \/ p \notin latest'[session[p].run]
              \/ /\ head'[session[p].run] = head[session[p].run]
                 /\ latest'[session[p].run] = latest[session[p].run]
        BY <2>1, <2>5, <2>9, <3>2 DEF AnswersInv, SessionTypeOK
      <3>4. QED
        BY <3>1, <3>3, OtherSession DEF AnswersInv
    <2>10. EffectIsApproved'
      BY <1>10, <1>12, <2>1 DEF SaveLate, AnswersInv, EffectIsApproved
    <2>11. \A r \in Run : AnswersAt(head[r])'
      BY <2>1, <2>4, <2>5 DEF AnswersInv, SessionTypeOK, AnswersAt
    <2>12. QED
      BY <2>8, <2>9, <2>10, <2>11 DEF AnswersInv
  <1>13. ASSUME NEW o \in Owner, NEW r \in Run, CancelRun(o, r) PROVE AnswersInv'
    <2> DEFINE c == [head[r] EXCEPT
                  !.next = IF head[r].next \in {"pull_request_node", "end"}
                           THEN "end" ELSE "stop_run",
                  !.cancel = TRUE, !.asked = "none", !.given = <<>>, !.spare = <<>>]
    <2>1. c.given = <<>> /\ c.spare = <<>>
      BY DEF AnswersInv, SessionTypeOK, Checkpoint
    <2>2. /\ head' = [head EXCEPT ![r] = c] /\ UNCHANGED session
          /\ latest' = [latest EXCEPT ![r] = {}]
      BY <1>13 DEF CancelRun
    <2>3. AnswersAt(c)
      BY <2>1 DEF AnswersAt, AllAt
    <2> HIDE DEF c
    <2>4. EffectIsApproved'
      BY <1>13 DEF CancelRun, AnswersInv, EffectIsApproved, SessionTypeOK, History
    <2>5. ASSUME NEW p \in Owner PROVE SessionAnswers(p)'
      <3>1. InSession(p) =>
              \/ p \notin latest'[session[p].run]
              \/ /\ head'[session[p].run] = head[session[p].run]
                 /\ latest'[session[p].run] = latest[session[p].run]
        BY <1>1, <2>2 DEF AnswersInv, SessionTypeOK
      <3>2. QED
        BY <2>2, <3>1, OtherSession DEF AnswersInv
    <2>6. \A q \in Run : AnswersAt(head[q])'
      BY <2>2, <2>3 DEF AnswersInv, SessionTypeOK, AnswersAt
    <2>7. QED
      BY <2>4, <2>5, <2>6 DEF AnswersInv
  <1>14. ASSUME NEW o \in Owner, NEW r \in Run, ReleaseCancelled(o, r)
         PROVE  AnswersInv'
    BY <1>10, <1>14 DEF ReleaseCancelled, AnswersInv, SessionAnswers, InSession,
                        AnswersAt, EffectIsApproved
  <1>15. ASSUME NEW o \in Owner, Die(o) PROVE AnswersInv'
    <2>1. /\ session' = [session EXCEPT ![o] = NoSession]
          /\ latest' = [r \in Run |-> latest[r] \ {o}] /\ UNCHANGED <<head, history>>
      BY <1>15 DEF Die
    <2>2. ~InSession(o)' /\ \A p \in Owner \ {o} : session'[p] = session[p]
      BY <2>1 DEF InSession, AnswersInv, SessionTypeOK
    <2>3. /\ \A r \in Run : AnswersAt(head[r])'
          /\ \A r \in Run : latest'[r] \subseteq latest[r]
          /\ EffectIsApproved'
      BY <2>1 DEF AnswersInv, SessionTypeOK, AnswersAt, EffectIsApproved
    <2>4. QED
      BY <2>1, <2>2, <2>3, SameAnswers
  <1>16. CASE UNCHANGED <<head, latest, session, history>>
    BY <1>16 DEF AnswersInv, SessionAnswers, InSession, AnswersAt, EffectIsApproved
  <1>17. QED
    BY <1>2, <1>3, <1>4, <1>5, <1>6, <1>7, <1>8, <1>9, <1>11, <1>12, <1>13, <1>14,
       <1>15, <1>16
    DEF SessionNext, SessionStep, Leave, TimePasses, LoseCommit, allVars, sessionVars

LEMMA AnswersInvariant == SessionSpec => []AnswersInv
  <1>1. SessionInit /\ SessionTypeOK => AnswersInv
    BY DEF SessionInit, AnswersInv, AnswersAt, AllAt, Input, SessionAnswers,
           InSession, EffectIsApproved
  <1>2. AnswersInv /\ SessionTypeOK' /\ [SessionNext]_allVars => AnswersInv'
    BY AnswersStep
  <1>3. QED
    BY <1>1, <1>2, SessionTypes, PTL DEF SessionSpec

(* No answer of the operator is used for another node's side effect, for   *)
(* any number of processes, runs and recoveries.                           *)
THEOREM AnswersAreUsedWhereGiven == SessionSpec => []EffectIsApproved
  <1>1. AnswersInv => EffectIsApproved
    BY DEF AnswersInv
  <1>2. QED
    BY <1>1, AnswersInvariant, PTL
-----------------------------------------------------------------------------
(* What a step does to checkpoints and sessions, for the invariants below. *)
Others(o) == \A p \in Owner \ {o} : session'[p] = session[p]
SameRuns(r) == \A q \in Run \ {r} : head'[q] = head[q] /\ latest'[q] = latest[q]
InCall(o) == pc[o] \in {"node", "put", "putFinal"}
Moves(o) == \A p \in Owner \ {o} : pc'[p] = pc[p] /\ granted'[p] = granted[p]

(* b is c, but for the answers kept beside it.                             *)
Alike(c, b) ==
  /\ c.next = b.next /\ c.committed = b.committed /\ c.cancel = b.cancel
  /\ c.reconciled = b.reconciled

(* An invocation begins.                                                   *)
Began(o, r) ==
  /\ ~InSession(o) /\ Others(o) /\ SameRuns(r)
  /\ Alike(head'[r], head[r]) /\ head'[r].asked = head[r].asked
  /\ latest'[r] = latest[r] \cup {o}
  /\ session'[o].run = r /\ session'[o].loaded = head'[r]
  /\ session'[o].update = <<>> /\ session'[o].late = <<>>
  /\ pc'[o] = "idle" /\ Moves(o)
  /\ UNCHANGED <<leases, granted, sweptLive, repo, history>>

(* A checkpoint is put and is the latest.                                  *)
Stored(o, c) ==
  LET r == session[o].run IN
  /\ InSession(o) /\ Others(o) /\ SameRuns(r)
  /\ head'[r] = c /\ latest'[r] = {o}
  /\ InSession(o)' =>
       /\ session'[o].run = r /\ session'[o].loaded = c
       /\ session'[o].update = <<>> /\ session'[o].late = <<>>
  /\ pc'[o] = "idle" /\ Moves(o) /\ UNCHANGED <<sweptLive, repo>>

(* A checkpoint is to be put later, and the session goes on from it.       *)
Deferred(o) ==
  LET s == session[o]  c == s.update[1].checkpoint IN
  /\ InSession(o) /\ s.update # <<>> /\ Others(o)
  /\ s.update[1].status \in TerminalRunStatuses /\ c.next # "end"
  /\ session'[o].run = s.run /\ session'[o].loaded = c
  /\ session'[o].update = <<>> /\ session'[o].late = <<s.update[1]>>
  /\ pc'[o] = "idle" /\ Moves(o)
  /\ UNCHANGED <<head, latest, leases, granted, sweptLive, repo, history>>

(* It is put.                                                              *)
LateStored(o) ==
  LET s == session[o]  r == s.run  c == s.late[1].checkpoint IN
  /\ InSession(o) /\ s.late # <<>> /\ Others(o) /\ SameRuns(r)
  /\ head'[r] = c /\ latest'[r] = {o}
  /\ session'[o].run = r /\ session'[o].loaded = s.loaded
  /\ session'[o].count = s.count /\ session'[o].update = s.update
  /\ session'[o].late = <<>> /\ granted'[o][r] = 0
  /\ Moves(o) /\ UNCHANGED <<pc, sweptLive, repo>>

(* A node returns an update.                                               *)
Answered(o, put) ==
  LET s == session[o] IN
  /\ InSession(o) /\ InCall(o) /\ Others(o)
  /\ session'[o].run = s.run /\ session'[o].loaded = s.loaded
  /\ session'[o].count = s.count /\ session'[o].late = s.late
  /\ session'[o].update = <<put>>
  /\ Moves(o) /\ UNCHANGED <<head, latest, leases, sweptLive>>

(* A session enters a node, under the lease.                               *)
Entered(o) ==
  LET s == session[o] IN
  /\ InSession(o) /\ s.update = <<>> /\ Enter(o) /\ Others(o)
  /\ session'[o].run = s.run /\ session'[o].loaded = s.loaded
  /\ session'[o].late = s.late /\ session'[o].update = <<>>
  /\ session'[o].count = RecoveryCount(s.run) + IF Recovered(o, s.run) THEN 1 ELSE 0
  /\ pc'[o] = "node" /\ Moves(o) /\ UNCHANGED <<head, latest, sweptLive, repo>>

(* A session ends, at a question or because its process is killed.         *)
Ended(o) ==
  /\ ~InSession(o)' /\ Others(o)
  /\ \A r \in Run : latest'[r] \subseteq latest[r] /\ Alike(head'[r], head[r])
  /\ Moves(o) /\ UNCHANGED <<sweptLive, repo, history>>

(* A run is cancelled.                                                     *)
CancelledBy(o, r) ==
  LET c == head'[r] IN
  /\ ~InSession(o) /\ SameRuns(r) /\ latest'[r] = {}
  /\ c.cancel /\ c.asked = "none" /\ c.next \in {"stop_run", "end"}
  /\ c.committed = head[r].committed /\ c.reconciled = head[r].reconciled
  /\ UNCHANGED <<session, pc, leases, granted, sweptLive, repo>>

LEMMA SessionFields ==
  ASSUME SessionTypeOK, NEW o \in Owner, InSession(o)
  PROVE  /\ session[o] \in Session /\ session[o].run \in Run
         /\ session[o].loaded \in Checkpoint
         /\ session[o].update # <<>> =>
              /\ session[o].update[1].checkpoint \in Checkpoint
              /\ session[o].update[1].status \in SessionStatus
         /\ session[o].late # <<>> =>
              /\ session[o].late[1].checkpoint \in Checkpoint
              /\ session[o].late[1].status \in TerminalRunStatuses
  <1>1. session[o] \in Session
    BY DEF SessionTypeOK
  <1>2. session[o].update # <<>> => session[o].update[1] \in Put
    BY <1>1, FieldsOfSession
  <1>3. session[o].late # <<>> => session[o].late[1] \in LatePut
    BY <1>1, FieldsOfSession
  <1> QED BY <1>1, <1>2, <1>3, FieldsOfSession DEF Put, LatePut

(* The checkpoint after a node is that of the node, but for where it goes. *)
LEMMA FollowingIs ==
  ASSUME NEW c \in Checkpoint, NEW status \in SessionStatus,
         NEW d, d = Following(c, status)
  PROVE  /\ d \in Checkpoint /\ d.next = After(c.next, status) /\ d.asked = "none"
         /\ d.committed = c.committed /\ d.cancel = c.cancel
         /\ d.reconciled = c.reconciled
  <1>1. After(c.next, status) \in Node /\ <<>> \in Seq(Answer)
    BY AfterType DEF Checkpoint
  <1> QED BY <1>1 DEF Following, Checkpoint

LEMMA ContinueIs ==
  ASSUME SessionTypeOK, NEW o \in Owner, InSession(o), NEW c, NEW late,
         Continue(o, c, late)
  PROVE  /\ Others(o)
         /\ c.next # "end" \/ InSession(o)' =>
              /\ session'[o].run = session[o].run /\ session'[o].loaded = c
              /\ session'[o].update = <<>> /\ session'[o].late = late
  <1>1. session[o] \in Session
    BY DEF SessionTypeOK
  <1>2. CASE c.next = "end"
    BY <1>2 DEF Continue, SessionTypeOK, Others, InSession
  <1>3. CASE c.next # "end"
    <2>1. session' = [session EXCEPT ![o] = [session[o] EXCEPT !.loaded = c,
              !.recovered = FALSE, !.update = <<>>, !.late = late]]
      BY <1>3 DEF Continue, SessionTypeOK
    <2> QED BY <1>1, <2>1 DEF SessionTypeOK, Others, Session
  <1> QED BY <1>2, <1>3

LEMMA BeginCases ==
  ASSUME TypeOK, SessionTypeOK, NEW o \in Owner, NEW r \in Run,
         Invoke(o, r) \/ \E value \in {"approve", "reject"} : Resume(o, r, value)
  PROVE  Began(o, r)
  <1>1. PICK spare : Begin(o, r, spare)
    BY DEF Invoke, Resume
  <1>2. pc'[o] = "idle" /\ Moves(o) /\ UNCHANGED <<leases, granted, sweptLive>>
    BY DEF Invoke, Resume, Begin, PutWrites, vars, tables, process, Moves
  <1> DEFINE c == [head[r] EXCEPT !.spare = spare]
  <1>3. head' = [head EXCEPT ![r] = c] /\ head[r] \in Checkpoint
    BY <1>1 DEF Begin, SessionTypeOK
  <1>4. Alike(c, head[r]) /\ c.asked = head[r].asked
    BY <1>3 DEF Checkpoint, Alike
  <1> HIDE DEF c
  <1>5. head'[r] = c /\ \A q \in Run \ {r} : head'[q] = head[q]
    BY <1>3 DEF SessionTypeOK
  <1>6. /\ ~InSession(o) /\ UNCHANGED <<repo, history>>
        /\ latest' = [latest EXCEPT ![r] = @ \cup {o}]
        /\ session' = [session EXCEPT ![o] =
             [run |-> r, loaded |-> head'[r], count |-> 0, recovered |-> FALSE,
              update |-> <<>>, late |-> <<>>]]
    BY <1>1 DEF Begin
  <1> QED BY <1>2, <1>4, <1>5, <1>6 DEF Began, Others, SameRuns, SessionTypeOK

LEMMA RefusedIs ==
  ASSUME TypeOK, SessionTypeOK, NEW o \in Owner, Refused(o)
  PROVE  LET s == session[o] IN
         /\ Stored(o, Following(s.loaded, "run_locked")) /\ s.late = <<>>
         /\ Blocked(o, s.run) /\ UNCHANGED <<pc, leases, granted, history>>
  <1> DEFINE s == session[o]
             c == Following(s.loaded, "run_locked")
  <1>1. /\ InSession(o) /\ s.late = <<>> /\ AcquireBusy(o, s.run)
        /\ Store(o, s.run, c) /\ Continue(o, c, <<>>) /\ UNCHANGED <<repo, history>>
    BY DEF Refused, Between
  <1>2. s.run \in Run /\ s.loaded \in Checkpoint /\ "run_locked" \in SessionStatus
    BY <1>1, SessionFields DEF SessionStatus
  <1> HIDE DEF c
  <1>4. /\ Others(o)
        /\ InSession(o)' =>
             /\ session'[o].run = s.run /\ session'[o].loaded = c
             /\ session'[o].update = <<>> /\ session'[o].late = <<>>
    BY <1>1, ContinueIs
  <1>5. /\ Blocked(o, s.run) /\ pc[o] = "idle"
        /\ UNCHANGED <<pc, leases, granted, sweptLive>>
    BY <1>1 DEF AcquireBusy, tables, process
  <1>6. head'[s.run] = c /\ latest'[s.run] = {o} /\ SameRuns(s.run)
    BY <1>1, <1>2 DEF Store, SameRuns, SessionTypeOK
  <1>7. Stored(o, c)
    BY <1>1, <1>4, <1>5, <1>6 DEF Stored, Moves
  <1> QED BY <1>1, <1>5, <1>7 DEF c
(* What a step does to the rows and to what is remembered of them: it      *)
(* keeps both, or releases a lease, after which recoveries count anew.     *)
SameRow(r) ==
  /\ leases'[r] # NoRow <=> HasLease(r)
  /\ HasLease(r) => /\ leases'[r].owner = leases[r].owner
                   /\ leases'[r].recoveries = leases[r].recoveries
Remembers ==
  /\ history'.recounted = history.recounted /\ history'.doubt = history.doubt
  /\ \A r \in Run : SameRow(r)
Forgets(r) ==
  /\ history'.recounted = history.recounted \cup {r}
  /\ history'.doubt = history.doubt \ {r}
  /\ leases'[r] = NoRow /\ \A q \in Run \ {r} : SameRow(q)
Acts ==
  /\ history'.stopped = history.stopped /\ history'.afterStop = history.afterStop
  /\ history'.unreviewed = history.unreviewed

LEMMA SameLeases == UNCHANGED leases => \A r \in Run : SameRow(r)
  BY DEF SameRow, HasLease

LEMMA ExtendedRow ==
  ASSUME TypeOK, NEW r \in Run, HasLease(r), leases' = [leases EXCEPT ![r].ttl = TTL]
  PROVE  \A q \in Run : SameRow(q)
  <1>1. leases[r] \in Lease /\ NoRow \notin Lease
    BY ConstantsOK DEF TypeOK, HasLease
  <1>2. [leases[r] EXCEPT !.ttl = TTL] \in Lease
    BY <1>1, ConstantsOK DEF Lease
  <1> QED BY <1>1, <1>2 DEF SameRow, HasLease, TypeOK, Lease

LEMMA ReleaseIs ==
  ASSUME TypeOK, SessionTypeOK, NEW o \in Owner, NEW r \in Run, NEW status,
         Release(o, r, status), history' = Freed(o, r)
  PROVE  (Remembers \/ Forgets(r)) /\ Acts
  <1>1. CASE Owns(o, r)
    <2>1. leases' = [leases EXCEPT ![r] = NoRow]
      BY <1>1 DEF Release
    <2>2. history' = [history EXCEPT !.recounted = @ \cup {r}, !.doubt = @ \ {r}]
      BY <1>1 DEF Freed
    <2> QED BY <2>1, <2>2
            DEF Forgets, Acts, SameRow, HasLease, TypeOK, SessionTypeOK, History
  <1>2. CASE ~Owns(o, r)
    BY <1>2, SameLeases DEF Release, Freed, tables, Remembers, Acts
  <1> QED BY <1>1, <1>2

LEMMA ReleaseGrants ==
  ASSUME TypeOK, NEW o \in Owner, NEW r \in Run, NEW status, Release(o, r, status)
  PROVE  /\ granted'[o][r] = 0
         /\ \A p \in Owner \ {o} : granted'[p] = granted[p]
  <1>1. granted' = [granted EXCEPT ![o][r] = 0]
    BY DEF Release
  <1> QED BY <1>1 DEF TypeOK

LEMMA SaveCases ==
  ASSUME TypeOK, SessionTypeOK, NEW o \in Owner, Save(o)
  PROVE  LET s == session[o]  put == s.update[1] IN
         /\ s.update # <<>> /\ InSession(o)
         /\ Deferred(o) \/ Stored(o, put.checkpoint)
         /\ (Remembers \/ Forgets(s.run)) /\ Acts
  <1> DEFINE s == session[o]
             put == s.update[1]
             c == put.checkpoint
  <1>1. InSession(o) /\ s.update # <<>> /\ s.run \in Run
    BY SessionFields DEF Save
  <1>2. CASE /\ IF put.status \in TerminalRunStatuses
                  THEN PutTerminal(o, s.run, put.status) ELSE PutOpen(o, s.run)
             /\ Store(o, s.run, c) /\ Continue(o, c, <<>>) /\ UNCHANGED repo
             /\ history' = IF put.status \in TerminalRunStatuses
                           THEN Freed(o, s.run) ELSE history
    <2>1. (Remembers \/ Forgets(s.run)) /\ Acts
      <3>1. CASE put.status \in TerminalRunStatuses
        BY <1>1, <1>2, <3>1, ReleaseIs DEF PutTerminal
      <3>2. CASE put.status \notin TerminalRunStatuses
        BY <1>2, <3>2, SameLeases DEF PutOpen, tables, Remembers, Acts
      <3> QED BY <3>1, <3>2
    <2>2. pc'[o] = "idle" /\ Moves(o) /\ UNCHANGED sweptLive
      BY <1>1, <1>2, ReleaseGrants DEF PutTerminal, PutOpen, Goto, Moves, TypeOK
    <2> HIDE DEF c
    <2>3. /\ Others(o)
          /\ InSession(o)' =>
               /\ session'[o].run = s.run /\ session'[o].loaded = c
               /\ session'[o].update = <<>> /\ session'[o].late = <<>>
      BY <1>1, <1>2, ContinueIs
    <2>4. head'[s.run] = c /\ latest'[s.run] = {o} /\ SameRuns(s.run)
      BY <1>1, <1>2 DEF Store, SameRuns, SessionTypeOK
    <2>5. Stored(o, c)
      BY <1>1, <1>2, <2>2, <2>3, <2>4 DEF Stored
    <2> QED BY <1>1, <2>1, <2>5 DEF c
  <1>3. CASE /\ put.status \in TerminalRunStatuses /\ c.next # "end"
             /\ PutLater(o, s.run) /\ Continue(o, c, <<put>>)
             /\ UNCHANGED <<head, latest, history, repo>>
    <2>1. /\ pc'[o] = "idle" /\ Moves(o)
          /\ UNCHANGED <<leases, granted, sweptLive>>
      BY <1>3 DEF PutLater, Goto, Moves, TypeOK, tables
    <2>2. /\ Others(o)
          /\ session'[o].run = s.run /\ session'[o].loaded = c
          /\ session'[o].update = <<>> /\ session'[o].late = <<put>>
      BY <1>1, <1>3, ContinueIs
    <2>3. Deferred(o)
      BY <1>1, <1>3, <2>1, <2>2 DEF Deferred
    <2> QED BY <1>1, <1>3, <2>1, <2>3, SameLeases DEF Remembers, Acts
  <1> QED BY <1>1, <1>2, <1>3 DEF Save

LEMMA SaveLateIs ==
  ASSUME TypeOK, SessionTypeOK, NEW o \in Owner, SaveLate(o)
  PROVE  LateStored(o) /\ (Remembers \/ Forgets(session[o].run)) /\ Acts
  <1> DEFINE s == session[o]
             c == s.late[1].checkpoint
             t == [s EXCEPT !.late = <<>>]
  <1>1. InSession(o) /\ s.late # <<>> /\ s \in Session /\ s.run \in Run
    BY SessionFields DEF SaveLate
  <1>2. (Remembers \/ Forgets(s.run)) /\ Acts
    BY <1>1, ReleaseIs DEF SaveLate, PutPending
  <1>3. UNCHANGED <<pc, sweptLive, repo>> /\ Moves(o) /\ granted'[o][s.run] = 0
    BY <1>1, ReleaseGrants DEF SaveLate, PutPending, process, Moves
  <1>4. session' = [session EXCEPT ![o] = t]
    BY DEF SaveLate, SessionTypeOK
  <1>5. /\ t.run = s.run /\ t.loaded = s.loaded /\ t.count = s.count
        /\ t.update = s.update /\ t.late = <<>>
    BY <1>1 DEF Session
  <1> HIDE DEF t
  <1>6. session'[o] = t /\ Others(o)
    BY <1>4 DEF SessionTypeOK, Others
  <1>7. head'[s.run] = c /\ latest'[s.run] = {o} /\ SameRuns(s.run)
    BY <1>1 DEF SaveLate, Store, SameRuns, SessionTypeOK
  <1> QED BY <1>1, <1>2, <1>3, <1>5, <1>6, <1>7 DEF LateStored

LEMMA ReleaseCancelledIs ==
  ASSUME TypeOK, SessionTypeOK, NEW o \in Owner, NEW r \in Run, ReleaseCancelled(o, r)
  PROVE  /\ (Remembers \/ Forgets(r)) /\ Acts
         /\ ~InSession(o) /\ Moves(o)
         /\ UNCHANGED <<head, latest, session, repo, pc, sweptLive>>
  <1>1. /\ Release(o, r, "cancelled") /\ history' = Freed(o, r) /\ ~InSession(o)
        /\ UNCHANGED <<head, latest, session, repo, pc, sweptLive>>
    BY DEF ReleaseCancelled, PutPending, process
  <1>2. Moves(o)
    BY <1>1, ReleaseGrants DEF Moves
  <1> QED BY <1>1, <1>2, ReleaseIs

(* An update is put into a session in one of three ways.                   *)
LEMMA AnsweredIs ==
  ASSUME TypeOK, SessionTypeOK, NEW o \in Owner, NEW put, InSession(o), InCall(o),
         session' = [session EXCEPT ![o].update = <<put>>], Moves(o),
         UNCHANGED <<head, latest, leases, sweptLive>>
  PROVE  Answered(o, put)
  <1> DEFINE s == session[o]
             t == [s EXCEPT !.update = <<put>>]
  <1>1. s \in Session
    BY SessionFields
  <1>2. session' = [session EXCEPT ![o] = t]
    BY DEF SessionTypeOK
  <1>3. /\ t.run = s.run /\ t.loaded = s.loaded /\ t.count = s.count
        /\ t.late = s.late /\ t.update = <<put>>
    BY <1>1 DEF Session
  <1> HIDE DEF t
  <1>4. session'[o] = t /\ Others(o)
    BY <1>2 DEF SessionTypeOK, Others
  <1> QED BY <1>3, <1>4 DEF Answered

LEMMA StopIs ==
  ASSUME TypeOK, SessionTypeOK, NEW o \in Owner, Stop(o)
  PROVE  LET s == session[o] IN
         /\ Answered(o, [checkpoint |-> Following(s.loaded, "cancelled"),
                         status |-> "cancelled"])
         /\ s.loaded.cancel /\ pc'[o] = "putFinal" /\ s.run \in Run
         /\ UNCHANGED <<granted, repo, history>>
  <1> DEFINE s == session[o]
  <1>1. /\ InSession(o) /\ InCall(o) /\ s.loaded.cancel /\ s.run \in Run
    BY SessionFields DEF Stop, InNode, Between, InCall
  <1>2. /\ pc'[o] = "putFinal" /\ Moves(o)
        /\ UNCHANGED <<leases, granted, sweptLive, head, latest, repo, history>>
    BY DEF Stop, StopEarly, Goto, Moves, TypeOK, tables
  <1> QED BY <1>1, <1>2, AnsweredIs DEF Stop

LEMMA ReturnIs ==
  ASSUME TypeOK, SessionTypeOK, NEW o \in Owner, Return(o)
  PROVE  LET s == session[o]
             put == [checkpoint |-> [s.update[1].checkpoint EXCEPT
                                       !.next = After(s.loaded.next, "failed")],
                     status |-> "failed"]
         IN  /\ InSession(o) /\ s.update # <<>> /\ pc[o] = "node"
             /\ Remembers /\ Moves(o)
             /\ UNCHANGED <<head, latest, sweptLive, repo, history>>
             /\ \/ UNCHANGED session /\ pc'[o] = "put"
                \/ /\ Answered(o, put)
                   /\ pc'[o] = "putFinal" /\ granted'[o][s.run] = 0
  <1> DEFINE s == session[o]
             put == [checkpoint |-> [s.update[1].checkpoint EXCEPT
                                       !.next = After(s.loaded.next, "failed")],
                     status |-> "failed"]
  <1>1. /\ InSession(o) /\ s.update # <<>> /\ s.run \in Run /\ pc[o] = "node"
        /\ InCall(o) /\ UNCHANGED <<head, latest, repo, history>>
    BY SessionFields DEF Return, InCall
  <1>2. CASE Heartbeat(o, s.run) /\ UNCHANGED session
    <2>1. leases' = [leases EXCEPT ![s.run].ttl = TTL] /\ HasLease(s.run)
      BY <1>2 DEF Heartbeat, Owns
    <2>2. \A q \in Run : SameRow(q)
      BY <1>1, <2>1, ExtendedRow
    <2>3. pc'[o] = "put" /\ Moves(o) /\ UNCHANGED sweptLive
      BY <1>2 DEF Heartbeat, Goto, Moves, TypeOK
    <2> QED BY <1>1, <1>2, <2>2, <2>3 DEF Remembers
  <1>3. CASE /\ HeartbeatLost(o, s.run)
             /\ session' = [session EXCEPT ![o].update =
                  <<[checkpoint |-> [@[1].checkpoint EXCEPT
                                       !.next = After(s.loaded.next, "failed")],
                     status |-> "failed"]>>]
    <2>1. /\ pc'[o] = "putFinal" /\ Moves(o) /\ granted'[o][s.run] = 0
          /\ UNCHANGED <<leases, sweptLive>>
      BY <1>1, <1>3 DEF HeartbeatLost, Goto, Moves, TypeOK, tables
    <2>2. session' = [session EXCEPT ![o].update = <<put>>]
      BY <1>3 DEF SessionTypeOK
    <2> HIDE DEF put
    <2>3. Answered(o, put)
      BY <1>1, <2>1, <2>2, AnsweredIs
    <2> QED BY <1>1, <2>1, <2>3, SameLeases DEF Remembers, put
  <1> QED BY <1>1, <1>2, <1>3 DEF Return

Quiet == {"planning", "building", "failed_run"}

(* What a node that ran to its end leaves behind: the checkpoint c of its  *)
(* update, the worktree, and what is remembered.                           *)
Worked(o, put) ==
  LET s == session[o]  r == s.run  c == put.checkpoint
      reviews == Reconciles(s) /\ Mismatch(s)
  IN
  /\ Answered(o, put) /\ ~s.loaded.cancel /\ pc[o] = "node"
  /\ UNCHANGED <<pc, granted>>
  /\ ~c.cancel /\ c.asked = "none"
  /\ c.reconciled = IF Reconciles(s) THEN s.count ELSE s.loaded.reconciled
  /\ c.committed =>
       \/ s.loaded.committed
       \/ s.loaded.next = "commit_item" /\ r \notin history'.doubt
  /\ c.next \in Quiet => s.loaded.next \in Quiet
  /\ put.status = "failed" => s.loaded.next = "failed_run"
  /\ put.status \in TerminalRunStatuses /\ c.next # "end" => s.loaded.next \in Quiet
  /\ \A q \in Run : repo'[q].commit = repo[q].commit \/ (q = r /\ r \notin history'.doubt)
  /\ history'.recounted = history.recounted /\ history'.stopped = history.stopped
  /\ history'.doubt \subseteq history.doubt
  /\ r \in history'.doubt => ~reviews
  /\ r \notin history.stopped => history'.afterStop = history.afterStop
  /\ history'.unreviewed # history.unreviewed =>
       /\ s.loaded.committed /\ granted[o][r] > 0
       /\ r \in history.doubt /\ ~reviews

(* The question about a recovery is asked first, and no other is it.       *)
LEMMA RecoveryFirst ==
  ASSUME NEW questions \in Seq(Question), NEW review \in BOOLEAN,
         NEW all, all = (IF review THEN <<"recovery">> ELSE <<>>) \o questions
  PROVE  review => all # <<>> /\ all[1] = "recovery"
  <1>1. CASE review
    <2>1. <<"recovery">> \in Seq(Question)
      BY DEF Question
    <2>2. all \in Seq(Question) /\ Len(all) = 1 + Len(questions) /\ Len(questions) \in Nat
      BY <1>1, <2>1
    <2>3. all[1] = "recovery"
      BY <1>1, <2>1
    <2> QED BY <2>2, <2>3
  <1> QED BY <1>1

(* What is remembered of a node that ran.                                  *)
LEMMA ReviewedIs ==
  ASSUME SessionTypeOK, NEW o \in Owner, InSession(o),
         history' = Reviewed(session[o])
  PROVE  LET s == session[o] IN
         /\ history'.recounted = history.recounted /\ history'.stopped = history.stopped
         /\ history'.doubt \subseteq history.doubt
         /\ s.run \in history'.doubt => ~(Reconciles(s) /\ Mismatch(s))
         /\ history'.afterStop = history.afterStop
         /\ history'.unreviewed = history.unreviewed
  <1> DEFINE s == session[o]
  <1>1. history \in History
    BY DEF SessionTypeOK
  <1>2. CASE Reconciles(s) /\ Mismatch(s)
    <2>1. Questions(s) # <<>> /\ Questions(s)[1] = "recovery"
      BY <1>2, AskedOnce, RecoveryFirst DEF Questions
    <2>2. history' = [history EXCEPT !.doubt = @ \ {s.run}]
      BY <2>1 DEF Reviewed
    <2> QED BY <1>1, <2>2 DEF History
  <1>3. CASE ~(Reconciles(s) /\ Mismatch(s))
    BY <1>1, <1>3 DEF Reviewed, History
  <1> QED BY <1>2, <1>3

LEMMA ActedIs ==
  ASSUME SessionTypeOK, NEW o \in Owner, InSession(o), NEW answer,
         history' = Acted(o, session[o], answer)
  PROVE  LET s == session[o] IN
         /\ history'.recounted = history.recounted /\ history'.stopped = history.stopped
         /\ history'.doubt \subseteq history.doubt
         /\ s.run \in history'.doubt => ~(Reconciles(s) /\ Mismatch(s))
         /\ s.loaded.next = "commit_item" => s.run \notin history'.doubt
         /\ s.run \notin history.stopped => history'.afterStop = history.afterStop
         /\ history'.unreviewed # history.unreviewed =>
              /\ s.loaded.committed /\ granted[o][s.run] > 0
              /\ s.run \in history.doubt /\ ~(Reconciles(s) /\ Mismatch(s))
  <1> DEFINE s == session[o]
             h == Reviewed(s)
  <1>1. history \in History
    BY DEF SessionTypeOK
  <1>2. /\ h \in History /\ h.recounted = history.recounted
        /\ h.stopped = history.stopped /\ h.doubt \subseteq history.doubt
        /\ h.afterStop = history.afterStop /\ h.unreviewed = history.unreviewed
    BY <1>1 DEF Reviewed, History
  <1>3. s.run \in h.doubt => ~(Reconciles(s) /\ Mismatch(s))
    <2>1. CASE Reconciles(s) /\ Mismatch(s)
      <3>1. Questions(s) # <<>> /\ Questions(s)[1] = "recovery"
        BY <2>1, AskedOnce, RecoveryFirst DEF Questions
      <3>2. h = [history EXCEPT !.doubt = @ \ {s.run}]
        BY <3>1 DEF Reviewed
      <3> QED BY <1>1, <3>2 DEF History
    <2> QED BY <2>1
  <1> HIDE DEF h
  <1> DEFINE doubt == IF s.loaded.next = "commit_item" THEN h.doubt \ {s.run} ELSE h.doubt
             unreviewed == h.unreviewed \cup
                             IF s.loaded.committed /\ granted[o][s.run] > 0
                             THEN {s.run} \cap h.doubt ELSE {}
             afterStop == h.afterStop \cup ({s.run} \cap history.stopped)
  <1>4. /\ history'.recounted = h.recounted /\ history'.stopped = h.stopped
        /\ history'.doubt = doubt /\ history'.unreviewed = unreviewed
        /\ history'.afterStop = afterStop
    BY <1>2 DEF Acted, History, h
  <1> QED BY <1>2, <1>3, <1>4

LEMMA ReturnsIs ==
  ASSUME SessionTypeOK, NEW o \in Owner, InSession(o), NEW status \in SessionStatus,
         NEW committed \in BOOLEAN, Returns(o, status, committed)
  PROVE  \E put :
           /\ session' = [session EXCEPT ![o].update = <<put>>]
           /\ put.status = status
           /\ LET s == session[o]  c == put.checkpoint IN
              /\ c.cancel = s.loaded.cancel /\ c.asked = "none" /\ c.committed = committed
              /\ c.reconciled = IF Reconciles(s) THEN s.count ELSE s.loaded.reconciled
              /\ c.next = After(s.loaded.next, status)
  <1> DEFINE s == session[o]
             kept == [s.loaded EXCEPT !.committed = committed,
                        !.reconciled = IF Reconciles(s) THEN s.count ELSE @]
             c == Following(kept, status)
             put == [checkpoint |-> c, status |-> status]
  <1>1. s.loaded \in Checkpoint /\ s.count \in 0..MaxRecoveries
    BY FieldsOfSession DEF SessionTypeOK
  <1>2. /\ kept \in Checkpoint /\ kept.cancel = s.loaded.cancel
        /\ kept.committed = committed /\ kept.next = s.loaded.next
        /\ kept.reconciled = IF Reconciles(s) THEN s.count ELSE s.loaded.reconciled
    BY <1>1 DEF Checkpoint
  <1> HIDE DEF kept
  <1>3. /\ c.cancel = s.loaded.cancel /\ c.asked = "none" /\ c.committed = committed
        /\ c.reconciled = IF Reconciles(s) THEN s.count ELSE s.loaded.reconciled
        /\ c.next = After(s.loaded.next, status)
    BY <1>2, FollowingIs
  <1>4. session' = [session EXCEPT ![o].update = <<put>>]
    BY DEF Returns, kept
  <1> HIDE DEF c
  <1>5. put.checkpoint = c /\ put.status = status
    OBVIOUS
  <1> HIDE DEF put
  <1> QED BY <1>3, <1>4, <1>5

LEMMA WorkIs ==
  ASSUME TypeOK, SessionTypeOK, NEW o \in Owner, Work(o)
  PROVE  \E put : Worked(o, put)
  <1> DEFINE s == session[o]
             r == s.run
             answer == Answers(s)[Len(Questions(s))]
             Runs(status, committed) ==
               /\ status \in SessionStatus /\ committed \in BOOLEAN
               /\ Returns(o, status, committed)
               /\ committed => \/ s.loaded.committed
                               \/ s.loaded.next = "commit_item" /\ r \notin history'.doubt
               /\ After(s.loaded.next, status) \in Quiet => s.loaded.next \in Quiet
               /\ status = "failed" => s.loaded.next = "failed_run"
               /\ /\ status \in TerminalRunStatuses
                  /\ After(s.loaded.next, status) # "end"
                  => s.loaded.next \in Quiet
  <1>1. /\ InSession(o) /\ r \in Run /\ s.loaded \in Checkpoint /\ repo[r] \in Repository
        /\ s.loaded.next \in Node /\ s.loaded.committed \in BOOLEAN
    BY SessionFields DEF Work, InNode, Between, SessionTypeOK, Checkpoint
  <1>2. /\ history'.recounted = history.recounted /\ history'.stopped = history.stopped
        /\ history'.doubt \subseteq history.doubt
        /\ r \in history'.doubt => ~(Reconciles(s) /\ Mismatch(s))
        /\ r \notin history.stopped => history'.afterStop = history.afterStop
        /\ history'.unreviewed # history.unreviewed =>
             /\ s.loaded.committed /\ granted[o][r] > 0
             /\ r \in history.doubt /\ ~(Reconciles(s) /\ Mismatch(s))
    <2>1. history' = Reviewed(s) \/ history' = Acted(o, s, answer)
      BY DEF Work
    <2> HIDE DEF answer
    <2> QED BY <1>1, <2>1, ReviewedIs, ActedIs
  <1>3. /\ \E status, committed : Runs(status, committed)
        /\ \A q \in Run : \/ repo'[q].commit = repo[q].commit
                          \/ q = r /\ r \notin history'.doubt
    <2>1. CASE Plan(o, s)
      <3>1. \E status \in {"open", "complete"} : Runs(status, s.loaded.committed)
        BY <1>1, <2>1 DEF Plan, SessionStatus, TerminalRunStatuses, After, Quiet
      <3> QED BY <2>1, <3>1 DEF Plan
    <2>2. CASE Build(o, s)
      <3>1. Runs("open", s.loaded.committed)
        BY <1>1, <2>2 DEF Build, SessionStatus, TerminalRunStatuses, After, Quiet
      <3>2. \A q \in Run : repo'[q].commit = repo[q].commit
        BY <1>1, <2>2 DEF Build, SessionTypeOK, Repository
      <3> QED BY <3>1, <3>2
    <2>3. CASE Skip(o, s)
      <3>1. Runs("open", TRUE)
        BY <1>1, <2>3 DEF Skip, SessionStatus, TerminalRunStatuses, After, Quiet
      <3> QED BY <2>3, <3>1 DEF Skip
    <2>4. CASE Finish(o, s)
      <3>1. \E status \in {"failed", "run_locked"} : Runs(status, s.loaded.committed)
        BY <1>1, <2>4 DEF Finish, SessionStatus, TerminalRunStatuses, After, Quiet
      <3> QED BY <2>4, <3>1 DEF Finish
    <2>5. CASE Deny(o, s, answer)
      <3>1. Runs("approval_denied", s.loaded.committed)
        BY <1>1, <2>5 DEF Deny, SessionStatus, TerminalRunStatuses, After, Quiet
      <3> QED BY <2>5, <3>1 DEF Deny
    <2>6. CASE Commit(o, s) /\ history' = Acted(o, s, answer)
      <3>1. r \notin history'.doubt
        <4> HIDE DEF answer
        <4> QED BY <1>1, <2>6, ActedIs DEF Commit
      <3>2. Runs("open", repo[r].dirty)
        BY <1>1, <2>6, <3>1
           DEF Commit, SessionStatus, TerminalRunStatuses, After, Quiet, Repository
      <3>3. \A q \in Run \ {r} : repo'[q].commit = repo[q].commit
        BY <1>1, <2>6 DEF Commit, SessionTypeOK, Repository
      <3> QED BY <3>1, <3>2, <3>3
    <2>7. CASE HandOff(o, s)
      <3>1. \E status \in {"open", "pr_created"} : Runs(status, s.loaded.committed)
        BY <1>1, <2>7 DEF HandOff, SessionStatus, TerminalRunStatuses, After, Quiet
      <3> QED BY <2>7, <3>1 DEF HandOff
    <2> QED BY <2>1, <2>2, <2>3, <2>4, <2>5, <2>6, <2>7 DEF Work
  <1>4. PICK status, committed : Runs(status, committed)
    BY <1>3
  <1>5. PICK put :
          /\ session' = [session EXCEPT ![o].update = <<put>>]
          /\ put.status = status
          /\ put.checkpoint.cancel = s.loaded.cancel /\ put.checkpoint.asked = "none"
          /\ put.checkpoint.committed = committed
          /\ put.checkpoint.reconciled = IF Reconciles(s) THEN s.count ELSE s.loaded.reconciled
          /\ put.checkpoint.next = After(s.loaded.next, status)
    BY <1>1, <1>4, ReturnsIs
  <1>6. /\ pc[o] = "node" /\ InCall(o) /\ ~s.loaded.cancel /\ Moves(o)
        /\ UNCHANGED <<pc, granted, head, latest, leases, sweptLive>>
    BY DEF Work, InNode, InCall, Moves, vars
  <1>7. Answered(o, put)
    BY <1>1, <1>5, <1>6, AnsweredIs
  <1>8. s.loaded.cancel \in BOOLEAN
    BY <1>1 DEF Checkpoint
  <1> QED BY <1>2, <1>3, <1>4, <1>5, <1>6, <1>7, <1>8 DEF Worked

LEMMA EnterIs ==
  ASSUME TypeOK, SessionTypeOK, NEW o \in Owner, Enter(o)
  PROVE  Entered(o)
  <1> DEFINE s == session[o]
             count == RecoveryCount(s.run) + IF Recovered(o, s.run) THEN 1 ELSE 0
             t == [s EXCEPT !.recovered = Recovered(o, s.run), !.count = count]
  <1>1. InSession(o) /\ s.update = <<>> /\ s \in Session /\ s.run \in Run
    BY SessionFields DEF Enter, Between
  <1>2. /\ pc'[o] = "node" /\ Moves(o) /\ UNCHANGED <<head, latest, sweptLive, repo>>
    BY DEF Enter, Acquire, Goto, Moves, TypeOK
  <1>3. session' = [session EXCEPT ![o] = t]
    BY DEF Enter, SessionTypeOK
  <1> HIDE DEF count
  <1>4. /\ t.run = s.run /\ t.loaded = s.loaded /\ t.late = s.late
        /\ t.update = s.update /\ t.count = count
    BY <1>1 DEF Session
  <1> HIDE DEF t
  <1>5. session'[o] = t /\ Others(o)
    BY <1>3 DEF SessionTypeOK, Others
  <1> QED BY <1>1, <1>2, <1>4, <1>5 DEF Entered, count

(* A node that pauses asks a question.                                     *)
LEMMA NextQuestion ==
  ASSUME SessionTypeOK, NEW o \in Owner, InSession(o),
         Len(Answers(session[o])) < Len(Questions(session[o]))
  PROVE  Questions(session[o])[Len(Answers(session[o])) + 1] \in Question
  <1> DEFINE s == session[o]
  <1>1. Answers(s) \in Seq(Answer)
    BY SessionFields, Concatenation DEF Answers, Checkpoint
  <1>2. Questions(s) \in Seq(Question)
    BY AskedOnce, RecoveryAskedFirst DEF Questions
  <1>3. Len(Answers(s)) + 1 \in 1..Len(Questions(s))
    BY <1>1, <1>2
  <1> QED BY <1>2, <1>3

(* What a pause asks at a checkpoint, and keeps beside it.                 *)
LEMMA PauseIs ==
  ASSUME TypeOK, SessionTypeOK, NEW o \in Owner, Pause(o)
  PROVE  LET s == session[o] IN
         /\ Ended(o) /\ InSession(o) /\ ~s.loaded.cancel /\ s.late = <<>>
         /\ \A r \in Run : SameRow(r)
         /\ s.run \in Run /\ SameRuns(s.run)
         /\ \/ head'[s.run].asked = head[s.run].asked
            \/ o \in latest[s.run] /\ head'[s.run].asked # "none"
         /\ Len(Answers(s)) < Len(Questions(s))
  <1> DEFINE s == session[o]
  <1>1. /\ InSession(o) /\ ~s.loaded.cancel /\ s.late = <<>> /\ s.run \in Run
        /\ Len(Answers(s)) < Len(Questions(s)) /\ UNCHANGED <<repo, history>>
    BY SessionFields DEF Pause, InNode, Between
  <1>2. Moves(o) /\ UNCHANGED sweptLive
    BY DEF Pause, MarkInterrupted, Goto, Moves, TypeOK
  <1>7. \A r \in Run : SameRow(r)
    <2>1. CASE Owns(o, s.run)
      <3>1. leases' = [leases EXCEPT ![s.run].ttl = TTL] /\ HasLease(s.run)
        BY <2>1 DEF Pause, MarkInterrupted, Owns
      <3> QED BY <1>1, <3>1, ExtendedRow
    <2>2. CASE ~Owns(o, s.run)
      BY <2>2, SameLeases DEF Pause, MarkInterrupted
    <2> QED BY <2>1, <2>2
  <1>3. ~InSession(o)' /\ Others(o)
    BY DEF Pause, SessionTypeOK, InSession, Others
  <1>4. /\ \A r \in Run : latest'[r] \subseteq latest[r]
        /\ \A r \in Run \ {s.run} : latest'[r] = latest[r]
    BY DEF Pause, SessionTypeOK
  <1>5. /\ \A r \in Run \ {s.run} : head'[r] = head[r]
        /\ Alike(head'[s.run], head[s.run])
        /\ \/ head'[s.run].asked = head[s.run].asked
           \/ o \in latest[s.run] /\ head'[s.run].asked # "none"
    <2>1. CASE o \in latest[s.run]
      <3> DEFINE given == Answers(s)
                 asked == Questions(s)[Len(Answers(s)) + 1]
                 c == [head[s.run] EXCEPT !.asked = asked, !.given = given]
      <3>1. head' = [head EXCEPT ![s.run] = c] /\ head[s.run] \in Checkpoint
        BY <1>1, <2>1 DEF Pause, SessionTypeOK
      <3>4. asked # "none"
        BY <1>1, NextQuestion DEF Question
      <3> HIDE DEF given, asked
      <3>2. Alike(c, head[s.run]) /\ c.asked = asked
        BY <3>1 DEF Alike, Checkpoint
      <3> HIDE DEF c
      <3> QED BY <1>1, <2>1, <3>1, <3>2, <3>4 DEF SessionTypeOK
    <2>2. CASE o \notin latest[s.run]
      BY <2>2 DEF Pause, Alike
    <2> QED BY <2>1, <2>2
  <1>6. \A r \in Run : Alike(head'[r], head[r])
    BY <1>5 DEF Alike
  <1> QED BY <1>1, <1>2, <1>3, <1>4, <1>5, <1>6, <1>7 DEF Ended, SameRuns

LEMMA DieIs ==
  ASSUME TypeOK, SessionTypeOK, NEW o \in Owner, Die(o)
  PROVE  Ended(o) /\ UNCHANGED <<head, leases>>
  <1>1. /\ ~InSession(o)' /\ Others(o) /\ UNCHANGED <<head, repo, history>>
        /\ \A r \in Run : latest'[r] \subseteq latest[r]
    BY DEF Die, SessionTypeOK, InSession, Others
  <1>2. Moves(o) /\ UNCHANGED <<sweptLive, leases>>
    BY DEF Die, Crash, End, Goto, Moves, TypeOK, tables
  <1> QED BY <1>1, <1>2 DEF Ended, Alike

LEMMA CancelIs ==
  ASSUME TypeOK, SessionTypeOK, NEW o \in Owner, NEW r \in Run, CancelRun(o, r)
  PROVE  /\ CancelledBy(o, r)
         /\ history'.recounted = history.recounted /\ history'.doubt = history.doubt
         /\ history'.afterStop = history.afterStop
         /\ history'.unreviewed = history.unreviewed
         /\ \/ history'.stopped = history.stopped
            \/ history'.stopped = history.stopped \cup {r} /\ NoOneOn(r, o)
  <1> DEFINE stop == IF head[r].next \in {"pull_request_node", "end"}
                     THEN "end" ELSE "stop_run"
             c == [head[r] EXCEPT !.next = stop, !.cancel = TRUE, !.asked = "none",
                                  !.given = <<>>, !.spare = <<>>]
  <1>1. /\ head' = [head EXCEPT ![r] = c] /\ ~InSession(o)
        /\ latest' = [latest EXCEPT ![r] = {}] /\ UNCHANGED <<session, repo>>
        /\ head[r] \in Checkpoint /\ stop \in {"stop_run", "end"}
    BY DEF CancelRun, SessionTypeOK
  <1>2. UNCHANGED <<pc, leases, granted, sweptLive>>
    BY DEF CancelRun, Cancel, tables, process
  <1> HIDE DEF stop
  <1>3. /\ c.cancel /\ c.asked = "none" /\ c.next = stop
        /\ c.committed = head[r].committed /\ c.reconciled = head[r].reconciled
    BY <1>1 DEF Checkpoint
  <1> HIDE DEF c
  <1>4. CancelledBy(o, r)
    BY <1>1, <1>2, <1>3 DEF CancelledBy, SameRuns, SessionTypeOK
  <1>5. \/ history' = history
        \/ history' = [history EXCEPT !.stopped = @ \cup {r}] /\ NoOneOn(r, o)
    BY DEF CancelRun
  <1> QED BY <1>4, <1>5 DEF SessionTypeOK, History

(* A step that touches no checkpoint and no session.                       *)
Rests ==
  /\ UNCHANGED <<head, latest, session, history, sweptLive>>
  /\ \A r \in Run : SameRow(r)
  /\ \A o \in Owner : InSession(o) => pc'[o] = pc[o]
  /\ \A o \in Owner, r \in Run : granted[o][r] = 0 => granted'[o][r] = 0
  /\ \A r \in Run : repo[r].commit = "gone" => repo'[r].commit = "gone"

LEMMA RestIs ==
  ASSUME TypeOK, SessionTypeOK,
         \/ \E o \in Owner : Leave(o)
         \/ TimePasses
         \/ \E r \in Run : LoseCommit(r)
         \/ UNCHANGED allVars
  PROVE  Rests
  <1>1. ASSUME NEW o \in Owner, Leave(o) PROVE Rests
    <2>1. /\ UNCHANGED <<head, latest, session, history, repo, sweptLive, leases>>
          /\ ~InSession(o)
      BY <1>1 DEF Leave, sessionVars, Exit, End, tables
    <2>2. /\ \A p \in Owner \ {o} : pc'[p] = pc[p]
          /\ granted' = [granted EXCEPT ![o] = [r \in Run |-> 0]]
      BY <1>1 DEF Leave, Exit, End, Goto, TypeOK
    <2>3. \A p \in Owner, r \in Run : granted[p][r] = 0 => granted'[p][r] = 0
      BY <2>2 DEF TypeOK
    <2> QED BY <2>1, <2>2, <2>3, SameLeases DEF Rests
  <1>2. CASE TimePasses
    <2>1. /\ UNCHANGED <<head, latest, session, history, repo, sweptLive, pc>>
          /\ granted' = [o \in Owner |-> [r \in Run |-> Elapse(granted[o][r])]]
          /\ leases' = [r \in Run |->
               IF HasLease(r) THEN [leases[r] EXCEPT !.ttl = Elapse(@)] ELSE NoRow]
      BY <1>2 DEF TimePasses, Tick, sessionVars, process
    <2>2. ASSUME NEW r \in Run PROVE SameRow(r)
      <3>1. CASE HasLease(r)
        <4>1. leases[r] \in Lease
          BY <3>1 DEF TypeOK, HasLease
        <4>2. /\ [leases[r] EXCEPT !.ttl = Elapse(@)] \in Lease
              /\ leases'[r] = [leases[r] EXCEPT !.ttl = Elapse(@)]
          BY <2>1, <3>1, <4>1, ConstantsOK DEF Lease, Elapse
        <4> QED BY <3>1, <4>1, <4>2, ConstantsOK DEF SameRow, HasLease, Lease
      <3>2. CASE ~HasLease(r)
        BY <2>1, <3>2 DEF SameRow, HasLease
      <3> QED BY <3>1, <3>2
    <2>3. \A o \in Owner, r \in Run : granted[o][r] = 0 => granted'[o][r] = 0
      BY <2>1 DEF Elapse
    <2> QED BY <2>1, <2>2, <2>3 DEF Rests
  <1>3. ASSUME NEW r \in Run, LoseCommit(r) PROVE Rests
    <2>1. /\ UNCHANGED <<head, latest, session, history, sweptLive, leases, pc, granted>>
          /\ repo' = [repo EXCEPT ![r].commit = "gone"]
      BY <1>3 DEF LoseCommit, vars
    <2>2. \A q \in Run : repo[q].commit = "gone" => repo'[q].commit = "gone"
      BY <2>1 DEF SessionTypeOK, Repository
    <2> QED BY <2>1, <2>2, SameLeases DEF Rests
  <1>4. CASE UNCHANGED allVars
    BY <1>4, SameLeases DEF allVars, vars, sessionVars, Rests
  <1> QED BY <1>1, <1>2, <1>3, <1>4
-----------------------------------------------------------------------------
(* What a run cancelled while no invocation is on it is remembered by: the *)
(* request is in its latest checkpoint, and in every other that a session  *)
(* on it goes on from or will put.                                         *)
AllCancel(s) ==
  /\ s.loaded.cancel
  /\ s.update # <<>> => s.update[1].checkpoint.cancel
  /\ s.late # <<>> => s.late[1].checkpoint.cancel
StoppedRun(r) ==
  head[r].cancel /\ \A o \in Owner : On(o, r) => AllCancel(session[o])
StoppedInv ==
  /\ \A r \in history.stopped : StoppedRun(r)
  /\ history.afterStop = {}

LEMMA StoppedStep ==
  ASSUME StoppedInv, TypeOK, SessionTypeOK, [SessionNext]_allVars
  PROVE  StoppedInv'
  <1>1. /\ history.stopped \subseteq Run
        /\ \A o \in Owner : InSession(o) => session[o].run \in Run
    BY SessionFields DEF SessionTypeOK, History
  <1>2. ASSUME NEW o \in Owner, NEW r \in Run, Began(o, r) PROVE StoppedInv'
    <2>1. ASSUME NEW q \in history.stopped PROVE StoppedRun(q)'
      BY <1>1, <1>2, <2>1
         DEF StoppedInv, StoppedRun, Began, On, InSession, AllCancel, Others, SameRuns, Alike
    <2> QED BY <1>2, <2>1 DEF Began, StoppedInv
  <1>3. ASSUME NEW o \in Owner, NEW c, Stored(o, c),
               history'.stopped = history.stopped, history'.afterStop = history.afterStop,
               session[o].run \in history.stopped => c.cancel
        PROVE  StoppedInv'
    <2>1. ASSUME NEW q \in history.stopped PROVE StoppedRun(q)'
      BY <1>1, <1>3, <2>1
         DEF StoppedInv, StoppedRun, Stored, On, InSession, AllCancel, Others, SameRuns
    <2> QED BY <1>3, <2>1 DEF StoppedInv
  <1>4. ASSUME NEW o \in Owner, NEW put, Answered(o, put),
               history'.stopped = history.stopped, history'.afterStop = history.afterStop,
               session[o].run \in history.stopped => put.checkpoint.cancel
        PROVE  StoppedInv'
    <2>1. ASSUME NEW q \in history.stopped PROVE StoppedRun(q)'
      BY <1>1, <1>4, <2>1
         DEF StoppedInv, StoppedRun, Answered, On, InSession, AllCancel, Others
    <2> QED BY <1>4, <2>1 DEF StoppedInv
  <1>5. ASSUME NEW o \in Owner, Ended(o) PROVE StoppedInv'
    <2>1. ASSUME NEW q \in history.stopped PROVE StoppedRun(q)'
      BY <1>1, <1>5, <2>1
         DEF StoppedInv, StoppedRun, Ended, On, InSession, AllCancel, Others, Alike
    <2> QED BY <1>5, <2>1 DEF Ended, StoppedInv
  <1>6. ASSUME NEW o \in Owner, Refused(o) PROVE StoppedInv'
    <2> DEFINE c == Following(session[o].loaded, "run_locked")
    <2>1. Stored(o, c) /\ InSession(o) /\ UNCHANGED history
      BY <1>6, RefusedIs DEF Stored
    <2>2. session[o].run \in history.stopped => c.cancel
      BY <2>1, SessionFields, FollowingIs
         DEF StoppedInv, StoppedRun, On, AllCancel, SessionStatus
    <2> QED BY <1>3, <2>1, <2>2
  <1>7. ASSUME NEW o \in Owner, Enter(o) PROVE StoppedInv'
    <2>1. Entered(o)
      BY <1>7, EnterIs
    <2>2. history'.stopped = history.stopped /\ history'.afterStop = history.afterStop
      BY <1>7 DEF Enter, SessionTypeOK, History
    <2>3. ASSUME NEW q \in history.stopped PROVE StoppedRun(q)'
      BY <1>1, <2>1, <2>3
         DEF StoppedInv, StoppedRun, Entered, On, InSession, AllCancel, Others
    <2> QED BY <2>2, <2>3 DEF StoppedInv
  <1>8. ASSUME NEW o \in Owner, Stop(o) PROVE StoppedInv'
    <2> DEFINE c == Following(session[o].loaded, "cancelled")
               put == [checkpoint |-> c, status |-> "cancelled"]
    <2>1. Answered(o, put) /\ UNCHANGED history /\ InSession(o)
      BY <1>8, StopIs DEF Answered
    <2>2. session[o].run \in history.stopped => c.cancel
      BY <2>1, SessionFields, FollowingIs
         DEF StoppedInv, StoppedRun, On, AllCancel, SessionStatus
    <2> HIDE DEF c
    <2>3. put.checkpoint = c
      OBVIOUS
    <2> HIDE DEF put
    <2> QED BY <1>4, <2>1, <2>2, <2>3
  <1>9. ASSUME NEW o \in Owner, Work(o) PROVE StoppedInv'
    <2>1. PICK put : Worked(o, put)
      BY <1>9, WorkIs
    <2>2. session[o].run \notin history.stopped
      BY <2>1 DEF Worked, Answered, StoppedInv, StoppedRun, On, AllCancel
    <2> QED BY <1>4, <2>1, <2>2 DEF Worked
  <1>10. ASSUME NEW o \in Owner, Return(o) PROVE StoppedInv'
    <2> DEFINE s == session[o]
               c == [s.update[1].checkpoint EXCEPT !.next = After(s.loaded.next, "failed")]
               put == [checkpoint |-> c, status |-> "failed"]
    <2>1. /\ InSession(o) /\ s.update # <<>> /\ UNCHANGED <<head, history>>
          /\ UNCHANGED session \/ Answered(o, put)
      BY <1>10, ReturnIs
    <2>2. s.run \in history.stopped => c.cancel
      BY <2>1, SessionFields DEF StoppedInv, StoppedRun, On, AllCancel, Checkpoint
    <2> HIDE DEF c
    <2>3. put.checkpoint = c
      OBVIOUS
    <2> HIDE DEF put
    <2>4. CASE UNCHANGED session
      BY <2>1, <2>4 DEF StoppedInv, StoppedRun, On, InSession
    <2> QED BY <1>4, <2>1, <2>2, <2>3, <2>4
  <1>11. ASSUME NEW o \in Owner, Save(o) PROVE StoppedInv'
    <2> DEFINE s == session[o]
               c == s.update[1].checkpoint
    <2>1. /\ s.update # <<>> /\ InSession(o) /\ (Deferred(o) \/ Stored(o, c))
          /\ history'.stopped = history.stopped /\ history'.afterStop = history.afterStop
      BY <1>11, SaveCases DEF Acts
    <2>2. s.run \in history.stopped => c.cancel
      BY <2>1 DEF StoppedInv, StoppedRun, On, AllCancel
    <2>3. CASE Deferred(o)
      <3>1. /\ Others(o) /\ UNCHANGED head /\ session'[o].run = s.run
            /\ session'[o].loaded = c /\ session'[o].update = <<>>
            /\ session'[o].late[1].checkpoint = c
        BY <2>3 DEF Deferred
      <3>2. ASSUME NEW q \in history.stopped PROVE StoppedRun(q)'
        BY <2>1, <2>2, <3>1, <3>2
           DEF StoppedInv, StoppedRun, On, InSession, AllCancel, Others
      <3> QED BY <2>1, <3>2 DEF StoppedInv
    <2> QED BY <1>3, <2>1, <2>2, <2>3
  <1>12. ASSUME NEW o \in Owner, SaveLate(o) PROVE StoppedInv'
    <2>1. /\ LateStored(o)
          /\ history'.stopped = history.stopped /\ history'.afterStop = history.afterStop
      BY <1>12, SaveLateIs DEF Acts
    <2>2. ASSUME NEW q \in history.stopped PROVE StoppedRun(q)'
      BY <1>1, <2>1, <2>2
         DEF StoppedInv, StoppedRun, LateStored, On, InSession, AllCancel, Others, SameRuns
    <2> QED BY <2>1, <2>2 DEF StoppedInv
  <1>13. ASSUME NEW o \in Owner, NEW r \in Run, CancelRun(o, r) PROVE StoppedInv'
    <2>1. /\ CancelledBy(o, r) /\ history'.afterStop = history.afterStop
          /\ \/ history'.stopped = history.stopped
             \/ history'.stopped = history.stopped \cup {r} /\ NoOneOn(r, o)
      BY <1>13, CancelIs
    <2>2. ASSUME NEW q \in history'.stopped PROVE StoppedRun(q)'
      <3>1. CASE q \in history.stopped
        BY <1>1, <2>1, <3>1
           DEF StoppedInv, StoppedRun, CancelledBy, On, InSession, AllCancel, SameRuns
      <3>2. CASE q = r /\ NoOneOn(r, o)
        BY <2>1, <3>2 DEF StoppedRun, CancelledBy, NoOneOn, On, InSession
      <3> QED BY <2>1, <3>1, <3>2
    <2> QED BY <2>1, <2>2 DEF StoppedInv
  <1>14. ASSUME NEW o \in Owner, NEW r \in Run, ReleaseCancelled(o, r) PROVE StoppedInv'
    BY <1>14, ReleaseCancelledIs
       DEF Acts, StoppedInv, StoppedRun, On, InSession
  <1>15. CASE Rests
    BY <1>15 DEF Rests, StoppedInv, StoppedRun, On, InSession
  <1> QED
    BY <1>2, <1>5, <1>6, <1>7, <1>8, <1>9, <1>10, <1>11, <1>12, <1>13, <1>14, <1>15,
       BeginCases, PauseIs, DieIs, RestIs
    DEF SessionNext, SessionStep

(* A run cancelled while no invocation is on it has no further side        *)
(* effect, for any number of processes and runs.                           *)
THEOREM StoppedRunsStay == SessionSpec => []StoppedStays
  <1>1. SessionInit => StoppedInv
    BY DEF SessionInit, StoppedInv
  <1>2. StoppedInv /\ TypeOK /\ SessionTypeOK /\ [SessionNext]_allVars => StoppedInv'
    BY StoppedStep
  <1>3. StoppedInv => StoppedStays
    BY DEF StoppedInv, StoppedStays
  <1> QED BY <1>1, <1>2, <1>3, SessionTypes, PTL DEF SessionSpec
-----------------------------------------------------------------------------
(* Sessions run no maintenance, so a grant always has its row.             *)
LeasedInv == TypeOK /\ SessionTypeOK /\ GrantBacked /\ sweptLive = {}

LEMMA NothingSwept ==
  ASSUME TypeOK, SessionTypeOK, [SessionNext]_allVars
  PROVE  UNCHANGED sweptLive
  <1>1. ASSUME NEW o \in Owner,
               \/ \E r \in Run : Began(o, r) \/ CancelRun(o, r) \/ ReleaseCancelled(o, r)
               \/ Refused(o) \/ Enter(o) \/ Stop(o) \/ Pause(o) \/ Work(o)
               \/ Return(o) \/ Save(o) \/ SaveLate(o) \/ Die(o)
        PROVE  UNCHANGED sweptLive
    BY <1>1, RefusedIs, EnterIs, StopIs, PauseIs, WorkIs, ReturnIs, SaveCases,
       SaveLateIs, DieIs, CancelIs, ReleaseCancelledIs
       DEF Began, Stored, Entered, Answered, Ended, Worked, Deferred, LateStored, CancelledBy
  <1> QED
    BY <1>1, BeginCases, RestIs DEF SessionNext, SessionStep, Rests

LEMMA SessionsAreBacked == SessionSpec => []LeasedInv
  <1> DEFINE Unswept == sweptLive = {}
  <1>1. SessionInit => Unswept
    BY DEF SessionInit, Init
  <1>2. Unswept /\ TypeOK /\ SessionTypeOK /\ [SessionNext]_allVars => Unswept'
    BY NothingSwept
  <1>3. TypeOK /\ SessionTypeOK /\ GrantBacked /\ Unswept => LeasedInv
    BY DEF LeasedInv
  <1> HIDE DEF Unswept
  <1> QED BY <1>1, <1>2, <1>3, SessionTypes, SessionsRefineLeases, GrantsAreBacked, PTL
          DEF SessionSpec, SessionsAreLeased

-----------------------------------------------------------------------------
(* Why a question is kept: it is put by a node that commits or acts on a   *)
(* commit, and no status that is put behind the back of a process with the *)
(* latest checkpoint comes from there.                                     *)
Speechless(c) == c.committed => c.next \notin Quiet

UpdateSpeaks(o) ==
  LET s == session[o]  put == s.update[1]  c == put.checkpoint IN
  s.update # <<>> =>
    /\ Speechless(c) /\ c.asked = "none"
    /\ c.committed => s.loaded.next \notin Quiet
    /\ put.status = "failed" =>
         \/ s.loaded.next = "failed_run"
         \/ pc[o] = "putFinal" /\ granted[o][s.run] = 0
    /\ put.status \in TerminalRunStatuses /\ c.next # "end" =>
         s.loaded.next \in Quiet \/ s.loaded.cancel
LateSpeaks(o) ==
  LET s == session[o]  c == s.late[1].checkpoint IN
  s.late # <<>> => Speechless(c) /\ c.asked = "none" /\ c.cancel = s.loaded.cancel
LatestSpeaks(o) ==
  LET s == session[o] IN
  o \in latest[s.run] =>
    IF s.late = <<>> THEN head[s.run].cancel = s.loaded.cancel
    ELSE head[s.run].next \in Quiet \/ head[s.run].cancel
SessionSpeaks(o) ==
  InSession(o) =>
    Speechless(session[o].loaded) /\ UpdateSpeaks(o) /\ LateSpeaks(o) /\ LatestSpeaks(o)
HeadSpeaks(r) ==
  /\ Speechless(head[r])
  /\ head[r].asked # "none" => ~head[r].cancel /\ head[r].next \notin Quiet
QuestionInv ==
  /\ \A r \in Run : HeadSpeaks(r)
  /\ \A o \in Owner : SessionSpeaks(o)

(* A session that is untouched, while the head is another or alike.        *)
LEMMA OthersSpeak ==
  ASSUME SessionTypeOK, NEW p \in Owner, SessionSpeaks(p), session'[p] = session[p],
         pc'[p] = pc[p], granted'[p] = granted[p],
         InSession(p) => \/ p \notin latest'[session[p].run]
                        \/ /\ p \in latest[session[p].run]
                           /\ Alike(head'[session[p].run], head[session[p].run])
  PROVE  SessionSpeaks(p)'
  BY DEF SessionSpeaks, InSession, UpdateSpeaks, LateSpeaks, LatestSpeaks, Alike

LEMMA QuestionStep ==
  ASSUME QuestionInv, AnswersInv, LeasedInv, [SessionNext]_allVars
  PROVE  QuestionInv'
  <1>1. /\ TypeOK /\ SessionTypeOK
        /\ \A o \in Owner : InSession(o) => session[o].run \in Run
    BY SessionFields DEF LeasedInv
  <1>2. ASSUME NEW o \in Owner, NEW r \in Run, Began(o, r) PROVE QuestionInv'
    <2>1. ASSUME NEW q \in Run PROVE HeadSpeaks(q)'
      BY <1>2 DEF QuestionInv, HeadSpeaks, Speechless, Began, SameRuns, Alike
    <2>2. ASSUME NEW p \in Owner, p # o PROVE SessionSpeaks(p)'
      <3>1. InSession(p) => \/ p \notin latest'[session[p].run]
                           \/ /\ p \in latest[session[p].run]
                              /\ Alike(head'[session[p].run], head[session[p].run])
        BY <1>1, <1>2, <2>2 DEF Began, SameRuns, Alike
      <3> QED BY <1>1, <1>2, <2>2, <3>1, OthersSpeak DEF Began, Others, Moves, QuestionInv
    <2>3. SessionSpeaks(o)'
      BY <1>2, <2>1
         DEF Began, SessionSpeaks, UpdateSpeaks, LateSpeaks, LatestSpeaks, HeadSpeaks
    <2> QED BY <2>1, <2>2, <2>3 DEF QuestionInv
  <1>3. ASSUME NEW o \in Owner, NEW c, Stored(o, c), Speechless(c), c.asked = "none"
        PROVE  QuestionInv'
    <2>1. ASSUME NEW q \in Run PROVE HeadSpeaks(q)'
      BY <1>3 DEF QuestionInv, HeadSpeaks, Speechless, Stored, SameRuns
    <2>2. ASSUME NEW p \in Owner, p # o PROVE SessionSpeaks(p)'
      <3>1. InSession(p) => \/ p \notin latest'[session[p].run]
                           \/ /\ p \in latest[session[p].run]
                              /\ Alike(head'[session[p].run], head[session[p].run])
        BY <1>1, <1>3, <2>2 DEF Stored, SameRuns, Alike
      <3> QED BY <1>1, <1>3, <2>2, <3>1, OthersSpeak DEF Stored, Others, Moves, QuestionInv
    <2>3. SessionSpeaks(o)'
      BY <1>3 DEF Stored, SessionSpeaks, UpdateSpeaks, LateSpeaks, LatestSpeaks, Speechless
    <2> QED BY <2>1, <2>2, <2>3 DEF QuestionInv
  <1>4. ASSUME NEW o \in Owner, InSession(o), Others(o), Moves(o), UNCHANGED <<head, latest>>,
               session'[o].run = session[o].run, session'[o].loaded = session[o].loaded,
               session'[o].late = session[o].late, InSession(o)' => UpdateSpeaks(o)'
        PROVE  QuestionInv'
    <2>1. ASSUME NEW p \in Owner, p # o PROVE SessionSpeaks(p)'
      <3>1. InSession(p) => \/ p \notin latest'[session[p].run]
                           \/ /\ p \in latest[session[p].run]
                              /\ Alike(head'[session[p].run], head[session[p].run])
        BY <1>4 DEF Alike
      <3> QED BY <1>1, <1>4, <2>1, <3>1, OthersSpeak DEF Others, Moves, QuestionInv
    <2>2. SessionSpeaks(o)'
      BY <1>4 DEF SessionSpeaks, LateSpeaks, LatestSpeaks, QuestionInv
    <2> QED BY <1>4, <2>1, <2>2 DEF QuestionInv, HeadSpeaks
  <1>5. ASSUME NEW o \in Owner, Ended(o),
               \A r \in Run : head'[r].asked # "none" =>
                 ~head[r].cancel /\ head[r].next \notin Quiet
        PROVE  QuestionInv'
    <2>1. ASSUME NEW q \in Run PROVE HeadSpeaks(q)'
      BY <1>5 DEF QuestionInv, HeadSpeaks, Speechless, Ended, Alike
    <2>2. ASSUME NEW p \in Owner, p # o PROVE SessionSpeaks(p)'
      <3>1. InSession(p) => \/ p \notin latest'[session[p].run]
                           \/ /\ p \in latest[session[p].run]
                              /\ Alike(head'[session[p].run], head[session[p].run])
        BY <1>1, <1>5, <2>2 DEF Ended
      <3> QED BY <1>1, <1>5, <2>2, <3>1, OthersSpeak DEF Ended, Others, Moves, QuestionInv
    <2>3. SessionSpeaks(o)'
      BY <1>5 DEF Ended, SessionSpeaks
    <2> QED BY <2>1, <2>2, <2>3 DEF QuestionInv
  <1>6. ASSUME NEW o \in Owner, Refused(o) PROVE QuestionInv'
    <2> DEFINE c == Following(session[o].loaded, "run_locked")
    <2>1. Stored(o, c) /\ InSession(o)
      BY <1>1, <1>6, RefusedIs DEF Stored
    <2>2. session[o].loaded \in Checkpoint /\ "run_locked" \in SessionStatus
      BY <1>1, <2>1, SessionFields DEF SessionStatus
    <2>3. c.asked = "none" /\ c.next = After(session[o].loaded.next, "run_locked")
      BY <2>2, FollowingIs
    <2> HIDE DEF c
    <2>4. Speechless(c)
      BY <2>3 DEF Speechless, After, Quiet
    <2> QED BY <1>3, <2>1, <2>3, <2>4
  <1>7. ASSUME NEW o \in Owner, Enter(o) PROVE QuestionInv'
    <2>1. Entered(o)
      BY <1>1, <1>7, EnterIs
    <2>2. Others(o) /\ Moves(o) /\ InSession(o) /\ UpdateSpeaks(o)'
      BY <2>1 DEF Entered, UpdateSpeaks
    <2> QED BY <1>4, <2>1, <2>2 DEF Entered
  <1>8. ASSUME NEW o \in Owner, NEW put, Answered(o, put),
               LET s == session[o]  c == put.checkpoint IN
               /\ Speechless(c) /\ c.asked = "none"
               /\ c.committed => s.loaded.next \notin Quiet
               /\ put.status = "failed" =>
                    \/ s.loaded.next = "failed_run"
                    \/ pc'[o] = "putFinal" /\ granted'[o][s.run] = 0
               /\ put.status \in TerminalRunStatuses /\ c.next # "end" =>
                    s.loaded.next \in Quiet \/ s.loaded.cancel
        PROVE  QuestionInv'
    <2>1. UpdateSpeaks(o)'
      BY <1>8 DEF UpdateSpeaks, Answered
    <2> QED BY <1>4, <1>8, <2>1 DEF Answered
  <1>9. ASSUME NEW o \in Owner, Stop(o) PROVE QuestionInv'
    <2> DEFINE s == session[o]
               c == Following(s.loaded, "cancelled")
               put == [checkpoint |-> c, status |-> "cancelled"]
    <2>1. Answered(o, put) /\ InSession(o) /\ s.loaded.cancel
      BY <1>1, <1>9, StopIs DEF Answered
    <2>2. /\ c.asked = "none" /\ c.next = After(s.loaded.next, "cancelled")
          /\ c.committed = s.loaded.committed
      BY <1>1, <2>1, SessionFields, FollowingIs DEF SessionStatus
    <2> HIDE DEF c
    <2>3. Speechless(c) /\ (c.committed => s.loaded.next \notin Quiet)
      BY <2>1, <2>2 DEF Speechless, After, Quiet, QuestionInv, SessionSpeaks
    <2>4. put.checkpoint = c /\ put.status = "cancelled"
      OBVIOUS
    <2> HIDE DEF put
    <2> QED BY <1>8, <2>1, <2>2, <2>3, <2>4
  <1>10. ASSUME NEW o \in Owner, Pause(o) PROVE QuestionInv'
    <2> DEFINE s == session[o]
    <2>1. /\ Ended(o) /\ InSession(o) /\ ~s.loaded.cancel /\ s.late = <<>>
          /\ s.run \in Run /\ SameRuns(s.run)
          /\ \/ head'[s.run].asked = head[s.run].asked
             \/ o \in latest[s.run] /\ head'[s.run].asked # "none"
          /\ Len(Answers(s)) < Len(Questions(s))
      BY <1>1, <1>10, PauseIs
    <2>2. s.loaded.next \notin Quiet
      <3>1. Speechless(s.loaded)
        BY <2>1 DEF QuestionInv, SessionSpeaks
      <3>2. CASE Reconciles(s) /\ Mismatch(s)
        BY <3>1, <3>2 DEF Mismatch, Speechless
      <3>3. CASE ~(Reconciles(s) /\ Mismatch(s)) /\ s.loaded.next \in Quiet
        <4>1. NodeQuestions(s.loaded) = <<>>
          BY <3>3 DEF NodeQuestions, ActionOf, Quiet
        <4>2. Questions(s) = <<>> \o <<>>
          BY <3>3, <4>1 DEF Questions
        <4>3. Len(Questions(s)) = 0
          BY <4>2
        <4>4. Answers(s) \in Seq(Answer)
          BY <1>1, <2>1, SessionFields, Concatenation DEF Answers, Checkpoint
        <4>5. Len(Answers(s)) \in Nat
          BY <4>4
        <4> QED BY <2>1, <4>3, <4>5
      <3> QED BY <3>2, <3>3
    <2>3. o \in latest[s.run] => ~head[s.run].cancel /\ head[s.run].next \notin Quiet
      BY <2>1, <2>2 DEF QuestionInv, SessionSpeaks, LatestSpeaks, AnswersInv, SessionAnswers
    <2>4. ASSUME NEW r \in Run, head'[r].asked # "none"
          PROVE  ~head[r].cancel /\ head[r].next \notin Quiet
      BY <2>1, <2>3, <2>4 DEF QuestionInv, HeadSpeaks, SameRuns
    <2> QED BY <1>5, <2>1, <2>4
  <1>11. ASSUME NEW o \in Owner, Die(o) PROVE QuestionInv'
    BY <1>1, <1>5, <1>11, DieIs DEF QuestionInv, HeadSpeaks
  <1>12. ASSUME NEW o \in Owner, Work(o) PROVE QuestionInv'
    <2>1. PICK put : Worked(o, put)
      BY <1>1, <1>12, WorkIs
    <2>2. InSession(o) /\ Speechless(session[o].loaded)
      BY <2>1 DEF Worked, Answered, QuestionInv, SessionSpeaks
    <2>3. put.checkpoint.committed => session[o].loaded.next \notin Quiet
      BY <2>1, <2>2 DEF Worked, Speechless, Quiet
    <2>4. Speechless(put.checkpoint)
      BY <2>1, <2>3 DEF Worked, Speechless
    <2> QED BY <1>8, <2>1, <2>3, <2>4 DEF Worked
  <1>13. ASSUME NEW o \in Owner, Return(o) PROVE QuestionInv'
    <2> DEFINE s == session[o]
               d == s.update[1].checkpoint
               c == [d EXCEPT !.next = After(s.loaded.next, "failed")]
               put == [checkpoint |-> c, status |-> "failed"]
    <2>1. /\ InSession(o) /\ s.update # <<>> /\ pc[o] = "node" /\ Moves(o)
          /\ UNCHANGED <<head, latest>>
          /\ \/ UNCHANGED session
             \/ Answered(o, put) /\ pc'[o] = "putFinal" /\ granted'[o][s.run] = 0
      BY <1>1, <1>13, ReturnIs
    <2>2. d \in Checkpoint /\ UpdateSpeaks(o)
      BY <1>1, <2>1, SessionFields DEF QuestionInv, SessionSpeaks
    <2>3. /\ c.asked = "none" /\ c.next = After(s.loaded.next, "failed")
          /\ c.committed = d.committed
      BY <2>1, <2>2 DEF UpdateSpeaks, Checkpoint
    <2> HIDE DEF c
    <2>4. /\ c.committed => s.loaded.next \notin Quiet
          /\ Speechless(c) /\ (c.next # "end" => s.loaded.next \in Quiet)
      BY <2>1, <2>2, <2>3 DEF UpdateSpeaks, Speechless, After, Quiet
    <2>5. put.checkpoint = c /\ put.status = "failed"
      OBVIOUS
    <2> HIDE DEF put
    <2>6. CASE UNCHANGED session
      <3>1. UpdateSpeaks(o)'
        BY <2>1, <2>2, <2>6 DEF UpdateSpeaks
      <3> QED BY <1>4, <2>1, <2>6, <3>1 DEF Others
    <2> QED BY <1>8, <2>1, <2>3, <2>4, <2>5, <2>6
  <1>14. ASSUME NEW o \in Owner, Save(o) PROVE QuestionInv'
    <2> DEFINE s == session[o]
               c == s.update[1].checkpoint
    <2>1. s.update # <<>> /\ InSession(o) /\ (Deferred(o) \/ Stored(o, c))
      BY <1>1, <1>14, SaveCases
    <2>2. UpdateSpeaks(o) /\ LateSpeaks(o) /\ LatestSpeaks(o)
      BY <2>1 DEF QuestionInv, SessionSpeaks
    <2>3. Speechless(c) /\ c.asked = "none"
      BY <2>1, <2>2 DEF UpdateSpeaks
    <2>4. CASE Deferred(o)
      <3>1. /\ Others(o) /\ Moves(o) /\ UNCHANGED <<head, latest, granted>>
            /\ session'[o].run = s.run /\ session'[o].loaded = c
            /\ session'[o].update = <<>> /\ session'[o].late = <<s.update[1]>>
            /\ s.update[1].status \in TerminalRunStatuses /\ c.next # "end"
        BY <2>4 DEF Deferred
      <3>2. session'[o].late # <<>> /\ session'[o].late[1].checkpoint = c
        BY <3>1
      <3>3. o \in latest[s.run] => head[s.run].next \in Quiet \/ head[s.run].cancel
        BY <2>1, <2>2, <3>1
           DEF UpdateSpeaks, LatestSpeaks, AnswersInv, SessionAnswers
      <3>4. SessionSpeaks(o)'
        BY <2>3, <3>1, <3>2, <3>3 DEF SessionSpeaks, UpdateSpeaks, LateSpeaks, LatestSpeaks
      <3>5. ASSUME NEW p \in Owner, p # o PROVE SessionSpeaks(p)'
        <4>1. InSession(p) => \/ p \notin latest'[session[p].run]
                             \/ /\ p \in latest[session[p].run]
                                /\ Alike(head'[session[p].run], head[session[p].run])
          BY <3>1 DEF Alike
        <4> QED BY <1>1, <3>1, <3>5, <4>1, OthersSpeak DEF Others, Moves, QuestionInv
      <3> QED BY <3>1, <3>4, <3>5 DEF QuestionInv, HeadSpeaks
    <2> QED BY <1>3, <2>1, <2>3, <2>4
  <1>15. ASSUME NEW o \in Owner, SaveLate(o) PROVE QuestionInv'
    <2> DEFINE s == session[o]
               c == s.late[1].checkpoint
    <2>1. LateStored(o)
      BY <1>1, <1>15, SaveLateIs
    <2>2. /\ InSession(o) /\ s.run \in Run /\ s.late # <<>>
          /\ Speechless(s.loaded) /\ UpdateSpeaks(o)
          /\ Speechless(c) /\ c.asked = "none" /\ c.cancel = s.loaded.cancel
      BY <1>1, <2>1 DEF LateStored, QuestionInv, SessionSpeaks, LateSpeaks
    <2>3. ASSUME NEW q \in Run PROVE HeadSpeaks(q)'
      BY <2>1, <2>2 DEF QuestionInv, HeadSpeaks, LateStored, SameRuns
    <2>4. ASSUME NEW p \in Owner, p # o PROVE SessionSpeaks(p)'
      <3>1. InSession(p) => \/ p \notin latest'[session[p].run]
                           \/ /\ p \in latest[session[p].run]
                              /\ Alike(head'[session[p].run], head[session[p].run])
        BY <1>1, <2>1, <2>4 DEF LateStored, SameRuns, Alike
      <3> QED BY <1>1, <2>1, <2>4, <3>1, OthersSpeak DEF LateStored, Others, Moves, QuestionInv
    <2>5. SessionSpeaks(o)'
      BY <2>1, <2>2 DEF LateStored, SessionSpeaks, UpdateSpeaks, LateSpeaks, LatestSpeaks
    <2> QED BY <2>3, <2>4, <2>5 DEF QuestionInv
  <1>16. ASSUME NEW o \in Owner, NEW r \in Run, CancelRun(o, r) PROVE QuestionInv'
    <2>1. CancelledBy(o, r)
      BY <1>1, <1>16, CancelIs
    <2>2. ASSUME NEW q \in Run PROVE HeadSpeaks(q)'
      BY <2>1 DEF QuestionInv, HeadSpeaks, CancelledBy, SameRuns, Speechless, Quiet
    <2>3. ASSUME NEW p \in Owner PROVE SessionSpeaks(p)'
      <3>1. InSession(p) => \/ p \notin latest'[session[p].run]
                           \/ /\ p \in latest[session[p].run]
                              /\ Alike(head'[session[p].run], head[session[p].run])
        BY <1>1, <2>1 DEF CancelledBy, SameRuns, Alike
      <3> QED BY <1>1, <2>1, <3>1, OthersSpeak DEF CancelledBy, QuestionInv
    <2> QED BY <2>2, <2>3 DEF QuestionInv
  <1>17. ASSUME NEW o \in Owner, NEW r \in Run, ReleaseCancelled(o, r) PROVE QuestionInv'
    <2>1. ~InSession(o) /\ Moves(o) /\ UNCHANGED <<head, latest, session, pc>>
      BY <1>1, <1>17, ReleaseCancelledIs
    <2>2. ASSUME NEW p \in Owner, p # o PROVE SessionSpeaks(p)'
      BY <1>1, <2>1, <2>2, OthersSpeak DEF Moves, QuestionInv, Alike
    <2>3. SessionSpeaks(o)'
      BY <2>1 DEF SessionSpeaks, InSession
    <2> QED BY <2>1, <2>2, <2>3 DEF QuestionInv, HeadSpeaks
  <1>18. CASE Rests
    <2>1. ASSUME NEW p \in Owner PROVE SessionSpeaks(p)'
      <3>1. InSession(p) => session[p].run \in Run /\ pc'[p] = pc[p]
        BY <1>1, <1>18 DEF Rests
      <3>2. InSession(p) => UpdateSpeaks(p)'
        BY <1>18, <3>1 DEF Rests, QuestionInv, SessionSpeaks, UpdateSpeaks
      <3> QED BY <1>18, <3>2
              DEF Rests, QuestionInv, SessionSpeaks, InSession, LateSpeaks, LatestSpeaks
    <2> QED BY <1>18, <2>1 DEF Rests, QuestionInv, HeadSpeaks
  <1> QED
    BY <1>1, <1>2, <1>6, <1>7, <1>9, <1>10, <1>11, <1>12, <1>13, <1>14, <1>15, <1>16,
       <1>17, <1>18, BeginCases, RestIs
    DEF SessionNext, SessionStep

LEMMA QuestionsDropped ==
  ASSUME QuestionInv, AnswersInv, LeasedInv, [SessionNext]_allVars,
         NEW r \in Run, Dropped(r)
  PROVE  \/ Cancelled(r)
         \/ \E o \in Owner :
              On(o, r) /\ (RanNode(o) \/ granted[o][r] = 0 \/ o \notin latest[r])
  <1>1. /\ TypeOK /\ SessionTypeOK
        /\ \A o \in Owner : InSession(o) => session[o].run \in Run
        /\ head[r].asked # "none" /\ head'[r].asked = "none"
        /\ ~head[r].cancel /\ head[r].next \notin Quiet
    BY SessionFields DEF LeasedInv, Dropped, QuestionInv, HeadSpeaks
  <1> DEFINE Excused == \E o \in Owner :
               On(o, r) /\ (RanNode(o) \/ granted[o][r] = 0 \/ o \notin latest[r])
  <1>2. ASSUME NEW o \in Owner, NEW c, Stored(o, c) PROVE On(o, r)
    BY <1>1, <1>2 DEF Stored, SameRuns, On
  <1>3. ASSUME NEW o \in Owner, Refused(o) PROVE Excused
    <2>1. On(o, r) /\ Blocked(o, r)
      BY <1>1, <1>2, <1>3, RefusedIs DEF On
    <2>2. ~(granted[o][r] > 0)
      BY <2>1 DEF Blocked, LeasedInv, GrantBacked
    <2>3. granted[o][r] = 0
      BY <1>1, <2>2, ConstantsOK DEF TypeOK
    <2> QED BY <2>1, <2>3
  <1>4. ASSUME NEW o \in Owner, Save(o) PROVE Excused
    <2> DEFINE s == session[o]
    <2>1. /\ s.update # <<>> /\ InSession(o)
          /\ UNCHANGED head \/ On(o, r)
      BY <1>1, <1>2, <1>4, SaveCases DEF Deferred
    <2>2. On(o, r)
      BY <1>1, <2>1
    <2>3. UpdateSpeaks(o) /\ LatestSpeaks(o)
      BY <2>1 DEF QuestionInv, SessionSpeaks
    <2>4. CASE s.update[1].status # "failed"
      BY <2>1, <2>2, <2>4 DEF RanNode
    <2>5. CASE s.loaded.next = "failed_run"
      <3>1. o \notin latest[r]
        BY <1>1, <2>1, <2>2, <2>3, <2>5
           DEF LatestSpeaks, On, AnswersInv, SessionAnswers, Quiet
      <3> QED BY <2>2, <3>1
    <2>6. CASE granted[o][r] = 0
      BY <2>2, <2>6
    <2> QED BY <2>1, <2>2, <2>3, <2>4, <2>5, <2>6 DEF UpdateSpeaks, On
  <1>5. ASSUME NEW o \in Owner, SaveLate(o) PROVE Excused
    <2>1. On(o, r) /\ session[o].late # <<>>
      BY <1>1, <1>5, SaveLateIs DEF LateStored, SameRuns, On
    <2>2. o \notin latest[r]
      BY <1>1, <2>1 DEF QuestionInv, SessionSpeaks, LatestSpeaks, On
    <2> QED BY <2>1, <2>2
  <1>6. ASSUME NEW o \in Owner, NEW q \in Run, CancelRun(o, q) PROVE Cancelled(r)
    BY <1>1, <1>6, CancelIs DEF CancelledBy, SameRuns, Cancelled
  <1>7. ASSUME NEW o \in Owner, Pause(o) PROVE FALSE
    BY <1>1, <1>7, PauseIs DEF SameRuns
  <1>8. ASSUME NEW o \in Owner,
               \/ \E q \in Run : Began(o, q) \/ ReleaseCancelled(o, q)
               \/ Enter(o) \/ Stop(o) \/ Work(o) \/ Return(o) \/ Die(o)
        PROVE  FALSE
    <2>1. CASE \E q \in Run : Began(o, q)
      BY <1>1, <2>1 DEF Began, SameRuns
    <2>2. CASE UNCHANGED head
      BY <1>1, <2>2
    <2> QED BY <1>1, <1>8, <2>1, <2>2, ReleaseCancelledIs, EnterIs, StopIs, WorkIs, ReturnIs,
               DieIs DEF Entered, Answered, Worked
  <1>9. CASE Rests
    BY <1>1, <1>9 DEF Rests
  <1> QED
    BY <1>1, <1>3, <1>4, <1>5, <1>6, <1>7, <1>8, <1>9, BeginCases, RestIs
    DEF SessionNext, SessionStep

(* A question is dropped only by a cancellation, by the process that       *)
(* answered it, or by one that has no lease or not the latest checkpoint,  *)
(* for any number of processes and runs.                                   *)
THEOREM QuestionsAreKept == SessionSpec => QuestionIsKept
  <1> DEFINE Kept == \A r \in Run : Dropped(r) =>
               \/ Cancelled(r)
               \/ \E o \in Owner :
                    On(o, r) /\ (RanNode(o) \/ granted[o][r] = 0 \/ o \notin latest[r])
  <1>1. SessionInit => QuestionInv
    BY DEF SessionInit, QuestionInv, HeadSpeaks, SessionSpeaks, Speechless, Input, InSession
  <1>2. QuestionInv /\ AnswersInv /\ LeasedInv /\ [SessionNext]_allVars => QuestionInv'
    BY QuestionStep
  <1>3. QuestionInv /\ AnswersInv /\ LeasedInv /\ [SessionNext]_allVars => [Kept]_allVars
    BY QuestionsDropped
  <1> HIDE DEF Kept
  <1>4. SessionSpec => [][Kept]_allVars
    BY <1>1, <1>2, <1>3, AnswersInvariant, SessionsAreBacked, PTL DEF SessionSpec
  <1>5. [Kept]_allVars => [\A r \in Run : Dropped(r) =>
               \/ Cancelled(r)
               \/ \E o \in Owner :
                    /\ On(o, r)
                    /\ RanNode(o) \/ granted[o][r] = 0 \/ o \notin latest[r]]_allVars
    BY DEF Kept
  <1> QED BY <1>4, <1>5, PTL DEF QuestionIsKept
-----------------------------------------------------------------------------
(* Why nothing is pushed before the review: as long as the recoveries of a *)
(* run are counted from its first lease, no checkpoint has reconciled more *)
(* of them than there were, and one with a commit in doubt has reconciled  *)
(* fewer; and only the process with the lease has counted them all.        *)
Behind(r, c) ==
  /\ c.reconciled <= RecoveryCount(r)
  /\ r \in history.doubt /\ c.committed => c.reconciled < RecoveryCount(r)
CheckpointsBehind(o) ==
  LET s == session[o] IN
  s.run \notin history.recounted =>
    /\ Behind(s.run, s.loaded)
    /\ s.update # <<>> => Behind(s.run, s.update[1].checkpoint)
    /\ s.late # <<>> => Behind(s.run, s.late[1].checkpoint)
CountedAll(o) ==
  LET s == session[o]  r == s.run IN
  InCall(o) =>
    /\ Owns(o, r) => s.count = RecoveryCount(r)
    /\ r \notin history.recounted =>
         /\ HasLease(r) /\ s.count <= RecoveryCount(r)
         /\ s.count = RecoveryCount(r) => Owns(o, r)
HeadBehind(r) == r \notin history.recounted => Behind(r, head[r])
DoubtIsReal(r) ==
  r \in history.doubt => repo[r].commit = "gone" /\ r \notin history.recounted
ReviewInv ==
  /\ \A r \in Run : DoubtIsReal(r) /\ HeadBehind(r)
  /\ \A o \in Owner : InSession(o) => CheckpointsBehind(o) /\ CountedAll(o)
  /\ history.unreviewed = {}

(* A step that raises no doubt about r, and keeps its row or counts anew.  *)
Calm(r) ==
  /\ r \in history.recounted => r \in history'.recounted
  /\ r \in history'.doubt => r \in history.doubt
  /\ SameRow(r) \/ (r \in history'.recounted /\ leases'[r] = NoRow)

LEMMA CalmSteps ==
  ASSUME NEW r \in Run, Remembers \/ Forgets(r) PROVE \A q \in Run : Calm(q)
  BY DEF Remembers, Forgets, Calm

CountNext(r) == IF leases'[r] # NoRow THEN leases'[r].recoveries ELSE 0
BehindNext(r, c) ==
  /\ c.reconciled <= CountNext(r)
  /\ r \in history'.doubt /\ c.committed => c.reconciled < CountNext(r)

LEMMA StillBehind ==
  ASSUME NEW r \in Run, Calm(r), r \notin history'.recounted, NEW c, Behind(r, c)
  PROVE  r \notin history.recounted /\ BehindNext(r, c)
  BY DEF Calm, Behind, BehindNext, CountNext, SameRow, RecoveryCount

LEMMA StillCounted ==
  ASSUME NEW o \in Owner, session[o].run \in Run, Calm(session[o].run), CountedAll(o),
         session'[o].run = session[o].run, session'[o].count = session[o].count,
         InCall(o)' => InCall(o)
  PROVE  CountedAll(o)'
  BY DEF Calm, CountedAll, SameRow, RecoveryCount, Owns, HasLease

LEMMA StillReviewed ==
  ASSUME SessionTypeOK, NEW p \in Owner, InSession(p), Calm(session[p].run),
         CheckpointsBehind(p) /\ CountedAll(p),
         session'[p] = session[p], pc'[p] = pc[p]
  PROVE  CheckpointsBehind(p)' /\ CountedAll(p)'
  <1>1. session[p].run \in Run
    BY SessionFields
  <1>2. CountedAll(p)'
    BY <1>1, StillCounted DEF InCall
  <1>3. CheckpointsBehind(p)'
    <2> SUFFICES ASSUME session[p].run \notin history'.recounted PROVE CheckpointsBehind(p)'
      BY DEF CheckpointsBehind
    <2> DEFINE s == session[p]
    <2>1. s.run \notin history.recounted
      BY DEF Calm
    <2>2. /\ BehindNext(s.run, s.loaded)
          /\ s.update # <<>> => BehindNext(s.run, s.update[1].checkpoint)
          /\ s.late # <<>> => BehindNext(s.run, s.late[1].checkpoint)
      BY <1>1, <2>1, StillBehind DEF CheckpointsBehind
    <2> QED BY <2>2 DEF CheckpointsBehind, Behind, BehindNext, CountNext, RecoveryCount, HasLease
  <1> QED BY <1>2, <1>3

LEMMA EnterCounts ==
  ASSUME LeasedInv, NEW o \in Owner, Enter(o)
  PROVE  LET r == session[o].run IN
         /\ leases'[r] # NoRow /\ leases'[r].owner = o
         /\ CountNext(r) = RecoveryCount(r) + IF Recovered(o, r) THEN 1 ELSE 0
  <1> DEFINE r == session[o].run
             count == RecoveryCount(r) + IF Recovered(o, r) THEN 1 ELSE 0
             row == [owner |-> o, ttl |-> TTL, recoveries |-> count]
  <1>1. r \in Run
    BY SessionFields DEF Enter, Between, LeasedInv
  <1>2. count \in 0..MaxRecoveries
    BY <1>1, RecoveryCountType, ConstantsOK DEF Enter, Acquire, LeasedInv
  <1>3. leases' = [leases EXCEPT ![r] = row]
    BY DEF Enter, Acquire
  <1> HIDE DEF count
  <1>4. row \in Lease /\ row.owner = o /\ row.recoveries = count
    BY <1>2, ConstantsOK DEF Lease
  <1> HIDE DEF row
  <1>5. leases'[r] = row /\ row # NoRow
    BY <1>1, <1>3, <1>4, ConstantsOK DEF LeasedInv, TypeOK
  <1> QED BY <1>4, <1>5 DEF CountNext, count

(* Entering counts a takeover, and raises doubt about a commit that is     *)
(* gone; what was behind before is behind now.                             *)
LEMMA EnterBehind ==
  ASSUME LeasedInv, ReviewInv, NEW o \in Owner, Enter(o), NEW r \in Run,
         r \notin history'.recounted, NEW c, c.reconciled \in Nat, Behind(r, c)
  PROVE  r \notin history.recounted /\ BehindNext(r, c)
  <1> DEFINE q == session[o].run
  <1>1. InSession(o) /\ q \in Run /\ history \in History
    BY SessionFields DEF Enter, Between, LeasedInv, SessionTypeOK
  <1>2. /\ history'.recounted = history.recounted
        /\ \/ history'.doubt = history.doubt
           \/ history'.doubt = history.doubt \cup {q} /\ Recovered(o, q)
        /\ history'.doubt \subseteq history.doubt \cup {q}
    BY <1>1 DEF Enter, History
  <1>3. CASE r # q
    <2>1. SameRow(r)
      BY <1>1, <1>3 DEF Enter, Acquire, SameRow, HasLease, LeasedInv, TypeOK
    <2> QED BY <1>2, <1>3, <2>1 DEF SameRow, Behind, BehindNext, RecoveryCount, CountNext
  <1>4. CASE r = q
    <2>1. RecoveryCount(q) \in Nat
      BY <1>1, RecoveryCountType, ConstantsOK DEF LeasedInv
    <2>2. CountNext(q) = RecoveryCount(q) + IF Recovered(o, q) THEN 1 ELSE 0
      BY <1>1, EnterCounts
    <2> QED BY <1>2, <1>4, <2>1, <2>2 DEF Behind, BehindNext
  <1> QED BY <1>3, <1>4

LEMMA EnterReviews ==
  ASSUME LeasedInv, ReviewInv, NEW o \in Owner, Enter(o)
  PROVE  ReviewInv'
  <1> DEFINE s == session[o]
             q == s.run
  <1>1. /\ TypeOK /\ SessionTypeOK /\ InSession(o) /\ q \in Run /\ history \in History
        /\ \A p \in Owner : InSession(p) => session[p].run \in Run
    BY SessionFields DEF Enter, Between, LeasedInv, SessionTypeOK
  <1>2. Entered(o)
    BY <1>1, EnterIs
  <1>3. /\ history'.recounted = history.recounted
        /\ history'.unreviewed = history.unreviewed
        /\ \/ history'.doubt = history.doubt
           \/ /\ history'.doubt = history.doubt \cup ({q} \ history.recounted)
              /\ Mismatch(s)
        /\ UNCHANGED <<repo, head>>
    BY <1>1 DEF Enter, History
  <1>4. ASSUME NEW r \in Run PROVE DoubtIsReal(r)' /\ HeadBehind(r)'
    <2>1. DoubtIsReal(r)'
      BY <1>1, <1>3 DEF ReviewInv, DoubtIsReal, Mismatch
    <2>2. head[r].reconciled \in Nat
      BY <1>1, ConstantsOK DEF SessionTypeOK, Checkpoint
    <2>3. r \notin history'.recounted => BehindNext(r, head[r])
      BY <1>3, <2>2, EnterBehind DEF ReviewInv, HeadBehind
    <2> QED BY <1>3, <2>1, <2>3
            DEF HeadBehind, Behind, BehindNext, CountNext, RecoveryCount, HasLease
  <1>5. ASSUME NEW p \in Owner, InSession(p) PROVE CheckpointsBehind(p)'
    <2> SUFFICES ASSUME session[p].run \notin history'.recounted
                 PROVE  /\ BehindNext(session[p].run, session[p].loaded)
                        /\ session[p].update # <<>> =>
                             BehindNext(session[p].run, session[p].update[1].checkpoint)
                        /\ session[p].late # <<>> =>
                             BehindNext(session[p].run, session[p].late[1].checkpoint)
      <3>1. /\ session'[p].run = session[p].run /\ session'[p].loaded = session[p].loaded
            /\ session'[p].update = session[p].update /\ session'[p].late = session[p].late
        BY <1>2 DEF Entered, Others
      <3> QED BY <3>1 DEF CheckpointsBehind, Behind, BehindNext, CountNext,
                          RecoveryCount, HasLease
    <2>1. /\ session[p].loaded.reconciled \in Nat
          /\ session[p].update # <<>> => session[p].update[1].checkpoint.reconciled \in Nat
          /\ session[p].late # <<>> => session[p].late[1].checkpoint.reconciled \in Nat
      BY <1>1, <1>5, SessionFields, ConstantsOK DEF Checkpoint
    <2> QED BY <1>1, <1>3, <1>5, <2>1, EnterBehind DEF ReviewInv, CheckpointsBehind
  <1>6. ASSUME NEW p \in Owner, InSession(p) PROVE CountedAll(p)'
    <2>1. /\ leases'[q] # NoRow /\ leases'[q].owner = o
          /\ CountNext(q) = RecoveryCount(q) + IF Recovered(o, q) THEN 1 ELSE 0
      BY EnterCounts
    <2>2. RecoveryCount(q) \in Nat
      BY <1>1, RecoveryCountType, ConstantsOK
    <2>3. CASE p = o
      <3>1. session'[o].run = q /\ session'[o].count = CountNext(q)
        BY <1>2, <2>1 DEF Entered
      <3> QED BY <2>1, <2>2, <2>3, <3>1
              DEF CountedAll, Owns, HasLease, RecoveryCount, CountNext
    <2>4. CASE p # o /\ session[p].run # q
      <3>1. Calm(session[p].run)
        BY <1>1, <1>3, <1>6, <2>4
           DEF Enter, Acquire, Calm, SameRow, HasLease, TypeOK
      <3>2. session'[p] = session[p] /\ pc'[p] = pc[p]
        BY <1>2, <2>4 DEF Entered, Others, Moves
      <3> QED BY <1>1, <1>6, <3>1, <3>2, StillCounted DEF ReviewInv, InCall
    <2>5. CASE p # o /\ session[p].run = q
      <3>1. session'[p] = session[p] /\ pc'[p] = pc[p]
        BY <1>2, <2>5 DEF Entered, Others, Moves
      <3> SUFFICES ASSUME InCall(p), q \notin history.recounted
                   PROVE  session[p].count <= CountNext(q) /\ session[p].count # CountNext(q)
        BY <1>3, <2>1, <2>5, <3>1
           DEF CountedAll, Owns, HasLease, RecoveryCount, CountNext, InCall
      <3>2. HasLease(q) /\ session[p].count <= RecoveryCount(q)
        BY <1>6, <2>5 DEF ReviewInv, CountedAll
      <3>3. session[p].count = RecoveryCount(q) => ~Owns(o, q)
        BY <1>6, <2>5 DEF ReviewInv, CountedAll, Owns
      <3>4. session[p].count \in Nat
        BY <1>1, <1>6, FieldsOfSession, SessionFields, ConstantsOK
      <3> QED BY <2>1, <2>2, <3>2, <3>3, <3>4 DEF Recovered
    <2> QED BY <2>3, <2>4, <2>5
  <1>7. \A p \in Owner : InSession(p)' => InSession(p)
    BY <1>1, <1>2 DEF Entered, Others, InSession
  <1> QED BY <1>3, <1>4, <1>5, <1>6, <1>7 DEF ReviewInv

LEMMA ReviewStep ==
  ASSUME LeasedInv, ReviewInv, [SessionNext]_allVars
  PROVE  ReviewInv'
  <1>1. /\ TypeOK /\ SessionTypeOK /\ history \in History
        /\ \A o \in Owner : InSession(o) => session[o].run \in Run
    BY SessionFields DEF LeasedInv, SessionTypeOK
  (* A step by which only o's session changes, and the checkpoint of one run.*)
  <1>2. ASSUME NEW o \in Owner, Others(o), Moves(o), \A r \in Run : Calm(r),
               history'.unreviewed = history.unreviewed,
               \A r \in Run : /\ DoubtIsReal(r)'
                              /\ r \notin history'.recounted => BehindNext(r, head'[r]),
               InSession(o)' => CheckpointsBehind(o)' /\ CountedAll(o)'
        PROVE  ReviewInv'
    <2>1. ASSUME NEW p \in Owner, p # o, InSession(p)
          PROVE  CheckpointsBehind(p)' /\ CountedAll(p)'
      BY <1>1, <1>2, <2>1, StillReviewed DEF ReviewInv, Others, Moves
    <2>2. \A p \in Owner \ {o} : InSession(p)' => InSession(p)
      BY <1>2 DEF Others, InSession
    <2>3. \A r \in Run : HeadBehind(r)'
      BY <1>2 DEF HeadBehind, Behind, BehindNext, CountNext, RecoveryCount, HasLease
    <2> QED BY <1>2, <2>1, <2>2, <2>3 DEF ReviewInv
  (* Heads that are alike stay behind.                                       *)
  <1>3. ASSUME \A r \in Run : Calm(r) /\ Alike(head'[r], head[r]), NEW r \in Run
        PROVE  r \notin history'.recounted => BehindNext(r, head'[r])
    <2>1. r \notin history'.recounted => BehindNext(r, head[r])
      BY <1>3, StillBehind DEF ReviewInv, HeadBehind, Calm
    <2> QED BY <1>3, <2>1 DEF BehindNext, Alike
  <1>4. ASSUME NEW q \in Run, Remembers \/ Forgets(q), UNCHANGED repo, NEW r \in Run
        PROVE  DoubtIsReal(r)'
    BY <1>4 DEF Remembers, Forgets, DoubtIsReal, ReviewInv
  <1>5. ASSUME NEW q \in Run, UNCHANGED <<leases, history>> \/ Remembers \/ Forgets(q)
        PROVE  Remembers \/ Forgets(q)
    BY <1>5, SameLeases DEF Remembers
  (* Heads but one are untouched, and that one is behind.                    *)
  <1>6. ASSUME NEW q \in Run, Remembers \/ Forgets(q), SameRuns(q), NEW c, head'[q] = c,
               q \notin history'.recounted => BehindNext(q, c), NEW r \in Run
        PROVE  r \notin history'.recounted => BehindNext(r, head'[r])
    <2>1. Calm(r)
      BY <1>6, CalmSteps
    <2> QED BY <1>6, <2>1, StillBehind DEF ReviewInv, HeadBehind, Calm, SameRuns
  <1>7. ASSUME NEW o \in Owner, NEW r \in Run, Began(o, r) PROVE ReviewInv'
    <2>1. Remembers /\ Others(o) /\ Moves(o) /\ UNCHANGED <<repo, history>>
      BY <1>7, SameLeases DEF Began, Remembers
    <2>2. \A q \in Run : Calm(q) /\ Alike(head'[q], head[q])
      BY <1>7, <2>1, CalmSteps DEF Began, SameRuns, Alike
    <2>3. CheckpointsBehind(o)'
      <3>1. /\ session'[o].run = r /\ session'[o].loaded = head'[r]
            /\ session'[o].update = <<>> /\ session'[o].late = <<>>
        BY <1>7 DEF Began
      <3>2. r \notin history'.recounted => BehindNext(r, head'[r])
        BY <1>3, <2>2
      <3> QED BY <3>1, <3>2 DEF CheckpointsBehind, Behind, BehindNext, CountNext,
                                RecoveryCount, HasLease
    <2>4. CountedAll(o)'
      BY <1>7 DEF Began, CountedAll, InCall
    <2>5. ASSUME NEW q \in Run
          PROVE  /\ DoubtIsReal(q)'
                 /\ q \notin history'.recounted => BehindNext(q, head'[q])
      BY <1>3, <1>4, <2>1, <2>2
    <2> QED BY <1>2, <2>1, <2>2, <2>3, <2>4, <2>5
  <1>8. ASSUME NEW o \in Owner, NEW c, Stored(o, c), Remembers \/ Forgets(session[o].run),
               history'.unreviewed = history.unreviewed,
               session[o].run \notin history.recounted => Behind(session[o].run, c)
        PROVE  ReviewInv'
    <2> DEFINE q == session[o].run
    <2>1. /\ q \in Run /\ InSession(o) /\ Others(o) /\ Moves(o) /\ SameRuns(q)
          /\ head'[q] = c /\ pc'[o] = "idle" /\ UNCHANGED repo
          /\ InSession(o)' =>
               /\ session'[o].run = q /\ session'[o].loaded = c
               /\ session'[o].update = <<>> /\ session'[o].late = <<>>
      BY <1>1, <1>8 DEF Stored
    <2>2. \A r \in Run : Calm(r)
      BY <1>8, <2>1, CalmSteps
    <2>3. q \notin history'.recounted => BehindNext(q, c)
      BY <1>8, <2>1, <2>2, StillBehind DEF Calm
    <2>4. InSession(o)' => CheckpointsBehind(o)' /\ CountedAll(o)'
      BY <2>1, <2>3 DEF CheckpointsBehind, CountedAll, InCall, Behind, BehindNext,
                        CountNext, RecoveryCount, HasLease
    <2>5. ASSUME NEW r \in Run
          PROVE  /\ DoubtIsReal(r)'
                 /\ r \notin history'.recounted => BehindNext(r, head'[r])
      BY <1>4, <1>6, <1>8, <2>1, <2>3
    <2> QED BY <1>2, <1>8, <2>1, <2>2, <2>4, <2>5
  <1>9. ASSUME NEW o \in Owner, NEW put, Answered(o, put), \A r \in Run : DoubtIsReal(r)',
               history'.recounted = history.recounted,
               history'.doubt \subseteq history.doubt,
               history'.unreviewed = history.unreviewed, InCall(o),
               session[o].run \notin history.recounted =>
                 BehindNext(session[o].run, put.checkpoint)
        PROVE  ReviewInv'
    <2> DEFINE s == session[o]
               q == s.run
    <2>1. /\ q \in Run /\ InSession(o) /\ Others(o) /\ Moves(o)
          /\ UNCHANGED <<head, leases>>
          /\ session'[o].run = q /\ session'[o].loaded = s.loaded
          /\ session'[o].count = s.count /\ session'[o].late = s.late
          /\ session'[o].update = <<put>>
      BY <1>1, <1>9 DEF Answered
    <2>2. \A r \in Run : Calm(r) /\ Alike(head'[r], head[r])
      BY <1>9, <2>1, SameLeases DEF Calm, Alike
    <2>3. CountedAll(o)'
      BY <1>9, <2>1, <2>2, StillCounted DEF ReviewInv
    <2>4. CheckpointsBehind(o)'
      <3> SUFFICES ASSUME q \notin history'.recounted
                   PROVE  /\ BehindNext(q, s.loaded) /\ BehindNext(q, put.checkpoint)
                          /\ s.late # <<>> => BehindNext(q, s.late[1].checkpoint)
        <4>1. <<put>>[1] = put
          OBVIOUS
        <4> QED BY <2>1, <4>1 DEF CheckpointsBehind, Behind, BehindNext, CountNext,
                                  RecoveryCount, HasLease
      <3>1. CheckpointsBehind(o) /\ q \notin history.recounted
        BY <1>9, <2>1 DEF ReviewInv
      <3> QED BY <1>9, <2>1, <2>2, <3>1, StillBehind DEF CheckpointsBehind
    <2>5. ASSUME NEW r \in Run
          PROVE  r \notin history'.recounted => BehindNext(r, head'[r])
      BY <1>3, <2>2
    <2> QED BY <1>2, <1>9, <2>1, <2>2, <2>3, <2>4, <2>5
  <1>10. ASSUME NEW o \in Owner, Ended(o), \A r \in Run : SameRow(r) PROVE ReviewInv'
    <2>1. Remembers /\ UNCHANGED <<repo, history>> /\ Others(o) /\ Moves(o) /\ ~InSession(o)'
      BY <1>10 DEF Ended, Remembers
    <2>2. \A r \in Run : Calm(r) /\ Alike(head'[r], head[r])
      BY <1>10, <2>1, CalmSteps DEF Ended
    <2>3. ASSUME NEW r \in Run
          PROVE  /\ DoubtIsReal(r)'
                 /\ r \notin history'.recounted => BehindNext(r, head'[r])
      BY <1>3, <1>4, <2>1, <2>2
    <2> QED BY <1>2, <2>1, <2>2, <2>3
  <1>11. ASSUME NEW o \in Owner, Refused(o) PROVE ReviewInv'
    <2> DEFINE s == session[o]
               c == Following(s.loaded, "run_locked")
    <2>1. Stored(o, c) /\ InSession(o) /\ Remembers /\ UNCHANGED history
      BY <1>1, <1>11, RefusedIs, SameLeases DEF Stored, Remembers
    <2>2. c.committed = s.loaded.committed /\ c.reconciled = s.loaded.reconciled
      BY <1>1, <2>1, SessionFields, FollowingIs DEF SessionStatus
    <2> HIDE DEF c
    <2>3. s.run \notin history.recounted => Behind(s.run, c)
      BY <2>1, <2>2 DEF ReviewInv, CheckpointsBehind, Behind
    <2> QED BY <1>8, <2>1, <2>3
  <1>12. ASSUME NEW o \in Owner, Stop(o) PROVE ReviewInv'
    <2> DEFINE s == session[o]
               c == Following(s.loaded, "cancelled")
               put == [checkpoint |-> c, status |-> "cancelled"]
    <2>1. /\ Answered(o, put) /\ InSession(o) /\ InCall(o) /\ UNCHANGED <<repo, history>>
          /\ UNCHANGED leases /\ s.run \in Run
      BY <1>1, <1>12, StopIs DEF Answered
    <2>2. c.committed = s.loaded.committed /\ c.reconciled = s.loaded.reconciled
      BY <1>1, <2>1, SessionFields, FollowingIs DEF SessionStatus
    <2> HIDE DEF c
    <2>3. put.checkpoint = c
      OBVIOUS
    <2> HIDE DEF put
    <2>4. s.run \notin history.recounted => BehindNext(s.run, put.checkpoint)
      BY <2>1, <2>2, <2>3 DEF ReviewInv, CheckpointsBehind, Behind, BehindNext, CountNext,
                              RecoveryCount, HasLease
    <2>5. \A r \in Run : DoubtIsReal(r)'
      BY <2>1 DEF ReviewInv, DoubtIsReal
    <2> QED BY <1>9, <2>1, <2>4, <2>5
  <1>13. ASSUME NEW o \in Owner, Return(o) PROVE ReviewInv'
    <2> DEFINE s == session[o]
               d == s.update[1].checkpoint
               c == [d EXCEPT !.next = After(s.loaded.next, "failed")]
               put == [checkpoint |-> c, status |-> "failed"]
    <2>1. /\ InSession(o) /\ s.update # <<>> /\ pc[o] = "node" /\ Remembers /\ Moves(o)
          /\ UNCHANGED <<head, latest, sweptLive, repo, history>> /\ InCall(o)
          /\ UNCHANGED session \/ Answered(o, put)
      BY <1>1, <1>13, ReturnIs DEF InCall
    <2>2. d \in Checkpoint
      BY <1>1, <2>1, SessionFields
    <2>3. c.committed = d.committed /\ c.reconciled = d.reconciled
      BY <2>2 DEF Checkpoint
    <2> HIDE DEF c
    <2>4. put.checkpoint = c
      OBVIOUS
    <2> HIDE DEF put
    <2>5. \A r \in Run : Calm(r) /\ Alike(head'[r], head[r])
      BY <1>1, <2>1, CalmSteps DEF Alike
    <2>6. ASSUME NEW r \in Run
          PROVE  /\ DoubtIsReal(r)'
                 /\ r \notin history'.recounted => BehindNext(r, head'[r])
      BY <1>3, <1>4, <2>1, <2>5
    <2>7. CASE UNCHANGED session
      <3>1. CountedAll(o)'
        BY <1>1, <2>1, <2>5, <2>7, StillCounted DEF ReviewInv
      <3>2. CheckpointsBehind(o)'
        <4>1. CheckpointsBehind(o) /\ s.run \in Run
          BY <1>1, <2>1 DEF ReviewInv
        <4>2. s.run \notin history.recounted =>
                /\ BehindNext(s.run, s.loaded)
                /\ s.update # <<>> => BehindNext(s.run, s.update[1].checkpoint)
                /\ s.late # <<>> => BehindNext(s.run, s.late[1].checkpoint)
          BY <2>1, <2>5, <4>1, StillBehind DEF CheckpointsBehind
        <4> QED BY <2>1, <2>7, <4>2 DEF CheckpointsBehind, Behind, BehindNext, CountNext,
                                        RecoveryCount, HasLease
      <3> QED BY <1>2, <2>1, <2>5, <2>6, <2>7, <3>1, <3>2 DEF Others
    <2>8. CASE Answered(o, put)
      <3>1. s.run \notin history.recounted => BehindNext(s.run, put.checkpoint)
        BY <2>1, <2>3, <2>4, <2>8
           DEF ReviewInv, CheckpointsBehind, Answered, Behind, BehindNext, CountNext,
               RecoveryCount, HasLease
      <3> QED BY <1>9, <2>1, <2>6, <2>8, <3>1
    <2> QED BY <2>1, <2>7, <2>8
  <1>14. ASSUME NEW o \in Owner, Work(o) PROVE ReviewInv'
    <2> DEFINE s == session[o]
               q == s.run
    <2>1. PICK put : Worked(o, put)
      BY <1>1, <1>14, WorkIs
    <2> DEFINE c == put.checkpoint
    <2>2. /\ Answered(o, put) /\ InSession(o) /\ InCall(o) /\ q \in Run /\ UNCHANGED leases
          /\ CheckpointsBehind(o) /\ CountedAll(o) /\ DoubtIsReal(q)
      BY <1>1, <2>1 DEF Worked, Answered, ReviewInv
    <2>3. \A r \in Run : DoubtIsReal(r)'
      BY <2>1 DEF Worked, ReviewInv, DoubtIsReal
    <2>4. s.count \in Nat /\ s.loaded.reconciled \in Nat /\ RecoveryCount(q) \in Nat
      BY <1>1, <2>2, SessionFields, FieldsOfSession, RecoveryCountType, ConstantsOK
         DEF Checkpoint
  (* With a commit in doubt, the question about it keeps a node from going   *)
  (* on before it has reconciled the last recovery.                          *)
    <2>5. ASSUME q \in history.doubt, s.loaded.committed,
                 ~(Reconciles(s) /\ Mismatch(s))
          PROVE  /\ s.count <= s.loaded.reconciled /\ ~Reconciles(s)
                 /\ s.loaded.reconciled < RecoveryCount(q)
                 /\ ~Owns(o, q)
      BY <2>2, <2>4, <2>5
         DEF DoubtIsReal, Mismatch, Reconciles, CheckpointsBehind, Behind, CountedAll
    <2>6. history'.unreviewed = history.unreviewed
      <3> SUFFICES ASSUME history'.unreviewed # history.unreviewed PROVE FALSE
        OBVIOUS
      <3>1. /\ s.loaded.committed /\ granted[o][q] > 0
            /\ q \in history.doubt /\ ~(Reconciles(s) /\ Mismatch(s))
        BY <2>1 DEF Worked
      <3>2. Owns(o, q)
        BY <2>2, <3>1 DEF LeasedInv, GrantBacked
      <3> QED BY <2>5, <3>1, <3>2
    <2>7. q \notin history.recounted => BehindNext(q, c)
      <3> SUFFICES ASSUME q \notin history.recounted PROVE BehindNext(q, c)
        OBVIOUS
      <3>1. CountNext(q) = RecoveryCount(q)
        BY <2>2 DEF CountNext, RecoveryCount, HasLease
      <3>2. c.reconciled = IF Reconciles(s) THEN s.count ELSE s.loaded.reconciled
        BY <2>1 DEF Worked
      <3>3. s.count <= RecoveryCount(q) /\ s.loaded.reconciled <= RecoveryCount(q)
        BY <2>2 DEF CountedAll, CheckpointsBehind, Behind
      <3>4. ASSUME q \in history'.doubt, c.committed PROVE c.reconciled < RecoveryCount(q)
        <4>1. /\ q \in history.doubt /\ s.loaded.committed
              /\ ~(Reconciles(s) /\ Mismatch(s))
          BY <2>1, <3>4 DEF Worked
        <4> QED BY <2>5, <3>2, <4>1
      <3> QED BY <3>1, <3>2, <3>3, <3>4 DEF BehindNext
    <2> QED BY <1>9, <2>1, <2>2, <2>3, <2>6, <2>7 DEF Worked
  <1>15. ASSUME NEW o \in Owner, Save(o) PROVE ReviewInv'
    <2> DEFINE s == session[o]
               q == s.run
               c == s.update[1].checkpoint
    <2>1. /\ s.update # <<>> /\ InSession(o) /\ q \in Run
          /\ Deferred(o) \/ Stored(o, c)
          /\ Remembers \/ Forgets(q)
          /\ history'.unreviewed = history.unreviewed
      BY <1>1, <1>15, SaveCases DEF Acts
    <2>2. CheckpointsBehind(o) /\ (q \notin history.recounted => Behind(q, c))
      BY <2>1 DEF ReviewInv, CheckpointsBehind
    <2>3. CASE Deferred(o)
      <3>1. /\ Others(o) /\ Moves(o) /\ UNCHANGED <<head, latest, leases, repo, history>>
            /\ session'[o].run = q /\ session'[o].loaded = c
            /\ session'[o].update = <<>> /\ session'[o].late = <<s.update[1]>>
            /\ pc'[o] = "idle"
        BY <2>3 DEF Deferred
      <3>2. session'[o].late[1].checkpoint = c
        BY <3>1
      <3>3. Remembers
        BY <3>1, SameLeases DEF Remembers
      <3>4. \A r \in Run : Calm(r) /\ Alike(head'[r], head[r])
        BY <2>1, <3>1, <3>3, CalmSteps DEF Alike
      <3>5. CheckpointsBehind(o)' /\ CountedAll(o)'
        BY <2>2, <3>1, <3>2
           DEF CheckpointsBehind, CountedAll, InCall, Behind, RecoveryCount, HasLease
      <3>6. ASSUME NEW r \in Run
            PROVE  /\ DoubtIsReal(r)'
                   /\ r \notin history'.recounted => BehindNext(r, head'[r])
        BY <1>3, <1>4, <2>1, <3>1, <3>3, <3>4
      <3> QED BY <1>2, <2>1, <3>1, <3>4, <3>5, <3>6
    <2>4. CASE Stored(o, c)
      <3> HIDE DEF c
      <3> QED BY <1>8, <2>1, <2>2, <2>4
    <2> QED BY <2>1, <2>3, <2>4
  <1>16. ASSUME NEW o \in Owner, SaveLate(o) PROVE ReviewInv'
    <2> DEFINE s == session[o]
               q == s.run
               c == s.late[1].checkpoint
    <2>1. /\ LateStored(o) /\ (Remembers \/ Forgets(q))
          /\ history'.unreviewed = history.unreviewed
      BY <1>1, <1>16, SaveLateIs DEF Acts
    <2>2. /\ InSession(o) /\ q \in Run /\ s.late # <<>> /\ Others(o) /\ Moves(o) /\ SameRuns(q)
          /\ head'[q] = c /\ UNCHANGED <<pc, repo>>
          /\ session'[o].run = q /\ session'[o].loaded = s.loaded
          /\ session'[o].count = s.count /\ session'[o].update = s.update
          /\ session'[o].late = <<>>
      BY <1>1, <2>1 DEF LateStored
    <2>3. CheckpointsBehind(o) /\ CountedAll(o) /\ \A r \in Run : Calm(r)
      BY <2>1, <2>2, CalmSteps DEF ReviewInv
    <2>4. q \notin history'.recounted =>
            /\ BehindNext(q, s.loaded) /\ BehindNext(q, c)
            /\ s.update # <<>> => BehindNext(q, s.update[1].checkpoint)
      BY <2>2, <2>3, StillBehind DEF CheckpointsBehind, Calm
    <2>5. CheckpointsBehind(o)'
      BY <2>2, <2>4 DEF CheckpointsBehind, Behind, BehindNext, CountNext, RecoveryCount,
                        HasLease
    <2>6. CountedAll(o)'
      BY <2>2, <2>3, StillCounted DEF InCall
    <2>7. ASSUME NEW r \in Run
          PROVE  /\ DoubtIsReal(r)'
                 /\ r \notin history'.recounted => BehindNext(r, head'[r])
      BY <1>4, <1>6, <2>1, <2>2, <2>4
    <2> QED BY <1>2, <2>1, <2>2, <2>3, <2>5, <2>6, <2>7
  <1>17. ASSUME NEW o \in Owner, NEW q \in Run, CancelRun(o, q) PROVE ReviewInv'
    <2>1. /\ CancelledBy(o, q) /\ history'.recounted = history.recounted
          /\ history'.doubt = history.doubt /\ history'.unreviewed = history.unreviewed
      BY <1>1, <1>17, CancelIs
    <2>2. UNCHANGED <<session, pc, leases, repo>>
      BY <2>1 DEF CancelledBy
    <2>3. \A r \in Run : HeadBehind(r)'
      BY <2>1, <2>2
         DEF CancelledBy, SameRuns, ReviewInv, HeadBehind, Behind, RecoveryCount, HasLease
    <2>4. \A r \in Run : DoubtIsReal(r)'
      BY <2>1, <2>2 DEF ReviewInv, DoubtIsReal
    <2>5. ASSUME NEW p \in Owner, InSession(p) PROVE CheckpointsBehind(p)' /\ CountedAll(p)'
      <3>1. Calm(session[p].run)
        BY <1>1, <2>1, <2>2, <2>5, SameLeases DEF Calm
      <3> QED BY <1>1, <2>2, <2>5, <3>1, StillReviewed DEF ReviewInv
    <2>6. \A p \in Owner : InSession(p)' => InSession(p)
      BY <2>2 DEF InSession
    <2> QED BY <2>1, <2>3, <2>4, <2>5, <2>6 DEF ReviewInv
  <1>18. ASSUME NEW q \in Run, Remembers \/ Forgets(q),
                history'.unreviewed = history.unreviewed, UNCHANGED <<head, session>>,
                \A o \in Owner : InSession(o) => pc'[o] = pc[o],
                \A r \in Run : repo[r].commit = "gone" => repo'[r].commit = "gone"
         PROVE  ReviewInv'
    <2>1. \A r \in Run : Calm(r)
      BY <1>18, CalmSteps
    <2>2. \A r \in Run : HeadBehind(r)'
      <3>1. ASSUME NEW r \in Run, r \notin history'.recounted PROVE BehindNext(r, head[r])
        BY <2>1, <3>1, StillBehind DEF ReviewInv, HeadBehind, Calm
      <3> QED BY <1>18, <3>1 DEF HeadBehind, Behind, BehindNext, CountNext, RecoveryCount,
                                  HasLease
    <2>3. \A r \in Run : DoubtIsReal(r)'
      BY <1>18 DEF Remembers, Forgets, DoubtIsReal, ReviewInv
    <2>4. ASSUME NEW p \in Owner, InSession(p) PROVE CheckpointsBehind(p)' /\ CountedAll(p)'
      BY <1>1, <1>18, <2>1, <2>4, StillReviewed DEF ReviewInv
    <2>5. \A p \in Owner : InSession(p)' => InSession(p)
      BY <1>18 DEF InSession
    <2> QED BY <1>18, <2>2, <2>3, <2>4, <2>5 DEF ReviewInv
  <1>19. ASSUME NEW o \in Owner, NEW q \in Run, ReleaseCancelled(o, q) PROVE ReviewInv'
    BY <1>1, <1>18, <1>19, ReleaseCancelledIs DEF Acts
  <1>20. CASE Rests
    <2>1. CASE Run # {}
      <3>1. PICK q : q \in Run
        BY <2>1
      <3>2. /\ Remembers /\ history'.unreviewed = history.unreviewed
            /\ UNCHANGED <<head, session>>
            /\ \A o \in Owner : InSession(o) => pc'[o] = pc[o]
            /\ \A r \in Run : repo[r].commit = "gone" => repo'[r].commit = "gone"
        BY <1>20 DEF Rests, Remembers
      <3> QED BY <1>18, <3>1, <3>2
    <2>2. CASE Run = {}
      BY <1>1, <1>20, <2>2 DEF Rests, ReviewInv, InSession
    <2> QED BY <2>1, <2>2
  <1>21. ASSUME NEW o \in Owner, Pause(o) \/ Die(o) PROVE ReviewInv'
    BY <1>1, <1>10, <1>21, PauseIs, DieIs, SameLeases
  <1> QED
    BY <1>1, <1>7, <1>11, <1>12, <1>13, <1>14, <1>15, <1>16, <1>17, <1>19, <1>20, <1>21,
       BeginCases, EnterReviews, RestIs
    DEF SessionNext, SessionStep

(* Once a run is taken over while its commit is gone, the process with the *)
(* lease acts on it only after the review, for any number of processes,    *)
(* runs and recoveries.                                                    *)
THEOREM LostCommitsAreReviewed == SessionSpec => []EffectIsReviewed
  <1>1. SessionInit => ReviewInv
    <2> SUFFICES ASSUME SessionInit PROVE ReviewInv
      OBVIOUS
    <2>1. \A r \in Run : head[r].reconciled = 0 /\ ~head[r].committed /\ RecoveryCount(r) = 0
      BY DEF SessionInit, Init, Input, RecoveryCount, HasLease
    <2> QED BY <2>1 DEF SessionInit, ReviewInv, DoubtIsReal, HeadBehind, Behind, InSession
  <1>2. LeasedInv /\ ReviewInv /\ [SessionNext]_allVars => ReviewInv'
    BY ReviewStep
  <1>3. ReviewInv => EffectIsReviewed
    BY DEF ReviewInv, EffectIsReviewed
  <1> QED BY <1>1, <1>2, <1>3, SessionsAreBacked, PTL DEF SessionSpec
=============================================================================

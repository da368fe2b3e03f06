--------------------------- MODULE CheckpointStore ---------------------------
(***************************************************************************)
(* The checkpoint store (src/graph.py, VersionedSqliteSaver): the tables   *)
(* checkpoints and writes, the processes that load, save and clean up, and *)
(* databases older and newer programs have left.                           *)
(*                                                                         *)
(* Every process has its own connection.  One of them is idle (out), works *)
(* on a thread from the checkpoint it loaded (run), or cleans up: it lists *)
(* one thread after the other (list) and deletes what it found too old     *)
(* (delete), with other processes between the two.                         *)
(*                                                                         *)
(* A process at work has LangGraph's channels in memory.  They are filled  *)
(* by what it loads and by the nodes' updates; nothing migrates them.  put *)
(* migrates the row it saves and every node a copy of its own.             *)
(***************************************************************************)
EXTENDS Naturals, FiniteSets, StateSchema

CONSTANTS
  Process, Thread,
  Retention,       \* SHANKS_CHECKPOINT_RETENTION
  Keep,            \* the values of --keep-latest
  MaxAge,          \* the values of --max-age
  NoAge,           \* no --max-age
  NoWork,          \* a process without a checkpoint
  Legacy,          \* states that are in the database from before
  Touched,         \* the fields a run changes
  MaxCheckpoints,  \* bound: checkpoints of a thread
  MaxTime          \* bound: the clock

ASSUME StoreConstantsOK ==
  /\ Retention \in Nat \ {0} /\ Keep \subseteq Nat \ {0}
  /\ MaxAge \subseteq Nat /\ NoAge \notin Nat
  /\ Legacy \subseteq Values /\ Touched \subseteq Field
  /\ MaxCheckpoints \in Nat /\ MaxTime \in Nat

VARIABLES
  rows,     \* table checkpoints: the rows of a thread
  writes,   \* table writes: the checkpoints of a thread that have any
  last,     \* the id of the last checkpoint of a thread
  now,      \* the clock
  pc,       \* where a process is
  work,     \* the checkpoint it works from, and its channels
  sweep,    \* its clean-up: what it was asked, and what it found to delete
  ended,    \* history: threads seen finished since the clean-up began
  seen      \* history: the last checkpoint when the clean-up listed a thread

tables == <<rows, writes, last>>
vars == <<tables, now, pc, work, sweep, ended, seen>>

Row == [id : Nat \ {0}, ts : Nat, values : Values]

(* get_tuple: the row with the greatest id.                                *)
IsLatest(r, t) == r \in rows[t] /\ \A q \in rows[t] : q.id <= r.id

(* The order of cleanup's list: by timestamp and, as read, by id.          *)
NewerReversed(r, q) == r.ts < q.ts \/ (r.ts = q.ts /\ r.id > q.id)

Newer(r, q) == r.ts > q.ts \/ (r.ts = q.ts /\ r.id > q.id)

AheadOf(q, t) == {r \in rows[t] : Newer(r, q)}

(* checkpoints[keep_latest:]                                               *)
BeyondByOneMore(t, keep) == {q \in rows[t] : Cardinality(AheadOf(q, t)) > keep}

BeyondFromOneBefore(t, keep) ==
  {q \in rows[t] : Cardinality(AheadOf(q, t)) >= keep - 1}

Beyond(t, keep) == {q \in rows[t] : Cardinality(AheadOf(q, t)) >= keep}

(* The status of checkpoints[0].                                           *)
FinishedOnce(t) == \E q \in rows[t] : q.values.finished

Finished(t) == \E q \in rows[t] : AheadOf(q, t) = {} /\ q.values.finished

EndsFinished(t) == \E q \in rows[t] : IsLatest(q, t) /\ q.values.finished

TooOld(q, cutoff) == cutoff = NoAge \/ q.ts < cutoff

NothingFound == [t \in Thread |-> {}]

NoSweep == [groups |-> {}, keep |-> 1, cutoff |-> NoAge, terminal_only |-> TRUE,
            back |-> "out", doomed |-> NothingFound]

(* An invocation begins with what its caller passes, unversioned.          *)
Input == [version |-> 0, finished |-> FALSE,
          fields |-> [f \in Field |-> "missing"]]

Init ==
  /\ rows \in [Thread -> {{}} \cup {{[id |-> 1, ts |-> 0, values |-> v]} : v \in Legacy}]
  /\ writes = [t \in Thread |-> {}]
  /\ last = [t \in Thread |-> Cardinality(rows[t])]
  /\ now = 0
  /\ pc = [p \in Process |-> "out"]
  /\ work = [p \in Process |-> NoWork]
  /\ sweep = [p \in Process |-> NoSweep]
  /\ ended = [p \in Process |-> {}]
  /\ seen = [p \in Process |-> 0]
-----------------------------------------------------------------------------
(* A process takes up a thread: a new one from the caller's input, as it   *)
(* is, another from its latest row, migrated by get_tuple.  A state of a   *)
(* newer program raises, and nothing has happened.                         *)
Load(p, t) ==
  /\ pc[p] = "out"
  /\ \/ /\ rows[t] = {}
        /\ work' = [work EXCEPT ![p] = [thread |-> t, id |-> 0, values |-> Input]]
     \/ \E r \in rows[t] :
          /\ IsLatest(r, t) /\ Readable(r.values)
          /\ work' = [work EXCEPT ![p] = [thread |-> t, id |-> r.id,
                                          values |-> migrate_state(r.values)]]
  /\ pc' = [pc EXCEPT ![p] = "run"]
  /\ UNCHANGED <<tables, now, sweep, ended, seen>>

(* put_writes: what a node wrote or asked, beside its checkpoint.          *)
PutWrites(p) ==
  /\ pc[p] = "run" /\ work[p].id # 0
  /\ writes' = [writes EXCEPT ![work[p].thread] = @ \cup {work[p].id}]
  /\ UNCHANGED <<rows, last, now, pc, work, sweep, ended, seen>>

(* The wrapper's update: what the node set, and the current version on     *)
(* channels that may never have been migrated to it.                       *)
Updated(values, finished, touched) ==
  [version |-> CURRENT_STATE_SCHEMA_VERSION, finished |-> finished,
   fields |-> [f \in Field |-> IF f \in touched THEN "set" ELSE values.fields[f]]]

(* The channels when LangGraph saves: the input of a new run, which is     *)
(* saved before the first node, or what a node's update left.              *)
Channels(p) ==
  LET values == work[p].values
  IN  {input \in {Input} : values = input}
        \cup (IF work[p].id = 0 THEN {}
              ELSE {Updated(values, finished, touched) :
                      finished \in BOOLEAN, touched \in SUBSET Touched})

(* What put saves of the channels.                                         *)
SavedStampedFirst(values) ==
  migrate_state([values EXCEPT !.version = CURRENT_STATE_SCHEMA_VERSION])

Saved(values) == migrate_state(values)

(* put: the row is migrated and the channels go on as they are.  One that  *)
(* is finished releases the lease (RunLifecycle) and cleans up its thread. *)
Put(p, values) ==
  LET t == work[p].thread
      row == [id |-> last[t] + 1, ts |-> now, values |-> Saved(values)]
  IN  /\ pc[p] = "run" /\ last[t] < MaxCheckpoints
      /\ rows' = [rows EXCEPT ![t] = @ \cup {row}]
      /\ last' = [last EXCEPT ![t] = row.id]
      /\ work' = [work EXCEPT ![p] = [thread |-> t, id |-> row.id, values |-> values]]
      /\ pc' = [pc EXCEPT ![p] = IF values.finished THEN "list" ELSE "run"]
      /\ sweep' = IF values.finished
                    THEN [sweep EXCEPT ![p] = [NoSweep EXCEPT !.groups = {t},
                                                 !.keep = Retention, !.back = "run"]]
                    ELSE sweep
      /\ ended' = [q \in Process |->
           IF values.finished /\ (q = p \/ pc[q] \in {"list", "delete"})
             THEN ended[q] \cup {t} ELSE ended[q]]
      /\ UNCHANGED <<writes, now, seen>>

(* `runs cleanup`: the arguments are read, then the clock and the threads. *)
BeginCleanup(p, keep, age, terminal_only, scope) ==
  /\ pc[p] = "out"
  /\ pc' = [pc EXCEPT ![p] = "list"]
  /\ sweep' = [sweep EXCEPT ![p] =
       [NoSweep EXCEPT !.groups = {t \in scope : rows[t] # {}}, !.keep = keep,
          !.cutoff = IF age = NoAge THEN NoAge ELSE IF age > now THEN 0 ELSE now - age,
          !.terminal_only = terminal_only]]
  /\ ended' = [ended EXCEPT ![p] = {t \in Thread : EndsFinished(t)}]
  /\ UNCHANGED <<tables, now, work, seen>>

(* What cleanup finds to delete in a thread it lists.                      *)
Remove(p, t) ==
  IF sweep[p].terminal_only /\ ~Finished(t) THEN {}
  ELSE {q.id : q \in {q \in Beyond(t, sweep[p].keep) : TooOld(q, sweep[p].cutoff)}}

ListThread(p, t) ==
  /\ pc[p] = "list" /\ t \in sweep[p].groups
  /\ \A r \in rows[t] : Readable(r.values)
  /\ IF Remove(p, t) = {}
       THEN /\ sweep' = [sweep EXCEPT ![p].groups = @ \ {t}]
            /\ UNCHANGED pc
       ELSE /\ sweep' = [sweep EXCEPT ![p].doomed[t] = Remove(p, t)]
            /\ pc' = [pc EXCEPT ![p] = "delete"]
  /\ seen' = [seen EXCEPT ![p] = last[t]]
  /\ UNCHANGED <<tables, now, work, ended>>

Forget(p) ==
  /\ ended' = [ended EXCEPT ![p] = {}]
  /\ seen' = [seen EXCEPT ![p] = 0]

(* One row a newer program saved ends the command, or the run: list        *)
(* raises in the middle of the loop.                                       *)
ListRaises(p, t) ==
  /\ pc[p] = "list" /\ t \in sweep[p].groups
  /\ \E r \in rows[t] : ~Readable(r.values)
  /\ pc' = [pc EXCEPT ![p] = "out"]
  /\ work' = [work EXCEPT ![p] = NoWork]
  /\ sweep' = [sweep EXCEPT ![p] = NoSweep]
  /\ Forget(p)
  /\ UNCHANGED <<tables, now>>

(* One transaction deletes the writes and the checkpoints.                 *)
DeleteRemovedAlone(p) ==
  /\ pc[p] = "delete"
  /\ rows' = [t \in Thread |-> {r \in rows[t] : r.id \notin sweep[p].doomed[t]}]
  /\ pc' = [pc EXCEPT ![p] = "list"]
  /\ sweep' = [sweep EXCEPT ![p].doomed = NothingFound,
                 ![p].groups = {t \in @ : sweep[p].doomed[t] = {}}]
  /\ UNCHANGED <<writes, last, now, work, ended, seen>>

DeleteRemoved(p) ==
  /\ pc[p] = "delete"
  /\ rows' = [t \in Thread |-> {r \in rows[t] : r.id \notin sweep[p].doomed[t]}]
  /\ writes' = [t \in Thread |-> writes[t] \ sweep[p].doomed[t]]
  /\ pc' = [pc EXCEPT ![p] = "list"]
  /\ sweep' = [sweep EXCEPT ![p].doomed = NothingFound,
                 ![p].groups = {t \in @ : sweep[p].doomed[t] = {}}]
  /\ UNCHANGED <<last, now, work, ended, seen>>

EndCleanup(p) ==
  /\ pc[p] = "list" /\ sweep[p].groups = {}
  /\ pc' = [pc EXCEPT ![p] = sweep[p].back]
  /\ sweep' = [sweep EXCEPT ![p] = NoSweep]
  /\ Forget(p)
  /\ UNCHANGED <<tables, now, work>>

(* A process ends its invocation, or is killed anywhere; a transaction it  *)
(* had begun is rolled back.                                               *)
Leave(p) ==
  /\ pc[p] # "out"
  /\ pc' = [pc EXCEPT ![p] = "out"]
  /\ work' = [work EXCEPT ![p] = NoWork]
  /\ sweep' = [sweep EXCEPT ![p] = NoSweep]
  /\ Forget(p)
  /\ UNCHANGED <<tables, now>>

Tick ==
  /\ now < MaxTime
  /\ now' = now + 1
  /\ UNCHANGED <<tables, pc, work, sweep, ended, seen>>

ProcessStep(p) ==
  \/ PutWrites(p) \/ DeleteRemoved(p) \/ EndCleanup(p) \/ Leave(p)
  \/ \E t \in Thread : Load(p, t) \/ ListThread(p, t) \/ ListRaises(p, t)
  \/ pc[p] = "run" /\ \E values \in Channels(p) : Put(p, values)
  \/ \E keep \in Keep, age \in MaxAge \cup {NoAge}, terminal_only \in BOOLEAN,
        scope \in {Thread} \cup {{t} : t \in Thread} :
       BeginCleanup(p, keep, age, terminal_only, scope)

Next == Tick \/ \E p \in Process : ProcessStep(p)

Spec == Init /\ [][Next]_vars
-----------------------------------------------------------------------------
Sweep == [groups : SUBSET Thread, keep : Nat \ {0}, cutoff : Nat \cup {NoAge},
          terminal_only : BOOLEAN, back : {"out", "run"},
          doomed : [Thread -> SUBSET Nat]]

Working == [thread : Thread, id : Nat, values : Values]

(* Types.                                                                  *)
TypeOK ==
  /\ rows \in [Thread -> SUBSET Row]
  /\ writes \in [Thread -> SUBSET Nat]
  /\ last \in [Thread -> Nat]
  /\ now \in Nat
  /\ pc \in [Process -> {"out", "run", "list", "delete"}]
  /\ work \in [Process -> Working \cup {NoWork}]
  /\ sweep \in [Process -> Sweep]
  /\ ended \in [Process -> SUBSET Thread]
  /\ seen \in [Process -> Nat]

Ids(t) == {r.id : r \in rows[t]}

LatestRow(t) ==
  IF rows[t] = {} THEN [id |-> 0] ELSE CHOOSE r \in rows[t] : IsLatest(r, t)

Promise == INSTANCE LatestCheckpoint WITH
  latest <- [t \in Thread |-> LatestRow(t)],
  pending <- {t \in Thread : last[t] \in writes[t]}

(* "Retain recent checkpoints and delete their associated writes": what a  *)
(* resume reads changes by put and put_writes alone.  No clean-up, of any  *)
(* process and with any limits, takes the checkpoint a run continues from, *)
(* although it deletes by timestamp what another call listed before.       *)
ResumesFromLastPut == Promise!Spec

(* The clean-up that deletes leaves the newest keep_latest rows it was     *)
(* asked to keep, also those saved while it was at work, whatever other    *)
(* clean-ups did meanwhile.                                                *)
NewestAreKept ==
  [][\A t \in Thread : rows[t] \ rows'[t] # {} =>
       \E p \in Process : pc[p] = "delete" /\ pc'[p] = "list" /\
         Cardinality({r \in rows'[t] : \A q \in rows[t] \ rows'[t] : r.id > q.id})
           >= sweep[p].keep]_vars

(* After a clean-up without an age, a thread has keep_latest checkpoints   *)
(* at most, and those saved since it was listed.                           *)
RetentionIsApplied ==
  [][\A p \in Process : \A t \in sweep[p].groups \ sweep'[p].groups :
       /\ pc'[p] = "list" /\ sweep[p].cutoff = NoAge
       /\ pc[p] = "delete" \/ Finished(t) \/ ~sweep[p].terminal_only
       => Cardinality({r \in rows'[t] : r.id <= seen'[p]}) <= sweep[p].keep]_vars

(* "terminal-only is safer": without --include-active a clean-up deletes   *)
(* nothing of a thread that has not been finished since it began.          *)
UnfinishedIsKept ==
  [][\A t \in Thread : rows[t] \ rows'[t] # {} =>
       \E p \in Process : pc[p] = "delete" /\ pc'[p] = "list"
          /\ (~sweep[p].terminal_only \/ t \in ended[p])]_vars

(* A checkpoint is deleted with its writes: writes without a checkpoint    *)
(* come only from a process that adds them after the deletion.             *)
WritesGoToo ==
  [][\A t \in Thread : \A i \in writes[t] \cap writes'[t] :
       i \in Ids(t) => i \in {r.id : r \in rows'[t]}]_vars

(* A node that goes on and one that is run again after a death read the    *)
(* same state: what the wrapper makes of the channels is what it makes of  *)
(* the row saved from them, although put has migrated that row and nobody  *)
(* the channels.  All that a run or an operator has set, in either, is     *)
(* read.  The state need not be complete: one that names a version keeps   *)
(* its gaps (LeftMissing), and a new run's is stamped before anything has  *)
(* migrated it; whoever reads the fields of version two asks with a        *)
(* default.                                                                *)
RestartReadsTheSame ==
  \A p \in Process : pc[p] = "run" =>
    \A r \in rows[work[p].thread] : r.id = work[p].id =>
      LET read == migrate_state(migrate_state(r.values)) IN
        /\ read = migrate_state(work[p].values)
        /\ \A values \in {r.values, work[p].values}, f \in Field :
             values.fields[f] # "missing" => read.fields[f] = values.fields[f]
=============================================================================

------------------------ MODULE CheckpointStoreProofs ------------------------
(***************************************************************************)
(* Proofs about CheckpointStore, for any processes, threads, limits and    *)
(* databases: that migrations keep what was set, that a node run again     *)
(* reads what it read before, that a resume reads what was saved last, and *)
(* that a clean-up deletes what it should and no more, whoever saves or    *)
(* deletes between its list and its deletion.                              *)
(***************************************************************************)
EXTENDS CheckpointStore, LeastNumbers, FiniteSetTheorems, TLAPS

(* b is a with some missing fields filled in.                              *)
Grows(a, b) ==
  /\ b \in Values /\ b.finished = a.finished
  /\ \A f \in Field : a.fields[f] # "missing" => b.fields[f] = a.fields[f]

LEMMA FieldFacts ==
  /\ \A f \in Field : Introduced[f] \in 2..9
  /\ \A f \in Field \ AlwaysDefaulted : Introduced[f] = 2
  BY DEF Field, Introduced, AlwaysDefaulted

LEMMA SetDefaultsGrow ==
  ASSUME NEW a \in Values, NEW S
  PROVE  /\ Grows(a, SetDefaults(a, S))
         /\ SetDefaults(a, S).version = a.version
         /\ \A f \in Field : SetDefaults(a, S).fields[f] = "missing"
              <=> a.fields[f] = "missing" /\ f \notin S
  BY DEF SetDefaults, SetDefault, Values, Content, Grows

LEMMA GrowsIsTransitive ==
  ASSUME NEW a \in Values, NEW b, NEW c, Grows(a, b), Grows(b, c)
  PROVE  Grows(a, c)
  BY DEF Grows

(* b is a, taken to version n at least: of the fields missing in a, those  *)
(* that came with the versions in between are there.                       *)
Reached(a, b, n) ==
  /\ Grows(a, b)
  /\ b.version = IF a.version < n THEN n ELSE a.version
  /\ \A f \in Field : b.fields[f] = "missing"
       <=> a.fields[f] = "missing" /\ (Introduced[f] <= a.version \/ n < Introduced[f])

LEMMA MigrationAdvances ==
  ASSUME NEW v \in 0..7, NEW a \in Values, a.version \in 0..8, NEW b, Reached(a, b, v)
  PROVE  Reached(a, Migration(v, b), v + 1)
<1>1. b \in Values
  BY DEF Reached, Grows
<1>2. CASE a.version > v
  <2>1. Migration(v, b) = b
    BY <1>2 DEF Migration, Reached
  <2> QED BY <1>2, <2>1, FieldFacts DEF Reached
<1>3. CASE a.version <= v
  <2> DEFINE S == {f \in Field : Introduced[f] = v + 1}
             c == SetDefaults(b, S)
             d == [c EXCEPT !.version = v + 1]
  <2>1. b.version = v /\ Migration(v, b) = d
    BY <1>3 DEF Migration, Reached
  <2>2. /\ Grows(b, c)
        /\ \A f \in Field : c.fields[f] = "missing"
             <=> b.fields[f] = "missing" /\ f \notin S
    BY <1>1, SetDefaultsGrow
  <2> HIDE DEF c
  <2>3. c \in Values
    BY <2>2 DEF Grows
  <2>4. /\ d \in Values /\ d.version = v + 1
        /\ d.finished = c.finished /\ d.fields = c.fields
    BY <2>3 DEF Values, Version, CURRENT_STATE_SCHEMA_VERSION
  <2> HIDE DEF d
  <2>5. Grows(a, d)
    <3>1. Grows(b, d)
      BY <2>2, <2>4 DEF Grows
    <3> QED BY <3>1, GrowsIsTransitive DEF Reached
  <2>6. ASSUME NEW f \in Field
        PROVE  d.fields[f] = "missing" <=>
               a.fields[f] = "missing" /\ (Introduced[f] <= a.version \/ v + 1 < Introduced[f])
    <3>1. d.fields[f] = "missing" <=> b.fields[f] = "missing" /\ Introduced[f] # v + 1
      BY <2>2, <2>4
    <3>2. b.fields[f] = "missing" <=>
            a.fields[f] = "missing" /\ (Introduced[f] <= a.version \/ v < Introduced[f])
      BY DEF Reached
    <3>3. Introduced[f] \in Nat
      BY FieldFacts
    <3> QED BY <1>3, <3>1, <3>2, <3>3
  <2>7. a.version < v + 1
    BY <1>3
  <2> QED BY <2>1, <2>4, <2>5, <2>6, <2>7 DEF Reached
<1> QED BY <1>2, <1>3

(* migrate_state takes a state of any earlier version to the current one,  *)
(* keeps what was set, and leaves the gaps that LeftMissing names.         *)
LEMMA MigrateStateGrows ==
  ASSUME NEW a \in Values, Readable(a)
  PROVE  /\ Grows(a, migrate_state(a))
         /\ migrate_state(a).version = CURRENT_STATE_SCHEMA_VERSION
         /\ {f \in Field : migrate_state(a).fields[f] = "missing"} = LeftMissing(a)
<1> DEFINE m1 == Migration(0, a)
           m2 == Migration(1, m1)
           m3 == Migration(2, m2)
           m4 == Migration(3, m3)
           m5 == Migration(4, m4)
           m6 == Migration(5, m5)
           m7 == Migration(6, m6)
           m8 == Migration(7, m7)
<1>1. a.version \in 0..8
  BY DEF Readable, Values, Version, CURRENT_STATE_SCHEMA_VERSION
<1>2. Reached(a, a, 0)
  BY <1>1, FieldFacts DEF Reached, Grows
<1>3. Reached(a, m1, 1)
  BY <1>1, <1>2, MigrationAdvances
<1>4. Reached(a, m2, 2)
  <2> HIDE DEF m1
  <2> QED BY <1>1, <1>3, MigrationAdvances
<1>5. Reached(a, m3, 3)
  <2> HIDE DEF m2
  <2> QED BY <1>1, <1>4, MigrationAdvances
<1>6. Reached(a, m4, 4)
  <2> HIDE DEF m3
  <2> QED BY <1>1, <1>5, MigrationAdvances
<1>7. Reached(a, m5, 5)
  <2> HIDE DEF m4
  <2> QED BY <1>1, <1>6, MigrationAdvances
<1>8. Reached(a, m6, 6)
  <2> HIDE DEF m5
  <2> QED BY <1>1, <1>7, MigrationAdvances
<1>9. Reached(a, m7, 7)
  <2> HIDE DEF m6
  <2> QED BY <1>1, <1>8, MigrationAdvances
<1>10. Reached(a, m8, 8)
  <2> HIDE DEF m7
  <2> QED BY <1>1, <1>9, MigrationAdvances
<1>11. migrate_state(a) = SetDefaults(m8, AlwaysDefaulted)
  BY DEF migrate_state
<1> HIDE DEF m8
<1>12. m8 \in Values /\ Grows(a, m8) /\ m8.version = 8
  BY <1>1, <1>10 DEF Reached, Grows
<1> DEFINE m == SetDefaults(m8, AlwaysDefaulted)
<1>13. /\ Grows(m8, m) /\ m.version = 8
       /\ \A f \in Field : m.fields[f] = "missing"
            <=> m8.fields[f] = "missing" /\ f \notin AlwaysDefaulted
  BY <1>12, SetDefaultsGrow
<1> HIDE DEF m
<1>14. ASSUME NEW f \in Field
       PROVE  m.fields[f] = "missing" <=> f \in LeftMissing(a)
  <2>1. m8.fields[f] = "missing" <=>
          a.fields[f] = "missing" /\ (Introduced[f] <= a.version \/ 8 < Introduced[f])
    BY <1>10 DEF Reached
  <2>2. f \notin AlwaysDefaulted => ~(8 < Introduced[f])
    BY FieldFacts
  <2> QED BY <1>13, <2>1, <2>2 DEF LeftMissing
<1>15. {f \in Field : m.fields[f] = "missing"} = LeftMissing(a)
  BY <1>14 DEF LeftMissing
<1>16. Grows(a, m)
  BY <1>12, <1>13, GrowsIsTransitive
<1>17. migrate_state(a) = m
  BY <1>11 DEF m
<1> QED BY <1>13, <1>15, <1>16, <1>17 DEF CURRENT_STATE_SCHEMA_VERSION

(* A migrated state is migrated for good.                                  *)
LEMMA MigrateStateStable ==
  ASSUME NEW a \in Values, Readable(a)
  PROVE  migrate_state(migrate_state(a)) = migrate_state(a)
<1>1. PICK b : b = migrate_state(a)
  OBVIOUS
<1>2. /\ b \in Values /\ b.version = 8
      /\ \A f \in Field \cap AlwaysDefaulted : b.fields[f] # "missing"
  BY <1>1, MigrateStateGrows DEF Grows, LeftMissing, CURRENT_STATE_SCHEMA_VERSION
<1>3. \A v \in 0..7 : Migration(v, b) = b
  BY <1>2 DEF Migration
<1>4. SetDefaults(b, AlwaysDefaulted) = b
  BY <1>2 DEF SetDefaults, SetDefault, Values
<1>5. migrate_state(b) = b
  BY <1>3, <1>4 DEF migrate_state
<1> QED BY <1>1, <1>5

(* A state of any version, with any fields missing, is migrated to the     *)
(* current one with all that was set in it, lacks what LeftMissing says,   *)
(* and stays as it is when it is migrated again: on every read and write,  *)
(* and by every node.                                                      *)
THEOREM MigrationsAreSafe ==
  ASSUME NEW values \in Values, Readable(values)
  PROVE  LET migrated == migrate_state(values) IN
           /\ migrated \in Values /\ migrated.version = CURRENT_STATE_SCHEMA_VERSION
           /\ migrated.finished = values.finished
           /\ \A f \in Field : values.fields[f] # "missing" =>
                migrated.fields[f] = values.fields[f]
           /\ {f \in Field : migrated.fields[f] = "missing"} = LeftMissing(values)
           /\ migrate_state(migrated) = migrated
  BY MigrateStateGrows, MigrateStateStable DEF Grows

-----------------------------------------------------------------------------
(* A thread's rows were saved in the order of their ids, under different   *)
(* ids, and the one saved last is among them.                              *)
InOrder(t) ==
  /\ \A r \in rows[t] : r.id <= last[t] /\ r.ts <= now
  /\ \A r, q \in rows[t] : r.id < q.id => r.ts <= q.ts
  /\ \A r, q \in rows[t] : r.id = q.id => r = q
  /\ last[t] # 0 => \E r \in rows[t] : r.id = last[t]
  /\ writes[t] \subseteq 0..last[t]

(* What a clean-up has found to delete was saved before the last.          *)
SparesLast(p) == \A t \in Thread : \A i \in sweep[p].doomed[t] : i < last[t]

(* A process works from a checkpoint of its thread; where its row is still *)
(* there, the row is what it saved of its channels, or loaded them from.   *)
Holds(p) ==
  \/ pc[p] = "run"
  \/ pc[p] \in {"list", "delete"} /\ sweep[p].back = "run"

WorksOn(p) ==
  /\ work[p] \in Working /\ work[p].id <= last[work[p].thread]
  /\ Readable(work[p].values)
  /\ \A r \in rows[work[p].thread] : r.id = work[p].id =>
       /\ Readable(r.values)
       /\ migrate_state(r.values) = migrate_state(work[p].values)

StoreInv ==
  /\ TypeOK
  /\ \A t \in Thread : InOrder(t)
  /\ \A p \in Process : SparesLast(p) /\ (Holds(p) => WorksOn(p))

USE StoreConstantsOK DEF StoreConstantsOK

LEMMA InputIsOld == Input \in Values /\ Readable(Input) /\ Input.finished = FALSE
  BY DEF Input, Values, Version, Content, Readable, CURRENT_STATE_SCHEMA_VERSION

LEMMA NoSweepIsSweep ==
  NoSweep \in Sweep /\ \A t \in Thread : NoSweep.doomed[t] = {}
  BY DEF NoSweep, Sweep, NothingFound

LEMMA InitStore == Init => StoreInv
<1> SUFFICES ASSUME Init PROVE StoreInv
  OBVIOUS
<1>1. \A t \in Thread : \/ rows[t] = {} /\ last[t] = 0
                        \/ \E v \in Legacy : rows[t] = {[id |-> 1, ts |-> 0, values |-> v]}
                                              /\ last[t] = 1
  <2> SUFFICES ASSUME NEW t \in Thread
               PROVE  \/ rows[t] = {} /\ last[t] = 0
                      \/ \E v \in Legacy : rows[t] = {[id |-> 1, ts |-> 0, values |-> v]}
                                            /\ last[t] = 1
    OBVIOUS
  <2>1. rows[t] = {} \/ \E v \in Legacy : rows[t] = {[id |-> 1, ts |-> 0, values |-> v]}
    BY DEF Init
  <2>2. last[t] = Cardinality(rows[t])
    BY DEF Init
  <2>3. CASE rows[t] = {}
    BY <2>2, <2>3, FS_EmptySet
  <2>4. ASSUME NEW v \in Legacy, rows[t] = {[id |-> 1, ts |-> 0, values |-> v]}
        PROVE  last[t] = 1
    BY <2>2, <2>4, FS_Singleton
  <2> QED BY <2>1, <2>3, <2>4
<1>2. \A t \in Thread : InOrder(t)
  <2> SUFFICES ASSUME NEW t \in Thread PROVE InOrder(t)
    OBVIOUS
  <2>1. writes[t] = {} /\ now = 0
    BY DEF Init
  <2>2. CASE rows[t] = {} /\ last[t] = 0
    BY <2>1, <2>2 DEF InOrder
  <2>3. ASSUME NEW v \in Legacy, last[t] = 1,
               rows[t] = {[id |-> 1, ts |-> 0, values |-> v]}
        PROVE  InOrder(t)
    BY <2>1, <2>3 DEF InOrder
  <2> QED BY <1>1, <2>2, <2>3
<1>3. rows \in [Thread -> SUBSET Row] /\ last \in [Thread -> Nat]
  <2>1. DOMAIN rows = Thread /\ DOMAIN last = Thread
    BY DEF Init
  <2>2. \A t \in Thread : rows[t] \subseteq Row /\ last[t] \in Nat
    BY <1>1 DEF Row
  <2> QED BY <2>1, <2>2 DEF Init
<1>4. TypeOK
  BY <1>3, NoSweepIsSweep DEF Init, TypeOK
<1>5. \A p \in Process : SparesLast(p) /\ (Holds(p) => WorksOn(p))
  BY NoSweepIsSweep DEF Init, SparesLast, Holds, NoSweep
<1> QED BY <1>2, <1>4, <1>5 DEF StoreInv

-----------------------------------------------------------------------------
(* A step that leaves the tables alone keeps their order.                  *)
LEMMA TablesUntouched ==
  ASSUME StoreInv, UNCHANGED tables, now' \in Nat, now <= now'
  PROVE  /\ \A t \in Thread : InOrder(t)'
         /\ rows' \in [Thread -> SUBSET Row] /\ writes' \in [Thread -> SUBSET Nat]
         /\ last' \in [Thread -> Nat]
<1>1. \A t \in Thread : InOrder(t)'
  <2> SUFFICES ASSUME NEW t \in Thread PROVE InOrder(t)'
    OBVIOUS
  <2>1. \A r \in rows[t] : r.ts \in Nat
    BY DEF StoreInv, TypeOK, Row
  <2>2. \A r \in rows[t] : r.ts <= now'
    BY <2>1 DEF StoreInv, TypeOK, InOrder
  <2> QED BY <2>2 DEF StoreInv, InOrder, tables
<1> QED BY <1>1 DEF StoreInv, TypeOK, tables

LEMMA LoadStep ==
  ASSUME StoreInv, NEW p \in Process, NEW t \in Thread, Load(p, t)
  PROVE  StoreInv'
<1>1. UNCHANGED tables /\ now' = now /\ now \in Nat
  BY DEF Load, StoreInv, TypeOK
<1>2. PICK n \in 0..last[t], a \in Values :
        /\ Readable(a)
        /\ work' = [work EXCEPT ![p] = [thread |-> t, id |-> n, values |-> a]]
        /\ \A r \in rows[t] : r.id = n =>
             Readable(r.values) /\ migrate_state(r.values) = migrate_state(a)
  <2>1. CASE /\ rows[t] = {}
             /\ work' = [work EXCEPT ![p] = [thread |-> t, id |-> 0, values |-> Input]]
    <3>1. 0 \in 0..last[t]
      BY DEF StoreInv, TypeOK
    <3> QED BY <2>1, <3>1, InputIsOld
  <2>2. ASSUME NEW r \in rows[t], Readable(r.values),
               work' = [work EXCEPT ![p] = [thread |-> t, id |-> r.id,
                                            values |-> migrate_state(r.values)]]
        PROVE  \E n \in 0..last[t], a \in Values :
                 /\ Readable(a)
                 /\ work' = [work EXCEPT ![p] = [thread |-> t, id |-> n, values |-> a]]
                 /\ \A q \in rows[t] : q.id = n =>
                      Readable(q.values) /\ migrate_state(q.values) = migrate_state(a)
    <3>1. r \in Row /\ r.id <= last[t]
      BY DEF StoreInv, TypeOK, InOrder
    <3>2. r.id \in 0..last[t] /\ r.values \in Values
      BY <3>1 DEF Row, StoreInv, TypeOK
    <3>3. /\ migrate_state(r.values) \in Values /\ Readable(migrate_state(r.values))
          /\ migrate_state(migrate_state(r.values)) = migrate_state(r.values)
      BY <2>2, <3>2, MigrateStateGrows, MigrateStateStable
         DEF Grows, Readable, CURRENT_STATE_SCHEMA_VERSION
    <3>4. \A q \in rows[t] : q.id = r.id => q = r
      BY DEF StoreInv, InOrder
    <3>5. PICK m : m = migrate_state(r.values)
      OBVIOUS
    <3>6. /\ r.id \in 0..last[t] /\ m \in Values /\ Readable(m)
          /\ work' = [work EXCEPT ![p] = [thread |-> t, id |-> r.id, values |-> m]]
          /\ \A q \in rows[t] : q.id = r.id =>
               Readable(q.values) /\ migrate_state(q.values) = migrate_state(m)
      BY <2>2, <3>2, <3>3, <3>4, <3>5
    <3> QED BY <3>6
  <2> QED BY <2>1, <2>2 DEF Load
<1> DEFINE held == [thread |-> t, id |-> n, values |-> a]
<1>3. /\ held \in Working /\ held.id <= last[t] /\ held.thread = t
      /\ held.id = n /\ held.values = a
  BY <1>2 DEF Working, StoreInv, TypeOK
<1>4. work' = [work EXCEPT ![p] = held] /\ pc' = [pc EXCEPT ![p] = "run"]
  BY <1>2 DEF Load
<1>5. UNCHANGED <<sweep, ended, seen>>
  BY DEF Load
<1> HIDE DEF held
<1>6. TypeOK'
  BY <1>1, <1>3, <1>4, <1>5, TablesUntouched DEF StoreInv, TypeOK
<1>7. \A q \in Process : SparesLast(q)'
  BY <1>1, <1>5 DEF StoreInv, SparesLast, tables
<1>8. \A q \in Process : Holds(q)' => WorksOn(q)'
  <2> SUFFICES ASSUME NEW q \in Process, Holds(q)' PROVE WorksOn(q)'
    OBVIOUS
  <2>1. CASE q = p
    <3>1. work'[p] = held
      BY <1>4 DEF StoreInv, TypeOK
    <3> QED BY <1>1, <1>2, <1>3, <2>1, <3>1 DEF WorksOn, tables
  <2>2. CASE q # p
    <3>1. Holds(q) /\ work'[q] = work[q]
      BY <1>4, <1>5, <2>2 DEF StoreInv, TypeOK, Holds
    <3> QED BY <1>1, <3>1 DEF StoreInv, WorksOn, tables
  <2> QED BY <2>1, <2>2
<1> QED BY <1>1, <1>6, <1>7, <1>8, TablesUntouched DEF StoreInv

LEMMA PutWritesStep ==
  ASSUME StoreInv, NEW p \in Process, PutWrites(p)
  PROVE  StoreInv'
<1> DEFINE t == work[p].thread
<1>1. work[p] \in Working /\ work[p].id <= last[t]
  <2>1. Holds(p)
    BY DEF PutWrites, Holds
  <2> QED BY <2>1 DEF StoreInv, WorksOn
<1>2. t \in Thread /\ work[p].id \in Nat
  BY <1>1 DEF Working
<1>3. writes' = [writes EXCEPT ![t] = @ \cup {work[p].id}]
  BY DEF PutWrites
<1>4. UNCHANGED <<rows, last, now, pc, work, sweep, ended, seen>>
  BY DEF PutWrites
<1>5. TypeOK'
  BY <1>2, <1>3, <1>4 DEF StoreInv, TypeOK
<1>6. \A u \in Thread : InOrder(u)'
  <2> SUFFICES ASSUME NEW u \in Thread PROVE InOrder(u)'
    OBVIOUS
  <2>1. writes'[u] \subseteq 0..last[u]
    BY <1>1, <1>2, <1>3 DEF StoreInv, TypeOK, InOrder
  <2> QED BY <2>1, <1>4 DEF StoreInv, InOrder
<1>7. \A q \in Process : SparesLast(q)' /\ (Holds(q)' => WorksOn(q)')
  BY <1>4 DEF StoreInv, SparesLast, Holds, WorksOn
<1> QED BY <1>5, <1>6, <1>7 DEF StoreInv

(* A clean-up that begins, goes on or ends, and has found to delete only   *)
(* what was saved before the last.                                         *)
LEMMA SweepStep ==
  ASSUME StoreInv, NEW p \in Process, UNCHANGED <<tables, now>>,
         NEW s \in Sweep, \A t \in Thread : \A i \in s.doomed[t] : i < last[t],
         sweep' = [sweep EXCEPT ![p] = s],
         NEW c \in {"out", "run", "list", "delete"}, pc' = [pc EXCEPT ![p] = c],
         work' = work \/ (c = "out" /\ work' = [work EXCEPT ![p] = NoWork]),
         c = "run" \/ (c \in {"list", "delete"} /\ s.back = "run")
           => Holds(p) /\ work' = work,
         ended' \in [Process -> SUBSET Thread], seen' \in [Process -> Nat]
  PROVE  StoreInv'
<1>1. now \in Nat
  BY DEF StoreInv, TypeOK
<1>2. TypeOK'
  <2>1. /\ sweep' \in [Process -> Sweep]
        /\ pc' \in [Process -> {"out", "run", "list", "delete"}]
    BY DEF StoreInv, TypeOK
  <2>2. work' \in [Process -> Working \cup {NoWork}]
    BY DEF StoreInv, TypeOK
  <2> QED BY <1>1, <2>1, <2>2, TablesUntouched DEF TypeOK
<1>3. \A q \in Process : SparesLast(q)'
  BY DEF StoreInv, TypeOK, SparesLast, tables
<1>4. \A q \in Process : Holds(q)' => WorksOn(q)'
  <2> SUFFICES ASSUME NEW q \in Process, Holds(q)' PROVE WorksOn(q)'
    OBVIOUS
  <2>1. CASE q = p
    BY <2>1 DEF StoreInv, TypeOK, Holds, WorksOn, tables
  <2>2. CASE q # p
    <3>1. Holds(q)
      BY <2>2 DEF StoreInv, TypeOK, Holds
    <3>2. work'[q] = work[q]
      BY <2>2 DEF StoreInv, TypeOK
    <3> QED BY <3>1, <3>2 DEF StoreInv, WorksOn, tables
  <2> QED BY <2>1, <2>2
<1> QED BY <1>1, <1>2, <1>3, <1>4, TablesUntouched DEF StoreInv

(* The clean-up's list ends with what it deletes: by timestamp and, within *)
(* one moment, by id, the last row is never beyond the first.              *)
LEMMA BeyondIsBeforeLast ==
  ASSUME StoreInv, NEW t \in Thread, NEW keep \in Nat \ {0}, NEW q \in Beyond(t, keep)
  PROVE  q.id \in Nat /\ q.id < last[t]
<1>1. q \in rows[t] /\ q \in Row /\ q.id <= last[t]
  BY DEF Beyond, StoreInv, TypeOK, InOrder
<1>2. AheadOf(q, t) # {}
  <2>1. Cardinality(AheadOf(q, t)) >= keep
    BY DEF Beyond
  <2>2. CASE AheadOf(q, t) = {}
    BY <2>1, <2>2, FS_EmptySet
  <2> QED BY <2>2
<1>3. PICK r \in rows[t] : Newer(r, q)
  BY <1>2 DEF AheadOf
<1>4. r \in Row /\ r.id <= last[t] /\ last[t] \in Nat
  BY DEF StoreInv, TypeOK, InOrder
<1>5. q.id # last[t]
  <2> SUFFICES ASSUME q.id = last[t] PROVE FALSE
    OBVIOUS
  <2>1. CASE r.id = q.id
    <3>1. r = q
      BY <1>1, <2>1 DEF StoreInv, InOrder
    <3> QED BY <1>1, <1>3, <3>1 DEF Newer, Row
  <2>2. CASE r.id < q.id
    <3>1. r.ts <= q.ts
      BY <1>1, <2>2 DEF StoreInv, InOrder
    <3> QED BY <1>1, <1>3, <1>4, <2>2, <3>1 DEF Newer, Row
  <2> QED BY <1>1, <1>4, <2>1, <2>2 DEF Row
<1> QED BY <1>1, <1>4, <1>5 DEF Row

LEMMA BeginCleanupStep ==
  ASSUME StoreInv, NEW p \in Process, NEW keep \in Keep, NEW age \in MaxAge \cup {NoAge},
         NEW terminal_only \in BOOLEAN, NEW scope \in SUBSET Thread,
         BeginCleanup(p, keep, age, terminal_only, scope)
  PROVE  StoreInv'
<1> DEFINE s == [NoSweep EXCEPT !.groups = {t \in scope : rows[t] # {}}, !.keep = keep,
                   !.cutoff = IF age = NoAge THEN NoAge
                              ELSE IF age > now THEN 0 ELSE now - age,
                   !.terminal_only = terminal_only]
<1>1. now \in Nat
  BY DEF StoreInv, TypeOK
<1>2. s \in Sweep /\ s.back = "out" /\ \A t \in Thread : s.doomed[t] = {}
  <2>1. (IF age = NoAge THEN NoAge ELSE IF age > now THEN 0 ELSE now - age)
           \in Nat \cup {NoAge}
    BY <1>1
  <2>2. keep \in Nat \ {0}
    OBVIOUS
  <2> QED BY <2>1, <2>2 DEF NoSweep, Sweep, NothingFound
<1>3. sweep' = [sweep EXCEPT ![p] = s] /\ pc' = [pc EXCEPT ![p] = "list"]
  BY DEF BeginCleanup
<1>4. UNCHANGED <<tables, now>> /\ work' = work /\ seen' = seen
  BY DEF BeginCleanup
<1>5. ended' \in [Process -> SUBSET Thread] /\ seen' \in [Process -> Nat]
  BY DEF BeginCleanup, StoreInv, TypeOK
<1> HIDE DEF s
<1> QED BY <1>2, <1>3, <1>4, <1>5, SweepStep

LEMMA ListThreadStep ==
  ASSUME StoreInv, NEW p \in Process, NEW t \in Thread, ListThread(p, t)
  PROVE  StoreInv'
<1>1. sweep[p] \in Sweep /\ pc[p] = "list" /\ SparesLast(p)
  BY DEF ListThread, StoreInv, TypeOK
<1>2. Remove(p, t) \in SUBSET Nat /\ \A i \in Remove(p, t) : i < last[t]
  BY <1>1, BeyondIsBeforeLast DEF Remove, Sweep
<1>3. UNCHANGED <<tables, now>> /\ work' = work /\ ended' = ended
  BY DEF ListThread
<1>4. ended' \in [Process -> SUBSET Thread] /\ seen' \in [Process -> Nat]
  BY DEF ListThread, StoreInv, TypeOK
<1>5. CASE Remove(p, t) = {}
  <2> DEFINE s == [sweep[p] EXCEPT !.groups = @ \ {t}]
  <2>1. s \in Sweep /\ s.back = sweep[p].back /\ s.doomed = sweep[p].doomed
    BY <1>1 DEF Sweep
  <2>2. sweep' = [sweep EXCEPT ![p] = s] /\ pc' = [pc EXCEPT ![p] = "list"]
    BY <1>1, <1>5 DEF ListThread, StoreInv, TypeOK
  <2> HIDE DEF s
  <2> QED BY <1>1, <1>3, <1>4, <2>1, <2>2, SweepStep DEF SparesLast, Holds
<1>6. CASE Remove(p, t) # {}
  <2> DEFINE s == [sweep[p] EXCEPT !.doomed[t] = Remove(p, t)]
  <2>1. /\ s \in Sweep /\ s.back = sweep[p].back
        /\ s.doomed = [sweep[p].doomed EXCEPT ![t] = Remove(p, t)]
    BY <1>1, <1>2 DEF Sweep
  <2>2. \A u \in Thread : \A i \in s.doomed[u] : i < last[u]
    BY <1>1, <1>2, <2>1 DEF SparesLast, Sweep
  <2>3. sweep' = [sweep EXCEPT ![p] = s] /\ pc' = [pc EXCEPT ![p] = "delete"]
    BY <1>6 DEF ListThread
  <2> HIDE DEF s
  <2> QED BY <1>1, <1>3, <1>4, <2>1, <2>2, <2>3, SweepStep DEF Holds
<1> QED BY <1>5, <1>6

LEMMA DeleteRemovedStep ==
  ASSUME StoreInv, NEW p \in Process, DeleteRemoved(p)
  PROVE  StoreInv'
<1>1. sweep[p] \in Sweep /\ SparesLast(p) /\ pc[p] = "delete"
  BY DEF DeleteRemoved, StoreInv, TypeOK
<1>2. /\ rows' = [t \in Thread |-> {r \in rows[t] : r.id \notin sweep[p].doomed[t]}]
      /\ writes' = [t \in Thread |-> writes[t] \ sweep[p].doomed[t]]
      /\ UNCHANGED <<last, now, work, ended, seen>>
      /\ pc' = [pc EXCEPT ![p] = "list"]
  BY DEF DeleteRemoved
<1>3. /\ sweep'[p] \in Sweep /\ sweep'[p].back = sweep[p].back
      /\ \A t \in Thread : sweep'[p].doomed[t] = {}
      /\ sweep' = [sweep EXCEPT ![p] = sweep'[p]]
  BY <1>1 DEF DeleteRemoved, StoreInv, TypeOK, Sweep, NothingFound
<1>4. \A t \in Thread : InOrder(t)'
  <2> SUFFICES ASSUME NEW t \in Thread PROVE InOrder(t)'
    OBVIOUS
  <2>1. rows'[t] \subseteq rows[t] /\ writes'[t] \subseteq writes[t]
    BY <1>2
  <2>2. last[t] # 0 => \E r \in rows'[t] : r.id = last[t]
    <3> SUFFICES ASSUME last[t] # 0 PROVE \E r \in rows'[t] : r.id = last[t]
      OBVIOUS
    <3>1. PICK r \in rows[t] : r.id = last[t]
      BY DEF StoreInv, InOrder
    <3>2. r.id \notin sweep[p].doomed[t]
      BY <1>1, <3>1 DEF SparesLast, StoreInv, TypeOK
    <3> QED BY <1>2, <3>1, <3>2
  <2> QED BY <1>2, <2>1, <2>2 DEF StoreInv, InOrder
<1>5. TypeOK'
  <2>1. /\ rows' \in [Thread -> SUBSET Row] /\ writes' \in [Thread -> SUBSET Nat]
        /\ pc' \in [Process -> {"out", "run", "list", "delete"}]
        /\ sweep' \in [Process -> Sweep]
    BY <1>2, <1>3 DEF StoreInv, TypeOK
  <2> QED BY <1>2, <2>1 DEF StoreInv, TypeOK
<1>6. \A q \in Process : SparesLast(q)'
  BY <1>2, <1>3 DEF StoreInv, TypeOK, SparesLast
<1>7. \A q \in Process : Holds(q)' => WorksOn(q)'
  <2> SUFFICES ASSUME NEW q \in Process, Holds(q)' PROVE WorksOn(q)'
    OBVIOUS
  <2>1. Holds(q)
    BY <1>1, <1>2, <1>3 DEF StoreInv, TypeOK, Holds
  <2>2. WorksOn(q) /\ work[q].thread \in Thread
    BY <2>1 DEF StoreInv, WorksOn, Working
  <2>3. rows'[work[q].thread] \subseteq rows[work[q].thread]
    BY <1>2, <2>2
  <2> QED BY <1>2, <2>2, <2>3 DEF WorksOn
<1> QED BY <1>4, <1>5, <1>6, <1>7 DEF StoreInv

LEMMA EndOfSweepStep ==
  ASSUME StoreInv, NEW p \in Process,
         EndCleanup(p) \/ Leave(p) \/ \E t \in Thread : ListRaises(p, t)
  PROVE  StoreInv'
<1>1. /\ UNCHANGED <<tables, now>> /\ sweep' = [sweep EXCEPT ![p] = NoSweep]
      /\ ended' = [ended EXCEPT ![p] = {}] /\ seen' = [seen EXCEPT ![p] = 0]
  BY DEF EndCleanup, Leave, ListRaises, Forget
<1>2. ended' \in [Process -> SUBSET Thread] /\ seen' \in [Process -> Nat]
  BY <1>1 DEF StoreInv, TypeOK
<1>3. \A t \in Thread : \A i \in NoSweep.doomed[t] : i < last[t]
  BY NoSweepIsSweep
<1>4. NoSweep.back = "out"
  BY DEF NoSweep
<1>5. CASE EndCleanup(p)
  <2>1. sweep[p].back \in {"out", "run"}
    BY DEF StoreInv, TypeOK, Sweep
  <2>2. pc' = [pc EXCEPT ![p] = sweep[p].back] /\ work' = work /\ pc[p] = "list"
    BY <1>5 DEF EndCleanup
  <2> QED BY <1>1, <1>2, <1>3, <1>4, <2>1, <2>2, NoSweepIsSweep, SweepStep DEF Holds
<1>6. CASE Leave(p) \/ \E t \in Thread : ListRaises(p, t)
  <2>1. pc' = [pc EXCEPT ![p] = "out"] /\ work' = [work EXCEPT ![p] = NoWork]
    BY <1>6 DEF Leave, ListRaises
  <2> QED BY <1>1, <1>2, <1>3, <2>1, NoSweepIsSweep, SweepStep
<1> QED BY <1>5, <1>6

LEMMA TickStep == ASSUME StoreInv, Tick PROVE StoreInv'
<1>1. UNCHANGED tables /\ now' \in Nat /\ now <= now'
  BY DEF Tick, StoreInv, TypeOK
<1>2. UNCHANGED <<pc, work, sweep, ended, seen>>
  BY DEF Tick
<1>3. TypeOK'
  BY <1>1, <1>2, TablesUntouched DEF StoreInv, TypeOK
<1>4. \A q \in Process : SparesLast(q)' /\ (Holds(q)' => WorksOn(q)')
  BY <1>1, <1>2 DEF StoreInv, SparesLast, Holds, WorksOn, tables
<1> QED BY <1>1, <1>3, <1>4, TablesUntouched DEF StoreInv

(* What a process saves of its channels has types, is of no newer version  *)
(* and finished as the channels say.                                       *)
LEMMA ChannelValues ==
  ASSUME StoreInv, NEW p \in Process, pc[p] = "run", NEW values \in Channels(p)
  PROVE  /\ values \in Values /\ Readable(values)
         /\ Saved(values) \in Values /\ Readable(Saved(values))
         /\ Saved(values).finished = values.finished
         /\ migrate_state(Saved(values)) = migrate_state(values)
<1>1. work[p].values \in Values
  BY DEF Holds, StoreInv, WorksOn, Working
<1>2. values \in Values /\ Readable(values)
  <2>1. CASE values = Input
    BY <2>1, InputIsOld
  <2>2. ASSUME NEW finished \in BOOLEAN, NEW touched \in SUBSET Touched,
               values = Updated(work[p].values, finished, touched)
        PROVE  values \in Values /\ Readable(values)
    BY <1>1, <2>2 DEF Updated, Values, Content, Version, Readable,
       CURRENT_STATE_SCHEMA_VERSION
  <2> QED BY <2>1, <2>2 DEF Channels
<1>3. /\ migrate_state(values) \in Values /\ Readable(migrate_state(values))
      /\ migrate_state(values).finished = values.finished
  BY <1>2, MigrateStateGrows DEF Grows, Readable, CURRENT_STATE_SCHEMA_VERSION
<1>4. migrate_state(migrate_state(values)) = migrate_state(values)
  BY <1>2, MigrateStateStable
<1> QED BY <1>2, <1>3, <1>4 DEF Saved

LEMMA PutStep ==
  ASSUME StoreInv, NEW p \in Process, pc[p] = "run", NEW values \in Channels(p),
         Put(p, values)
  PROVE  StoreInv'
<1> DEFINE t == work[p].thread
           row == [id |-> last[t] + 1, ts |-> now, values |-> Saved(values)]
           s == [NoSweep EXCEPT !.groups = {t}, !.keep = Retention, !.back = "run"]
<1>1. WorksOn(p)
  BY DEF Holds, StoreInv
<1>2. work[p] \in Working /\ t \in Thread
  BY <1>1 DEF WorksOn, Working
<1>3. /\ values \in Values /\ Readable(values)
      /\ Saved(values) \in Values /\ Readable(Saved(values))
      /\ migrate_state(Saved(values)) = migrate_state(values)
  BY ChannelValues
<1>5. last \in [Thread -> Nat] /\ now \in Nat
  BY DEF StoreInv, TypeOK
<1>6. /\ row \in Row /\ row.id = last[t] + 1 /\ row.ts = now
      /\ row.values = Saved(values)
  BY <1>2, <1>3, <1>5 DEF Row
<1>7. /\ rows' = [rows EXCEPT ![t] = @ \cup {row}]
      /\ last' = [last EXCEPT ![t] = row.id]
      /\ work' = [work EXCEPT ![p] = [thread |-> t, id |-> row.id, values |-> values]]
      /\ pc' = [pc EXCEPT ![p] = IF values.finished THEN "list" ELSE "run"]
      /\ sweep' = IF values.finished THEN [sweep EXCEPT ![p] = s] ELSE sweep
      /\ UNCHANGED <<writes, now, seen>>
  BY DEF Put
<1>8. ended' \in [Process -> SUBSET Thread]
  BY <1>2 DEF Put, StoreInv, TypeOK
<1>9. s \in Sweep /\ s.back = "run" /\ \A u \in Thread : s.doomed[u] = {}
  BY <1>2, NoSweepIsSweep DEF NoSweep, Sweep
<1> HIDE DEF row, s
<1>10. \A u \in Thread : InOrder(u)'
  <2> SUFFICES ASSUME NEW u \in Thread PROVE InOrder(u)'
    OBVIOUS
  <2>1. CASE u # t
    <3>1. rows'[u] = rows[u] /\ last'[u] = last[u] /\ writes'[u] = writes[u] /\ now' = now
      BY <1>2, <1>7, <2>1 DEF StoreInv, TypeOK
    <3> QED BY <3>1 DEF StoreInv, InOrder
  <2>2. CASE u = t
    <3>1. /\ rows'[t] = rows[t] \cup {row} /\ last'[t] = last[t] + 1
          /\ writes'[t] = writes[t] /\ now' = now
      BY <1>2, <1>6, <1>7 DEF StoreInv, TypeOK
    <3>2. \A r \in rows[t] : /\ r.id \in Nat /\ r.ts \in Nat
                             /\ r.id <= last[t] /\ r.ts <= now
      BY <1>2 DEF StoreInv, TypeOK, InOrder, Row
    <3>3. last[t] \in Nat /\ now \in Nat
      BY <1>2, <1>5
    <3>4. \A r \in rows'[t] : r.id <= last'[t] /\ r.ts <= now'
      BY <1>6, <3>1, <3>2, <3>3
    <3>5. \A r, q \in rows'[t] : r.id < q.id => r.ts <= q.ts
      BY <1>2, <1>6, <3>1, <3>2, <3>3 DEF StoreInv, InOrder
    <3>6. \A r, q \in rows'[t] : r.id = q.id => r = q
      BY <1>2, <1>6, <3>1, <3>2, <3>3 DEF StoreInv, InOrder
    <3>7. writes'[t] \subseteq 0..last'[t]
      BY <1>2, <3>1, <3>3 DEF StoreInv, InOrder
    <3> QED BY <1>6, <2>2, <3>1, <3>4, <3>5, <3>6, <3>7 DEF InOrder
  <2> QED BY <2>1, <2>2
<1>11. /\ work'[p] \in Working /\ work'[p].thread = t /\ work'[p].id = row.id
       /\ work'[p].values = values
       /\ work' = [work EXCEPT ![p] = work'[p]]
  BY <1>2, <1>3, <1>6, <1>7 DEF Working, Row, StoreInv, TypeOK
<1>12. TypeOK'
  <2>1. /\ rows' \in [Thread -> SUBSET Row] /\ last' \in [Thread -> Nat]
        /\ pc' \in [Process -> {"out", "run", "list", "delete"}]
        /\ sweep' \in [Process -> Sweep]
    BY <1>2, <1>6, <1>7, <1>9 DEF StoreInv, TypeOK, Row
  <2>2. work' \in [Process -> Working \cup {NoWork}]
    BY <1>11 DEF StoreInv, TypeOK
  <2> QED BY <1>7, <1>8, <2>1, <2>2 DEF StoreInv, TypeOK
<1>13. \A u \in Thread : last[u] <= last'[u] /\ last[u] \in Nat /\ last'[u] \in Nat
  BY <1>2, <1>5, <1>6, <1>7
<1>14. \A q \in Process : SparesLast(q)'
  <2> SUFFICES ASSUME NEW q \in Process, NEW u \in Thread, NEW i \in sweep'[q].doomed[u]
               PROVE  i < last'[u]
    BY DEF SparesLast
  <2>1. i \in sweep[q].doomed[u] /\ sweep[q] \in Sweep
    BY <1>7, <1>9 DEF StoreInv, TypeOK
  <2>2. i \in Nat /\ i < last[u]
    BY <2>1 DEF StoreInv, SparesLast, Sweep
  <2> QED BY <2>2, <1>13
<1>15. \A q \in Process : Holds(q)' => WorksOn(q)'
  <2> SUFFICES ASSUME NEW q \in Process, Holds(q)' PROVE WorksOn(q)'
    OBVIOUS
  <2>1. CASE q = p
    <3>1. last'[t] = row.id /\ rows'[t] = rows[t] \cup {row} /\ row.id \in Nat
      BY <1>2, <1>5, <1>6, <1>7 DEF StoreInv, TypeOK
    <3>2. \A r \in rows[t] : r.id # row.id
      BY <1>2, <1>5, <1>6 DEF StoreInv, TypeOK, InOrder, Row
    <3>3. \A r \in rows'[t] : r.id = row.id => r = row
      BY <3>1, <3>2
    <3> QED BY <1>3, <1>6, <1>11, <2>1, <3>1, <3>3 DEF WorksOn
  <2>2. CASE q # p
    <3>1. work'[q] = work[q] /\ pc'[q] = pc[q] /\ sweep'[q] = sweep[q]
      BY <1>7, <1>11, <2>2 DEF StoreInv, TypeOK
    <3>2. WorksOn(q)
      BY <3>1 DEF StoreInv, Holds
    <3>3. work[q].thread \in Thread /\ work[q].id \in Nat
      BY <3>2 DEF WorksOn, Working
    <3>4. work'[q].id <= last'[work'[q].thread]
      BY <1>13, <3>1, <3>2, <3>3 DEF WorksOn
    <3>5. ASSUME NEW r \in rows'[work[q].thread], r.id = work[q].id
          PROVE  r \in rows[work[q].thread]
      <4>1. r.id # row.id \/ work[q].thread # t
        BY <1>2, <1>5, <1>6, <3>2, <3>3, <3>5 DEF WorksOn
      <4> QED BY <1>7, <3>3, <3>5, <4>1 DEF StoreInv, TypeOK
    <3> QED BY <3>1, <3>2, <3>4, <3>5 DEF WorksOn
  <2> QED BY <2>1, <2>2
<1> QED BY <1>10, <1>12, <1>14, <1>15 DEF StoreInv

-----------------------------------------------------------------------------
LEMMA StoreStep == StoreInv /\ [Next]_vars => StoreInv'
<1> SUFFICES ASSUME StoreInv, [Next]_vars PROVE StoreInv'
  OBVIOUS
<1>1. CASE Tick
  BY <1>1, TickStep
<1>2. ASSUME NEW p \in Process, ProcessStep(p) PROVE StoreInv'
  <2>1. CASE PutWrites(p)
    BY <2>1, PutWritesStep
  <2>2. CASE DeleteRemoved(p)
    BY <2>2, DeleteRemovedStep
  <2>3. CASE EndCleanup(p) \/ Leave(p) \/ \E t \in Thread : ListRaises(p, t)
    BY <2>3, EndOfSweepStep
  <2>4. ASSUME NEW t \in Thread, Load(p, t) PROVE StoreInv'
    BY <2>4, LoadStep
  <2>5. ASSUME NEW t \in Thread, ListThread(p, t) PROVE StoreInv'
    BY <2>5, ListThreadStep
  <2>6. ASSUME pc[p] = "run", NEW values \in Channels(p), Put(p, values)
        PROVE  StoreInv'
    BY <2>6, PutStep
  <2>7. ASSUME NEW keep \in Keep, NEW age \in MaxAge \cup {NoAge},
               NEW terminal_only \in BOOLEAN,
               NEW scope \in {Thread} \cup {{t} : t \in Thread},
               BeginCleanup(p, keep, age, terminal_only, scope)
        PROVE  StoreInv'
    <3>1. scope \in SUBSET Thread
      OBVIOUS
    <3> QED BY <2>7, <3>1, BeginCleanupStep
  <2> QED BY <1>2, <2>1, <2>2, <2>3, <2>4, <2>5, <2>6, <2>7 DEF ProcessStep
<1>3. CASE UNCHANGED vars
  BY <1>3 DEF vars, tables, StoreInv, TypeOK, InOrder, SparesLast, Holds, WorksOn
<1> QED BY <1>1, <1>2, <1>3 DEF Next

(* The tables are in order, no clean-up has found the last row, and each   *)
(* process has the channels of its row, whatever old and new programs left *)
(* in the database.                                                        *)
THEOREM StoreInvariant == Spec => []StoreInv
<1> QED BY InitStore, StoreStep, PTL DEF Spec

(* A node that is run again from its row reads what one that goes on reads *)
(* in the channels, with all that was set in them, for any processes,      *)
(* threads and databases.                                                  *)
THEOREM RestartsReadTheSame == Spec => []RestartReadsTheSame
<1>1. StoreInv => RestartReadsTheSame
  <2> SUFFICES ASSUME StoreInv, NEW p \in Process, pc[p] = "run",
                      NEW r \in rows[work[p].thread], r.id = work[p].id
               PROVE  /\ migrate_state(migrate_state(r.values))
                           = migrate_state(work[p].values)
                      /\ \A values \in {r.values, work[p].values}, f \in Field :
                           values.fields[f] # "missing" =>
                             migrate_state(migrate_state(r.values)).fields[f]
                               = values.fields[f]
    BY DEF RestartReadsTheSame
  <2>1. WorksOn(p)
    BY DEF StoreInv, Holds
  <2>2. /\ r.values \in Values /\ Readable(r.values)
        /\ work[p].values \in Values /\ Readable(work[p].values)
    BY <2>1 DEF StoreInv, TypeOK, WorksOn, Working, Row
  <2>3. /\ migrate_state(migrate_state(r.values)) = migrate_state(r.values)
        /\ migrate_state(r.values) = migrate_state(work[p].values)
    BY <2>1, <2>2, MigrateStateStable DEF WorksOn
  <2>4. /\ Grows(r.values, migrate_state(r.values))
        /\ Grows(work[p].values, migrate_state(work[p].values))
    BY <2>2, MigrateStateGrows
  <2> QED BY <2>3, <2>4 DEF Grows
<1> QED BY <1>1, StoreInvariant, PTL
-----------------------------------------------------------------------------
LEMMA ChooseLatest ==
  ASSUME NEW S, NEW n \in Nat, NEW r \in S, r.id = n,
         \A q \in S : q.id \in Nat /\ q.id <= n,
         \A q \in S : q.id = n => q = r
  PROVE  (CHOOSE x \in S : x \in S /\ \A q \in S : q.id <= x.id) = r
<1>1. r \in S /\ \A q \in S : q.id <= r.id
  OBVIOUS
<1> DEFINE c == CHOOSE x \in S : x \in S /\ \A q \in S : q.id <= x.id
<1>2. c \in S /\ \A q \in S : q.id <= c.id
  BY <1>1
<1> HIDE DEF c
<1>3. c.id = n
  BY <1>2
<1> QED BY <1>2, <1>3 DEF c

(* The row get_tuple takes is the one with the id of the last put.         *)
LatestIsLast(t) ==
  /\ LatestRow(t).id = last[t]
  /\ \A r \in rows[t] : r.id = last[t] => LatestRow(t) = r
  /\ last[t] = 0 <=> rows[t] = {}

LEMMA ReadsLast ==
  ASSUME StoreInv, NEW t \in Thread
  PROVE  LatestIsLast(t)
<1>1. /\ \A r \in rows[t] : r.id \in Nat \ {0} /\ r.id <= last[t]
      /\ last[t] \in Nat
  BY DEF StoreInv, TypeOK, InOrder, Row
<1>2. last[t] = 0 <=> rows[t] = {}
  BY <1>1 DEF StoreInv, InOrder
<1>3. ASSUME NEW r \in rows[t], r.id = last[t]
      PROVE  LatestRow(t) = r
  <2>1. \A q \in rows[t] : q.id = last[t] => q = r
    BY <1>3 DEF StoreInv, InOrder
  <2>2. (CHOOSE x \in rows[t] : x \in rows[t] /\ \A q \in rows[t] : q.id <= x.id) = r
    BY <1>1, <1>3, <2>1, ChooseLatest
  <2> QED BY <2>2 DEF LatestRow, IsLatest
<1>4. ASSUME rows[t] = {} PROVE LatestRow(t).id = last[t]
  BY <1>2, <1>4 DEF LatestRow
<1>5. ASSUME rows[t] # {} PROVE LatestRow(t).id = last[t]
  <2>1. PICK r \in rows[t] : r.id = last[t]
    BY <1>2, <1>5 DEF StoreInv, InOrder
  <2> QED BY <1>2, <1>3, <2>1
<1>6. LatestRow(t).id = last[t]
  BY <1>4, <1>5
<1> QED BY <1>2, <1>3, <1>6 DEF LatestIsLast

LEMMA ReadsLastNext == StoreInv' => \A t \in Thread : LatestIsLast(t)'
<1>1. StoreInv => \A t \in Thread : LatestIsLast(t)
  BY ReadsLast
<1>2. (StoreInv => \A t \in Thread : LatestIsLast(t))'
  BY <1>1, PTL
<1> QED BY <1>2

LEMMA ResumeStep ==
  ASSUME StoreInv, StoreInv', [Next]_vars
  PROVE  [Promise!Next]_<<[t \in Thread |-> LatestRow(t)],
                          {t \in Thread : last[t] \in writes[t]}>>
<1> DEFINE latest == [t \in Thread |-> LatestRow(t)]
           pending == {t \in Thread : last[t] \in writes[t]}
<1>1. \A t \in Thread : LatestIsLast(t) /\ LatestIsLast(t)'
  BY ReadsLast, ReadsLastNext
<1>2. \A t \in Thread : rows'[t] = rows[t] => LatestRow(t)' = LatestRow(t)
  BY DEF LatestRow, IsLatest
<1>3. ASSUME UNCHANGED tables PROVE UNCHANGED <<latest, pending>>
  <2>1. \A t \in Thread : LatestRow(t)' = LatestRow(t)
    BY <1>2, <1>3 DEF tables
  <2> QED BY <1>3, <2>1 DEF tables
<1>4. ASSUME NEW p \in Process, PutWrites(p)
      PROVE  Promise!Next \/ UNCHANGED <<latest, pending>>
  <2>1. work[p] \in Working /\ work[p].thread \in Thread
    BY <1>4 DEF PutWrites, StoreInv, Holds, WorksOn, Working
  <2>2. /\ writes' = [writes EXCEPT ![work[p].thread] = @ \cup {work[p].id}]
        /\ rows' = rows /\ last' = last
    BY <1>4 DEF PutWrites
  <2>3. latest' = latest
    BY <1>2, <2>2
  <2>4. CASE work[p].id = last[work[p].thread]
    <3>1. pending' = pending \cup {work[p].thread}
      BY <2>1, <2>2, <2>4 DEF StoreInv, TypeOK
    <3> QED BY <2>1, <2>3, <3>1 DEF Promise!Next, Promise!AddWrite
  <2>5. CASE work[p].id # last[work[p].thread]
    <3>1. pending' = pending
      BY <2>1, <2>2, <2>5 DEF StoreInv, TypeOK
    <3> QED BY <2>3, <3>1
  <2> QED BY <2>4, <2>5
<1>5. ASSUME NEW p \in Process, NEW values, Put(p, values)
      PROVE  Promise!Next
  <2>1. PICK t \in Thread : t = work[p].thread
    BY <1>5 DEF Put, StoreInv, Holds, WorksOn, Working
  <2>2. /\ last' = [last EXCEPT ![t] = last[t] + 1] /\ writes' = writes
        /\ \A u \in Thread \ {t} : rows'[u] = rows[u]
    BY <1>5, <2>1 DEF Put, StoreInv, TypeOK
  <2>3. latest'[t].id = latest[t].id + 1
    BY <1>1, <2>1, <2>2 DEF LatestIsLast, StoreInv, TypeOK
  <2>4. \A u \in Thread \ {t} : latest'[u] = latest[u]
    BY <1>2, <2>2
  <2>5. pending' = pending \ {t}
    <3>1. last[t] \in Nat /\ writes[t] \subseteq 0..last[t]
      BY <2>1 DEF StoreInv, TypeOK, InOrder
    <3>2. last'[t] \notin writes'[t]
      BY <2>1, <2>2, <3>1 DEF StoreInv, TypeOK
    <3>3. \A u \in Thread \ {t} : last'[u] = last[u]
      BY <2>2 DEF StoreInv, TypeOK
    <3> QED BY <2>2, <3>2, <3>3
  <2>6. Promise!Save(t)
    BY <2>3, <2>4, <2>5 DEF Promise!Save
  <2> QED BY <2>6 DEF Promise!Next
<1>6. ASSUME NEW p \in Process, DeleteRemoved(p)
      PROVE  UNCHANGED <<latest, pending>>
  <2>1. /\ rows' = [t \in Thread |-> {r \in rows[t] : r.id \notin sweep[p].doomed[t]}]
        /\ writes' = [t \in Thread |-> writes[t] \ sweep[p].doomed[t]]
        /\ last' = last
    BY <1>6 DEF DeleteRemoved
  <2>2. \A t \in Thread : last[t] \notin sweep[p].doomed[t]
    BY DEF StoreInv, TypeOK, SparesLast
  <2>3. ASSUME NEW t \in Thread PROVE LatestRow(t)' = LatestRow(t)
    <3>1. CASE last[t] = 0
      <4>1. rows[t] = {} /\ rows'[t] = {}
        BY <1>1, <2>1, <3>1 DEF LatestIsLast
      <4> QED BY <1>2, <4>1
    <3>2. CASE last[t] # 0
      <4>1. PICK r \in rows[t] : r.id = last[t]
        BY <3>2 DEF StoreInv, InOrder
      <4>2. r \in rows'[t]
        BY <2>1, <2>2, <4>1
      <4> QED BY <1>1, <2>1, <4>1, <4>2 DEF LatestIsLast
    <3> QED BY <3>1, <3>2
  <2>4. pending' = pending
    BY <2>1, <2>2
  <2> QED BY <2>3, <2>4
<1>7. CASE Tick
  BY <1>3, <1>7 DEF Tick
<1>8. ASSUME NEW p \in Process, ProcessStep(p)
      PROVE  Promise!Next \/ UNCHANGED <<latest, pending>>
  <2> HIDE DEF latest, pending
  <2>1. ASSUME \/ EndCleanup(p) \/ Leave(p)
               \/ \E t \in Thread : Load(p, t) \/ ListThread(p, t) \/ ListRaises(p, t)
               \/ \E keep \in Keep, age \in MaxAge \cup {NoAge},
                     terminal_only \in BOOLEAN,
                     scope \in {Thread} \cup {{t} : t \in Thread} :
                    BeginCleanup(p, keep, age, terminal_only, scope)
        PROVE  UNCHANGED <<latest, pending>>
    <3>1. UNCHANGED tables
      BY <2>1 DEF EndCleanup, Leave, Load, ListThread, ListRaises, BeginCleanup
    <3> QED BY <1>3, <3>1
  <2> QED BY <1>4, <1>5, <1>6, <1>8, <2>1 DEF ProcessStep
<1>9. CASE UNCHANGED vars
  BY <1>3, <1>9 DEF vars
<1> QED BY <1>7, <1>8, <1>9, <1>3 DEF Next

(* What a resume reads is what was put last, with the writes added to it,  *)
(* however many processes save, clean up with whatever limits, and die.    *)
THEOREM ResumesReadLastPut == Spec => ResumesFromLastPut
<1>1. Init => Promise!Init
  <2> SUFFICES ASSUME Init PROVE Promise!Init
    OBVIOUS
  <2>1. \A t \in Thread : LatestIsLast(t)
    BY InitStore, ReadsLast
  <2>2. \A t \in Thread : last[t] \in {0, 1}
    <3> SUFFICES ASSUME NEW t \in Thread PROVE last[t] \in {0, 1}
      OBVIOUS
    <3>1. rows[t] = {} \/ \E v \in Legacy : rows[t] = {[id |-> 1, ts |-> 0, values |-> v]}
      BY DEF Init
    <3> QED BY <3>1, FS_EmptySet, FS_Singleton DEF Init
  <2>3. \A t \in Thread : writes[t] = {}
    BY DEF Init
  <2> QED BY <2>1, <2>2, <2>3 DEF Promise!Init, LatestIsLast
<1> QED BY <1>1, StoreInvariant, ResumeStep, PTL DEF Spec, ResumesFromLastPut, Promise!Spec
-----------------------------------------------------------------------------
(* What is known of a row of the table.                                    *)
LEMMA RowFacts ==
  ASSUME StoreInv, NEW t \in Thread
  PROVE  /\ last[t] \in Nat
         /\ \A r \in rows[t] : r.id \in Nat /\ r.ts \in Nat /\ r.id <= last[t]
         /\ \A r, q \in rows[t] : r.id < q.id => r.ts <= q.ts
         /\ \A r, q \in rows[t] : r.id = q.id => r = q
  BY DEF StoreInv, TypeOK, InOrder, Row

LEMMA RowsAreFinite ==
  ASSUME StoreInv, NEW t \in Thread
  PROVE  IsFiniteSet(rows[t])
<1> DEFINE idOf == [r \in rows[t] |-> r.id]
<1>1. idOf \in [rows[t] -> 0..last[t]]
  BY RowFacts
<1>2. \A r, q \in rows[t] : idOf[r] = idOf[q] => r = q
  BY RowFacts
<1>3. IsFiniteSet(0..last[t])
  BY RowFacts, FS_Interval
<1>4. idOf \in Injection(rows[t], 0..last[t])
  BY <1>1, <1>2 DEF Injection, IsInjective
<1> HIDE DEF idOf
<1> QED BY <1>3, <1>4, FS_Injection

(* The order of cleanup's list is that of the ids.                         *)
LEMMA AheadIsLater ==
  ASSUME StoreInv, NEW t \in Thread, NEW q \in rows[t]
  PROVE  AheadOf(q, t) = {r \in rows[t] : q.id < r.id}
<1> SUFFICES ASSUME NEW r \in rows[t] PROVE Newer(r, q) <=> q.id < r.id
  BY DEF AheadOf
<1> QED BY RowFacts DEF Newer

(* The first and the last of some rows.                                    *)
LEMMA FirstRow ==
  ASSUME StoreInv, NEW t \in Thread, NEW D \in SUBSET rows[t], D # {}
  PROVE  \E q \in D : \A r \in D : q.id <= r.id
<1> DEFINE T == {r.id : r \in D}
<1>1. T \in SUBSET Nat /\ T # {}
  BY RowFacts
<1>2. PICK m \in T : \A k \in T : ~(k < m)
  <2> HIDE DEF T
  <2> QED BY <1>1, LeastNumber
<1> QED BY <1>2, RowFacts

LEMMA LastRow ==
  ASSUME StoreInv, NEW t \in Thread, NEW D \in SUBSET rows[t], D # {}
  PROVE  \E q \in D : \A r \in D : r.id <= q.id
<1> DEFINE T == {last[t] - r.id : r \in D}
<1>1. T \in SUBSET Nat /\ T # {}
  BY RowFacts
<1>2. PICK m \in T : \A k \in T : ~(k < m)
  <2> HIDE DEF T
  <2> QED BY <1>1, LeastNumber
<1>3. PICK q \in D : m = last[t] - q.id
  BY <1>2
<1>4. ASSUME NEW r \in D PROVE r.id <= q.id
  <2>1. ~(last[t] - r.id < last[t] - q.id)
    BY <1>2, <1>3
  <2>2. last[t] \in Nat /\ r.id \in Nat /\ q.id \in Nat
    BY RowFacts
  <2> QED BY <2>1, <2>2
<1> QED BY <1>4

(* Of the rows beyond the limit some are deleted, with all before them:    *)
(* the limit is left, and all that is left is later.                       *)
LEMMA LimitIsLeft ==
  ASSUME StoreInv, NEW t \in Thread, NEW keep \in Nat \ {0},
         NEW D \in SUBSET Beyond(t, keep), D # {},
         \A q \in D : \A r \in rows[t] : r.id < q.id => r \in D
  PROVE  /\ \A r \in rows[t] \ D : \A q \in D : q.id < r.id
         /\ Cardinality(rows[t] \ D) >= keep
<1>1. D \in SUBSET rows[t]
  BY DEF Beyond
<1>2. \A r \in rows[t] \ D : \A q \in D : q.id < r.id
  BY <1>1, RowFacts
<1>3. PICK q \in D : \A r \in D : r.id <= q.id
  BY <1>1, LastRow
<1>4. AheadOf(q, t) \subseteq rows[t] \ D
  BY <1>1, <1>3, AheadIsLater, RowFacts
<1>5. IsFiniteSet(rows[t] \ D)
  BY RowsAreFinite, FS_Difference
<1>6. Cardinality(AheadOf(q, t)) <= Cardinality(rows[t] \ D)
  BY <1>4, <1>5, FS_Subset
<1>7. Cardinality(AheadOf(q, t)) >= keep
  BY DEF Beyond
<1>8. Cardinality(AheadOf(q, t)) \in Nat /\ Cardinality(rows[t] \ D) \in Nat
  BY <1>4, <1>5, FS_Subset, FS_CardinalityType
<1> QED BY <1>2, <1>6, <1>7, <1>8

(* No more than the limit is not beyond it.                                *)
LEMMA NoMoreThanLimit ==
  ASSUME StoreInv, NEW t \in Thread, NEW keep \in Nat \ {0}
  PROVE  Cardinality(rows[t] \ Beyond(t, keep)) <= keep
<1> DEFINE K == rows[t] \ Beyond(t, keep)
<1>1. IsFiniteSet(K) /\ K \in SUBSET rows[t]
  BY RowsAreFinite, FS_Difference
<1>2. CASE K = {}
  BY <1>2, FS_EmptySet
<1>3. CASE K # {}
  <2>1. PICK q \in K : \A r \in K : q.id <= r.id
    BY <1>1, <1>3, FirstRow
  <2>2. K \ {q} \subseteq AheadOf(q, t)
    BY <1>1, <2>1, AheadIsLater, RowFacts
  <2>3. IsFiniteSet(AheadOf(q, t))
    BY RowsAreFinite, FS_Subset DEF AheadOf
  <2>4. Cardinality(K \ {q}) <= Cardinality(AheadOf(q, t))
    BY <2>2, <2>3, FS_Subset
  <2>5. ~(Cardinality(AheadOf(q, t)) >= keep)
    BY <2>1 DEF Beyond
  <2>6. Cardinality(K \ {q}) = Cardinality(K) - 1
    <3> HIDE DEF K
    <3> QED BY ONLY <1>1, <2>1, FS_RemoveElement
  <2>7. Cardinality(K) \in Nat /\ Cardinality(AheadOf(q, t)) \in Nat
    BY <1>1, <2>3, FS_CardinalityType
  <2> QED BY ONLY <2>4, <2>5, <2>6, <2>7, keep \in Nat \ {0}
<1> QED BY <1>2, <1>3

(* The first of cleanup's list is the last that was saved.                 *)
LEMMA FinishedIsAtTheEnd ==
  ASSUME StoreInv, NEW t \in Thread
  PROVE  Finished(t) <=> EndsFinished(t)
<1>1. ASSUME NEW q \in rows[t] PROVE AheadOf(q, t) = {} <=> IsLatest(q, t)
  BY AheadIsLater, RowFacts DEF IsLatest
<1> QED BY <1>1 DEF Finished, EndsFinished
-----------------------------------------------------------------------------
(* The rows a clean-up has found to delete and that are still there, and   *)
(* those it will leave.                                                    *)
Condemned(p, t) == {r \in rows[t] : r.id \in sweep[p].doomed[t]}
Spared(p, t) == {r \in rows[t] : r.id \notin sweep[p].doomed[t]}

(* A clean-up lists the threads of its groups one by one, and remembers    *)
(* those that have been finished since it began.                           *)
SweepOK(p) ==
  /\ pc[p] \in {"out", "run"} => sweep[p].groups = {}
  /\ pc[p] # "delete" => \A t \in Thread : sweep[p].doomed[t] = {}
  /\ \A t \in sweep[p].groups : EndsFinished(t) => t \in ended[p]

(* What it will leave is later than what it will delete, and enough; and   *)
(* of what it listed no more than enough, if no age was asked for.         *)
KeepsNewest(p, t) ==
  Condemned(p, t) # {} =>
    /\ \A r \in Spared(p, t) : \A q \in Condemned(p, t) : q.id < r.id
    /\ Cardinality(Spared(p, t)) >= sweep[p].keep
KeepsNoMore(p, t) ==
  sweep[p].doomed[t] # {} =>
    /\ sweep[p].cutoff = NoAge =>
         Cardinality({r \in Spared(p, t) : r.id <= seen[p]}) <= sweep[p].keep
    /\ seen[p] <= last[t]
    /\ ~sweep[p].terminal_only \/ t \in ended[p]
Keeps(p) == \A t \in Thread : KeepsNewest(p, t) /\ KeepsNoMore(p, t)
SweepsInv == \A p \in Process : SweepOK(p) /\ Keeps(p)

(* A clean-up another process's step leaves alone, with the tables.        *)
LEMMA UntouchedSweep ==
  ASSUME NEW p \in Process, SweepOK(p), Keeps(p), UNCHANGED <<rows, last>>,
         sweep'[p] = sweep[p], pc'[p] = pc[p], ended'[p] = ended[p], seen'[p] = seen[p]
  PROVE  SweepOK(p)' /\ Keeps(p)'
<1>1. \A t \in Thread : EndsFinished(t)' <=> EndsFinished(t)
  BY DEF EndsFinished, IsLatest
<1>2. SweepOK(p)'
  BY <1>1 DEF SweepOK, EndsFinished, IsLatest
<1>3. Keeps(p)'
  BY DEF Keeps, KeepsNewest, KeepsNoMore, Spared, Condemned
<1> QED BY <1>2, <1>3

(* One that has found nothing yet.                                         *)
LEMMA NothingCondemned ==
  ASSUME NEW p \in Process, \A t \in Thread : sweep'[p].doomed[t] = {}
  PROVE  Keeps(p)'
  BY DEF Keeps, KeepsNewest, KeepsNoMore, Condemned

LEMMA InitSweeps == Init => SweepsInv
<1> SUFFICES ASSUME Init, NEW p \in Process PROVE SweepOK(p) /\ Keeps(p)
  BY DEF SweepsInv
<1>1. /\ sweep[p] = NoSweep /\ pc[p] = "out"
  BY DEF Init
<1>2. NoSweep.groups = {}
  BY DEF NoSweep
<1> QED BY <1>1, <1>2, NoSweepIsSweep
        DEF SweepOK, Keeps, KeepsNewest, KeepsNoMore, Condemned

LEMMA OneSweepStep ==
  ASSUME SweepsInv, NEW p \in Process, UNCHANGED <<rows, last>>,
         \A q \in Process \ {p} : /\ sweep'[q] = sweep[q] /\ pc'[q] = pc[q]
                                  /\ ended'[q] = ended[q] /\ seen'[q] = seen[q],
         SweepOK(p)', Keeps(p)'
  PROVE  SweepsInv'
<1> SUFFICES ASSUME NEW q \in Process PROVE SweepOK(q)' /\ Keeps(q)'
  BY DEF SweepsInv
<1>1. CASE q = p
  BY <1>1
<1>2. CASE q # p
  BY <1>2, UntouchedSweep DEF SweepsInv
<1> QED BY <1>1, <1>2

LEMMA BeginSweeps ==
  ASSUME StoreInv, SweepsInv, NEW p \in Process, NEW keep \in Keep,
         NEW age \in MaxAge \cup {NoAge}, NEW terminal_only \in BOOLEAN,
         NEW scope \in SUBSET Thread, BeginCleanup(p, keep, age, terminal_only, scope)
  PROVE  SweepsInv'
<1>1. /\ sweep'[p].groups \subseteq Thread /\ sweep'[p].doomed = NoSweep.doomed
      /\ pc'[p] = "list" /\ ended'[p] = {t \in Thread : EndsFinished(t)}
  BY DEF BeginCleanup, StoreInv, TypeOK, NoSweep
<1>2. /\ UNCHANGED <<rows, last>>
      /\ \A q \in Process \ {p} : /\ sweep'[q] = sweep[q] /\ pc'[q] = pc[q]
                                  /\ ended'[q] = ended[q] /\ seen'[q] = seen[q]
  BY DEF BeginCleanup, StoreInv, TypeOK, tables
<1>3. \A t \in Thread : EndsFinished(t)' <=> EndsFinished(t)
  BY <1>2 DEF EndsFinished, IsLatest
<1>4. SweepOK(p)' /\ Keeps(p)'
  BY <1>1, <1>3, NoSweepIsSweep, NothingCondemned DEF SweepOK
<1> QED BY <1>2, <1>4, OneSweepStep

LEMMA EndSweeps ==
  ASSUME StoreInv, SweepsInv, NEW p \in Process,
         EndCleanup(p) \/ Leave(p) \/ \E t \in Thread : ListRaises(p, t)
  PROVE  SweepsInv'
<1>1. /\ sweep'[p].groups = {} /\ sweep'[p].doomed = NoSweep.doomed
      /\ pc'[p] \in {"out", "run"}
  <2>1. sweep[p].back \in {"out", "run"}
    BY DEF StoreInv, TypeOK, Sweep
  <2> QED BY <2>1 DEF EndCleanup, Leave, ListRaises, StoreInv, TypeOK, NoSweep
<1>2. /\ UNCHANGED <<rows, last>>
      /\ \A q \in Process \ {p} : /\ sweep'[q] = sweep[q] /\ pc'[q] = pc[q]
                                  /\ ended'[q] = ended[q] /\ seen'[q] = seen[q]
  BY DEF EndCleanup, Leave, ListRaises, Forget, StoreInv, TypeOK, tables
<1>3. SweepOK(p)' /\ Keeps(p)'
  BY <1>1, NoSweepIsSweep, NothingCondemned DEF SweepOK
<1> QED BY <1>2, <1>3, OneSweepStep

LEMMA LoadSweeps ==
  ASSUME StoreInv, SweepsInv, NEW p \in Process, NEW t \in Thread, Load(p, t)
  PROVE  SweepsInv'
<1>1. /\ UNCHANGED <<rows, last, sweep, ended, seen>>
      /\ pc' = [pc EXCEPT ![p] = "run"] /\ pc[p] = "out"
  BY DEF Load, tables
<1>2. SweepOK(p) /\ sweep[p].groups = {} /\ \A u \in Thread : sweep[p].doomed[u] = {}
  BY <1>1 DEF SweepsInv, SweepOK
<1>3. SweepOK(p)' /\ Keeps(p)'
  BY <1>1, <1>2, NothingCondemned DEF SweepOK
<1> QED BY <1>1, <1>3, OneSweepStep DEF StoreInv, TypeOK

(* What a clean-up finds in a thread it lists.                             *)
LEMMA RemoveIsOld ==
  ASSUME StoreInv, NEW p \in Process, NEW t \in Thread, Remove(p, t) # {}
  PROVE  LET left == {r \in rows[t] : r.id \notin Remove(p, t)} IN
         /\ \A r \in left : \A q \in rows[t] : q.id \in Remove(p, t) => q.id < r.id
         /\ Cardinality(left) >= sweep[p].keep
         /\ sweep[p].cutoff = NoAge => Cardinality(left) <= sweep[p].keep
         /\ ~sweep[p].terminal_only \/ EndsFinished(t)
<1> DEFINE keep == sweep[p].keep
           D == {q \in Beyond(t, keep) : TooOld(q, sweep[p].cutoff)}
           left == {r \in rows[t] : r.id \notin Remove(p, t)}
<1>1. keep \in Nat \ {0} /\ sweep[p].cutoff \in Nat \cup {NoAge}
  BY DEF StoreInv, TypeOK, Sweep
<1>2. /\ Remove(p, t) = {q.id : q \in D} /\ D # {}
      /\ ~sweep[p].terminal_only \/ Finished(t)
  BY DEF Remove
<1>3. D \in SUBSET Beyond(t, keep) /\ D \in SUBSET rows[t]
  BY DEF Beyond
<1>4. left = rows[t] \ D
  BY <1>2, <1>3, RowFacts
<1>5. ASSUME NEW q \in D, NEW r \in rows[t], r.id < q.id PROVE r \in D
  <2>1. AheadOf(q, t) \subseteq AheadOf(r, t)
    BY <1>3, <1>5, AheadIsLater, RowFacts
  <2>2. IsFiniteSet(AheadOf(r, t))
    BY RowsAreFinite, FS_Subset DEF AheadOf
  <2>3. /\ Cardinality(AheadOf(q, t)) <= Cardinality(AheadOf(r, t))
        /\ Cardinality(AheadOf(q, t)) \in Nat /\ Cardinality(AheadOf(r, t)) \in Nat
    BY <2>1, <2>2, FS_Subset, FS_CardinalityType
  <2>4. Cardinality(AheadOf(q, t)) >= keep
    BY DEF Beyond
  <2>5. Cardinality(AheadOf(r, t)) >= keep
    BY ONLY <1>1, <2>3, <2>4
  <2>6. TooOld(r, sweep[p].cutoff)
    <3>1. r.ts <= q.ts /\ r.ts \in Nat /\ q.ts \in Nat
      BY <1>3, <1>5, RowFacts
    <3>2. TooOld(q, sweep[p].cutoff)
      OBVIOUS
    <3> QED BY <1>1, <3>1, <3>2 DEF TooOld
  <2> QED BY <2>5, <2>6 DEF Beyond
<1>6. /\ \A r \in rows[t] \ D : \A q \in D : q.id < r.id
      /\ Cardinality(rows[t] \ D) >= keep
  <2> HIDE DEF D
  <2> QED BY <1>1, <1>2, <1>3, <1>5, LimitIsLeft
<1>7. ASSUME sweep[p].cutoff = NoAge PROVE Cardinality(rows[t] \ D) <= keep
  <2>1. D = Beyond(t, keep)
    BY <1>7 DEF TooOld
  <2> HIDE DEF D
  <2> QED BY <1>1, <2>1, NoMoreThanLimit
<1>8. \A q \in rows[t] : q.id \in Remove(p, t) => q \in D
  BY <1>2, <1>3, RowFacts
<1> HIDE DEF D
<1> QED BY <1>2, <1>4, <1>6, <1>7, <1>8, FinishedIsAtTheEnd

LEMMA ListSweeps ==
  ASSUME StoreInv, SweepsInv, NEW p \in Process, NEW t \in Thread, ListThread(p, t)
  PROVE  SweepsInv'
<1>1. /\ pc[p] = "list" /\ t \in sweep[p].groups /\ sweep[p] \in Sweep
      /\ SweepOK(p) /\ \A u \in Thread : sweep[p].doomed[u] = {}
  BY DEF ListThread, SweepsInv, SweepOK, StoreInv, TypeOK
<1>2. /\ UNCHANGED <<rows, last, ended>> /\ seen'[p] = last[t]
      /\ \A q \in Process \ {p} : /\ sweep'[q] = sweep[q] /\ pc'[q] = pc[q]
                                  /\ ended'[q] = ended[q] /\ seen'[q] = seen[q]
  BY DEF ListThread, StoreInv, TypeOK, tables
<1>3. \A u \in Thread : EndsFinished(u)' <=> EndsFinished(u)
  BY <1>2 DEF EndsFinished, IsLatest
<1>4. CASE Remove(p, t) = {}
  <2>1. /\ sweep'[p].groups = sweep[p].groups \ {t} /\ sweep'[p].doomed = sweep[p].doomed
        /\ pc'[p] = "list"
    BY <1>1, <1>4 DEF ListThread, StoreInv, TypeOK, Sweep
  <2>2. SweepOK(p)' /\ Keeps(p)'
    BY <1>1, <1>2, <1>3, <2>1, NothingCondemned DEF SweepOK, Sweep
  <2> QED BY <1>2, <2>2, OneSweepStep
<1>5. CASE Remove(p, t) # {}
  <2>1. /\ sweep'[p].groups = sweep[p].groups /\ sweep'[p].keep = sweep[p].keep
        /\ sweep'[p].cutoff = sweep[p].cutoff
        /\ sweep'[p].terminal_only = sweep[p].terminal_only
        /\ sweep'[p].doomed = [sweep[p].doomed EXCEPT ![t] = Remove(p, t)]
        /\ pc'[p] = "delete"
    <3> DEFINE s == [sweep[p] EXCEPT !.doomed[t] = Remove(p, t)]
    <3>1. sweep' = [sweep EXCEPT ![p] = s] /\ pc'[p] = "delete"
      BY <1>1, <1>5 DEF ListThread, StoreInv, TypeOK
    <3>2. sweep'[p] = s
      BY <3>1 DEF StoreInv, TypeOK
    <3>3. s.doomed = [sweep[p].doomed EXCEPT ![t] = Remove(p, t)]
      BY <1>1 DEF Sweep
    <3> QED BY <1>1, <3>1, <3>2, <3>3 DEF Sweep
  <2>2. SweepOK(p)'
    BY <1>1, <1>2, <1>3, <2>1 DEF SweepOK, Sweep
  <2>3. ASSUME NEW u \in Thread, u # t PROVE KeepsNewest(p, u)' /\ KeepsNoMore(p, u)'
    <3>1. sweep'[p].doomed[u] = {}
      BY <1>1, <2>1, <2>3 DEF Sweep
    <3> QED BY <3>1 DEF KeepsNewest, KeepsNoMore, Condemned
  <2>4. KeepsNewest(p, t)' /\ KeepsNoMore(p, t)'
    <3> DEFINE left == {r \in rows[t] : r.id \notin Remove(p, t)}
    <3>1. sweep'[p].doomed[t] = Remove(p, t)
      BY <1>1, <2>1 DEF Sweep
    <3>2. /\ Spared(p, t)' = left
          /\ Condemned(p, t)' = {r \in rows[t] : r.id \in Remove(p, t)}
      BY <1>2, <3>1 DEF Spared, Condemned
    <3>3. {r \in left : r.id <= last[t]} = left
      BY RowFacts
    <3>4. KeepsNewest(p, t)'
      BY <1>5, <2>1, <3>2, RemoveIsOld DEF KeepsNewest
    <3>5. ~sweep[p].terminal_only \/ t \in ended[p]
      BY <1>1, <1>5, RemoveIsOld DEF SweepOK
    <3>6. sweep[p].cutoff = NoAge => Cardinality(left) <= sweep[p].keep
      BY <1>5, RemoveIsOld
    <3>7. {r \in Spared(p, t)' : r.id <= seen'[p]} = left
      BY <1>2, <3>2, <3>3
    <3>8. last[t] \in Nat
      BY RowFacts
    <3>9. sweep'[p].cutoff = NoAge =>
            Cardinality({r \in Spared(p, t)' : r.id <= seen'[p]}) <= sweep'[p].keep
      BY <2>1, <3>6, <3>7
    <3>10. seen'[p] <= last'[t] /\ (~sweep'[p].terminal_only \/ t \in ended'[p])
      BY <1>2, <2>1, <3>5, <3>8
    <3> QED BY <3>4, <3>9, <3>10 DEF KeepsNoMore
  <2> QED BY <1>2, <2>2, <2>3, <2>4, OneSweepStep DEF Keeps
<1> QED BY <1>4, <1>5

LEMMA DeleteSweeps ==
  ASSUME StoreInv, SweepsInv, NEW p \in Process, DeleteRemoved(p)
  PROVE  SweepsInv'
<1>1. /\ \A t \in Thread : /\ rows'[t] = Spared(p, t) /\ last'[t] = last[t]
                           /\ rows'[t] \in SUBSET rows[t]
      /\ sweep'[p].doomed = NothingFound /\ sweep'[p].groups \subseteq sweep[p].groups
      /\ pc'[p] = "list" /\ UNCHANGED <<ended, seen>>
  BY DEF DeleteRemoved, Spared, StoreInv, TypeOK
<1>2. ASSUME NEW t \in Thread, EndsFinished(t)' PROVE EndsFinished(t)
  <2>1. PICK q \in rows'[t] : q.values.finished /\ \A r \in rows'[t] : r.id <= q.id
    BY <1>2 DEF EndsFinished, IsLatest
  <2>2. q \in rows[t] /\ q.id \in Nat \ {0}
    BY <1>1, <2>1 DEF StoreInv, TypeOK, Row
  <2>3. last[t] # 0
    BY <2>2, RowFacts
  <2>4. PICK r \in rows[t] : r.id = last[t]
    BY <2>3 DEF StoreInv, InOrder
  <2>5. r \in rows'[t]
    <3>1. r.id \notin sweep[p].doomed[t]
      BY <2>4 DEF StoreInv, TypeOK, SparesLast
    <3> QED BY <1>1, <2>4, <3>1 DEF Spared
  <2>6. last[t] <= q.id
    BY <2>1, <2>4, <2>5
  <2>7. \A x \in rows[t] : x.id <= q.id
    BY <2>2, <2>6, RowFacts
  <2> QED BY <2>1, <2>2, <2>7 DEF EndsFinished, IsLatest
<1>3. SweepOK(p)' /\ Keeps(p)'
  <2>1. \A t \in Thread : sweep'[p].doomed[t] = {}
    BY <1>1 DEF NothingFound
  <2>2. sweep[p].groups \subseteq Thread /\ SweepOK(p)
    BY DEF StoreInv, TypeOK, Sweep, SweepsInv
  <2> QED BY <1>1, <1>2, <2>1, <2>2, NothingCondemned DEF SweepOK
<1>4. ASSUME NEW q \in Process, q # p PROVE SweepOK(q)' /\ Keeps(q)'
  <2>1. sweep'[q] = sweep[q] /\ pc'[q] = pc[q]
    BY <1>4 DEF DeleteRemoved, StoreInv, TypeOK
  <2>2. SweepOK(q) /\ Keeps(q) /\ Keeps(p) /\ sweep[q].groups \subseteq Thread
    BY DEF SweepsInv, StoreInv, TypeOK, Sweep
  <2>3. SweepOK(q)'
    BY <1>1, <1>2, <2>1, <2>2 DEF SweepOK
  <2>4. ASSUME NEW t \in Thread PROVE KeepsNewest(q, t)' /\ KeepsNoMore(q, t)'
    <3>1. /\ Condemned(q, t)' \subseteq Condemned(q, t)
          /\ Spared(q, t)' \subseteq Spared(q, t)
      BY <1>1, <2>1 DEF Condemned, Spared
    <3>2. ASSUME Condemned(q, t)' # {} PROVE KeepsNewest(q, t)'
      <4>1. PICK i \in Condemned(q, t) : i \in rows'[t]
        BY <3>1, <3>2 DEF Condemned
      <4>2. ASSUME NEW j \in Spared(q, t) PROVE j \in rows'[t]
        <5> SUFFICES ASSUME j \in Condemned(p, t) PROVE FALSE
          BY <1>1 DEF Spared, Condemned
        <5>1. i.id < j.id
          BY <2>2, <4>1 DEF Keeps, KeepsNewest
        <5>2. j.id < i.id
          BY <1>1, <2>2, <4>1 DEF Keeps, KeepsNewest
        <5>3. i \in rows[t] /\ j \in rows[t]
          BY DEF Spared, Condemned
        <5> QED BY <5>1, <5>2, <5>3, RowFacts
      <4>3. Spared(q, t)' = Spared(q, t)
        BY <2>1, <3>1, <4>2 DEF Spared
      <4>4. Condemned(q, t) # {} /\ KeepsNewest(q, t)
        BY <2>2, <4>1 DEF Keeps
      <4> QED BY <2>1, <3>1, <4>3, <4>4 DEF KeepsNewest
    <3>3. KeepsNewest(q, t)'
      BY <3>2 DEF KeepsNewest
    <3>4. KeepsNoMore(q, t)'
      <4> DEFINE listed == {r \in Spared(q, t) : r.id <= seen[q]}
                 left == {r \in Spared(q, t)' : r.id <= seen[q]}
      <4>1. left \in SUBSET listed /\ IsFiniteSet(listed)
        <5>1. listed \in SUBSET rows[t]
          BY DEF Spared
        <5> HIDE DEF listed
        <5>2. IsFiniteSet(listed)
          BY <5>1, RowsAreFinite, FS_Subset
        <5> QED BY <3>1, <5>2 DEF listed
      <4> HIDE DEF listed, left
      <4>2. /\ Cardinality(left) <= Cardinality(listed)
            /\ Cardinality(left) \in Nat /\ Cardinality(listed) \in Nat
        BY <4>1, FS_Subset, FS_CardinalityType
      <4>3. sweep[q].keep \in Nat
        BY DEF StoreInv, TypeOK, Sweep
      <4>4. KeepsNoMore(q, t)
        BY <2>2 DEF Keeps
      <4>5. ASSUME sweep'[q].doomed[t] # {}, sweep'[q].cutoff = NoAge
            PROVE  Cardinality(left) <= sweep'[q].keep
        <5>1. Cardinality(listed) <= sweep[q].keep
          BY <2>1, <4>4, <4>5 DEF KeepsNoMore, listed
        <5> QED BY <2>1, <4>2, <4>3, <5>1
      <4>6. sweep'[q].doomed[t] # {} =>
              seen'[q] <= last'[t] /\ (~sweep'[q].terminal_only \/ t \in ended'[q])
        BY <1>1, <2>1, <4>4 DEF KeepsNoMore
      <4>7. left = {r \in Spared(q, t)' : r.id <= seen'[q]}
        BY <1>1 DEF left
      <4> QED BY <4>5, <4>6, <4>7 DEF KeepsNoMore
    <3> QED BY <3>3, <3>4
  <2> QED BY <2>3, <2>4 DEF Keeps
<1> QED BY <1>3, <1>4 DEF SweepsInv

LEMMA PutSweeps ==
  ASSUME StoreInv, SweepsInv, NEW p \in Process, pc[p] = "run",
         NEW values \in Channels(p), Put(p, values)
  PROVE  SweepsInv'
<1>1. PICK t \in Thread : t = work[p].thread /\ pc[p] = "run"
  BY DEF Put, Holds, StoreInv, WorksOn, Working
<1> DEFINE finished == values.finished
           row == [id |-> last[t] + 1, ts |-> now, values |-> Saved(values)]
           s == [NoSweep EXCEPT !.groups = {t}, !.keep = Retention, !.back = "run"]
<1>2. row.id = last[t] + 1 /\ last[t] \in Nat /\ (row.values.finished <=> finished)
  BY <1>1, ChannelValues, RowFacts
<1>3. /\ rows' = [rows EXCEPT ![t] = @ \cup {row}]
      /\ last' = [last EXCEPT ![t] = row.id]
      /\ pc' = [pc EXCEPT ![p] = IF finished THEN "list" ELSE "run"]
      /\ sweep' = IF finished THEN [sweep EXCEPT ![p] = s] ELSE sweep
      /\ seen' = seen
      /\ ended' = [q \in Process |->
           IF finished /\ (q = p \/ pc[q] \in {"list", "delete"})
             THEN ended[q] \cup {t} ELSE ended[q]]
  BY <1>1 DEF Put
<1>4. s.groups = {t} /\ s.doomed = NoSweep.doomed
  BY DEF NoSweep
<1> HIDE DEF row, finished, s
<1>5. /\ rows'[t] = rows[t] \cup {row} /\ last'[t] = last[t] + 1
      /\ \A u \in Thread \ {t} : rows'[u] = rows[u] /\ last'[u] = last[u]
  BY <1>1, <1>2, <1>3 DEF StoreInv, TypeOK
<1>6. ASSUME NEW u \in Thread, EndsFinished(u)'
      PROVE  EndsFinished(u) \/ (u = t /\ finished)
  <2>1. CASE u # t
    BY <1>5, <1>6, <2>1 DEF EndsFinished, IsLatest
  <2>2. CASE u = t
    <3>1. PICK q \in rows'[t] : q.values.finished /\ \A r \in rows'[t] : r.id <= q.id
      BY <1>6, <2>2 DEF EndsFinished, IsLatest
    <3>2. q = row
      BY <1>1, <1>2, <1>5, <3>1, RowFacts
    <3> QED BY <1>2, <2>2, <3>1, <3>2
  <2> QED BY <2>1, <2>2
<1>7. /\ SweepOK(p) /\ sweep[p].groups = {}
      /\ \A u \in Thread : sweep[p].doomed[u] = {}
  BY <1>1 DEF SweepsInv, SweepOK
<1>8. SweepOK(p)' /\ Keeps(p)'
  <2>1. \A u \in Thread : sweep'[p].doomed[u] = {}
    BY <1>3, <1>4, <1>7, NoSweepIsSweep DEF StoreInv, TypeOK
  <2>2. CASE finished
    <3>1. sweep'[p].groups = {t} /\ pc'[p] = "list" /\ t \in ended'[p]
      BY <1>3, <1>4, <2>2 DEF StoreInv, TypeOK
    <3> QED BY <2>1, <3>1, NothingCondemned DEF SweepOK
  <2>3. CASE ~finished
    <3>1. sweep'[p].groups = {} /\ pc'[p] = "run"
      BY <1>3, <1>7, <2>3 DEF StoreInv, TypeOK
    <3> QED BY <2>1, <3>1, NothingCondemned DEF SweepOK
  <2> QED BY <2>2, <2>3
<1>9. ASSUME NEW q \in Process, q # p PROVE SweepOK(q)' /\ Keeps(q)'
  <2>1. sweep'[q] = sweep[q] /\ pc'[q] = pc[q] /\ seen'[q] = seen[q]
    BY <1>3, <1>9 DEF StoreInv, TypeOK
  <2>2. /\ ended[q] \subseteq ended'[q]
        /\ finished /\ pc[q] \in {"list", "delete"} => t \in ended'[q]
    BY <1>3
  <2>3. /\ SweepOK(q) /\ Keeps(q) /\ sweep[q] \in Sweep
        /\ pc[q] \in {"out", "run", "list", "delete"} /\ seen[q] \in Nat
    BY DEF SweepsInv, StoreInv, TypeOK
  <2>4. SweepOK(q)'
    BY <1>6, <2>1, <2>2, <2>3 DEF SweepOK, Sweep
  <2>5. ASSUME NEW u \in Thread, u # t PROVE KeepsNewest(q, u)' /\ KeepsNoMore(q, u)'
    <3>1. Spared(q, u)' = Spared(q, u) /\ Condemned(q, u)' = Condemned(q, u)
      BY <1>5, <2>1, <2>5 DEF Spared, Condemned
    <3>2. KeepsNewest(q, u) /\ KeepsNoMore(q, u) /\ last'[u] = last[u]
      BY <1>5, <2>3, <2>5 DEF Keeps
    <3> QED BY <2>1, <2>2, <3>1, <3>2 DEF KeepsNewest, KeepsNoMore
  <2>6. KeepsNewest(q, t)' /\ KeepsNoMore(q, t)'
    <3>1. \A i \in sweep[q].doomed[t] : i \in Nat /\ i < last[t]
      BY <1>1, <2>3 DEF StoreInv, SparesLast, Sweep
    <3>2. row.id \notin sweep[q].doomed[t]
      BY <1>2, <3>1
    <3>3. Spared(q, t)' = Spared(q, t) \cup {row} /\ Condemned(q, t)' = Condemned(q, t)
      <4>1. Spared(q, t)' = Spared(q, t) \cup {row}
        BY <1>5, <2>1, <3>2 DEF Spared
      <4>2. Condemned(q, t)' = Condemned(q, t)
        BY <1>5, <2>1, <3>2 DEF Condemned
      <4> QED BY <4>1, <4>2
    <3>4. KeepsNewest(q, t) /\ KeepsNoMore(q, t)
      BY <1>1, <2>3 DEF Keeps
    <3>5. IsFiniteSet(Spared(q, t)) /\ row \notin Spared(q, t)
      <4>1. Spared(q, t) \in SUBSET rows[t]
        BY DEF Spared
      <4> QED BY <1>1, <1>2, <4>1, RowsAreFinite, FS_Subset, RowFacts
    <3>6. /\ Cardinality(Spared(q, t) \cup {row}) = Cardinality(Spared(q, t)) + 1
          /\ Cardinality(Spared(q, t)) \in Nat
      BY <3>5, FS_AddElement, FS_CardinalityType
    <3>7. KeepsNewest(q, t)'
      <4>1. ASSUME NEW i \in Condemned(q, t) PROVE i.id < row.id
        BY <1>2, <3>1 DEF Condemned
      <4>2. sweep[q].keep \in Nat
        BY <2>3 DEF Sweep
      <4> QED BY <2>1, <3>3, <3>4, <3>6, <4>1, <4>2 DEF KeepsNewest
    <3>8. KeepsNoMore(q, t)'
      <4>1. ASSUME sweep[q].doomed[t] # {}
            PROVE  /\ {r \in Spared(q, t)' : r.id <= seen'[q]}
                        = {r \in Spared(q, t) : r.id <= seen[q]}
                   /\ seen'[q] <= last'[t]
        <5>1. seen[q] <= last[t]
          BY <3>4, <4>1 DEF KeepsNoMore
        <5>2. ~(row.id <= seen[q]) /\ seen'[q] <= last'[t]
          BY <1>2, <1>5, <2>1, <2>3, <5>1
        <5>3. \A r : r \in Spared(q, t)' /\ r.id <= seen[q] <=>
                     r \in Spared(q, t) /\ r.id <= seen[q]
          BY <3>3, <5>2
        <5>4. {r \in Spared(q, t)' : r.id <= seen[q]} = {r \in Spared(q, t) : r.id <= seen[q]}
          BY <5>3
        <5> QED BY <2>1, <5>2, <5>4
      <4> QED BY <2>1, <2>2, <3>4, <4>1 DEF KeepsNoMore
    <3> QED BY <3>7, <3>8
  <2>7. \A u \in Thread : KeepsNewest(q, u)' /\ KeepsNoMore(q, u)'
    BY <2>5, <2>6
  <2> QED BY <2>4, <2>7 DEF Keeps
<1> QED BY <1>8, <1>9 DEF SweepsInv

LEMMA SweepsStep ==
  ASSUME StoreInv, SweepsInv, [Next]_vars
  PROVE  SweepsInv'
<1>1. ASSUME UNCHANGED <<rows, last, sweep, pc, ended, seen>> PROVE SweepsInv'
  BY <1>1, UntouchedSweep DEF SweepsInv
<1>2. ASSUME NEW p \in Process, ProcessStep(p) PROVE SweepsInv'
  <2>1. CASE PutWrites(p)
    BY <1>1, <2>1 DEF PutWrites
  <2>2. CASE DeleteRemoved(p)
    BY <2>2, DeleteSweeps
  <2>3. CASE EndCleanup(p) \/ Leave(p) \/ \E t \in Thread : ListRaises(p, t)
    BY <2>3, EndSweeps
  <2>4. ASSUME NEW t \in Thread, Load(p, t) \/ ListThread(p, t) PROVE SweepsInv'
    BY <2>4, LoadSweeps, ListSweeps
  <2>5. ASSUME pc[p] = "run", NEW values \in Channels(p), Put(p, values)
        PROVE  SweepsInv'
    BY <2>5, PutSweeps
  <2>6. ASSUME NEW keep \in Keep, NEW age \in MaxAge \cup {NoAge},
               NEW terminal_only \in BOOLEAN,
               NEW scope \in {Thread} \cup {{t} : t \in Thread},
               BeginCleanup(p, keep, age, terminal_only, scope)
        PROVE  SweepsInv'
    <3>1. scope \in SUBSET Thread
      OBVIOUS
    <3> QED BY <2>6, <3>1, BeginSweeps
  <2> QED BY <1>2, <2>1, <2>2, <2>3, <2>4, <2>5, <2>6 DEF ProcessStep
<1>3. CASE Tick \/ UNCHANGED vars
  BY <1>1, <1>3 DEF Tick, vars, tables
<1> QED BY <1>2, <1>3 DEF Next

LEMMA SweepsInvariant == Spec => [](StoreInv /\ SweepsInv)
<1>1. Init => StoreInv /\ SweepsInv
  BY InitStore, InitSweeps
<1>2. StoreInv /\ SweepsInv /\ [Next]_vars => (StoreInv /\ SweepsInv)'
  BY StoreStep, SweepsStep
<1> QED BY <1>1, <1>2, PTL DEF Spec

(* Rows are only removed by a clean-up that has listed them.               *)
LEMMA OnlyDeletionRemoves ==
  ASSUME StoreInv, [Next]_vars
  PROVE  \/ \A t \in Thread : rows[t] \subseteq rows'[t]
         \/ \E p \in Process : DeleteRemoved(p)
<1>1. ASSUME UNCHANGED rows PROVE \A t \in Thread : rows[t] \subseteq rows'[t]
  BY <1>1
<1>2. ASSUME NEW p \in Process, ProcessStep(p)
      PROVE  (\A t \in Thread : rows[t] \subseteq rows'[t]) \/ DeleteRemoved(p)
  <2>1. CASE pc[p] = "run" /\ \E values \in Channels(p) : Put(p, values)
    <3>1. \E row : rows' = [rows EXCEPT ![work[p].thread] = @ \cup {row}]
      BY <2>1 DEF Put
    <3> QED BY <3>1 DEF StoreInv, TypeOK
  <2>2. CASE \/ PutWrites(p) \/ EndCleanup(p) \/ Leave(p)
             \/ \E t \in Thread : Load(p, t) \/ ListThread(p, t) \/ ListRaises(p, t)
             \/ \E keep \in Keep, age \in MaxAge \cup {NoAge}, terminal_only \in BOOLEAN,
                   scope \in {Thread} \cup {{t} : t \in Thread} :
                  BeginCleanup(p, keep, age, terminal_only, scope)
    <3>1. UNCHANGED rows
      BY <2>2 DEF PutWrites, EndCleanup, Leave, Load, ListThread, ListRaises,
                  BeginCleanup, tables
    <3> QED BY <1>1, <3>1
  <2> QED BY <1>2, <2>1, <2>2 DEF ProcessStep
<1> QED BY <1>1, <1>2 DEF Next, Tick, vars, tables

(* What a deletion does to a thread.                                       *)
LEMMA Deletion ==
  ASSUME StoreInv, NEW p \in Process, NEW t \in Thread, DeleteRemoved(p)
  PROVE  /\ rows'[t] = Spared(p, t) /\ rows[t] \ rows'[t] = Condemned(p, t)
         /\ writes'[t] = writes[t] \ sweep[p].doomed[t]
         /\ pc[p] = "delete" /\ pc'[p] = "list" /\ seen' = seen
         /\ sweep'[p].groups = {u \in sweep[p].groups : sweep[p].doomed[u] = {}}
  BY DEF DeleteRemoved, Spared, Condemned, StoreInv, TypeOK

(* A checkpoint is deleted with its writes, for any processes, threads and *)
(* limits.                                                                 *)
THEOREM WritesGoWithTheirCheckpoint == Spec => WritesGoToo
<1>1. ASSUME StoreInv, [Next]_vars, NEW t \in Thread, NEW i \in writes[t] \cap writes'[t],
             i \in Ids(t)
      PROVE  i \in {r.id : r \in rows'[t]}
  <2>1. PICK r \in rows[t] : r.id = i
    BY <1>1 DEF Ids
  <2>2. CASE rows[t] \subseteq rows'[t]
    BY <2>1, <2>2
  <2>3. ASSUME NEW p \in Process, DeleteRemoved(p) PROVE r \in rows'[t]
    BY <1>1, <2>1, <2>3, Deletion DEF Spared
  <2> QED BY <1>1, <2>1, <2>2, <2>3, OnlyDeletionRemoves
<1>2. StoreInv /\ [Next]_vars =>
        [\A t \in Thread : \A i \in writes[t] \cap writes'[t] :
           i \in Ids(t) => i \in {r.id : r \in rows'[t]}]_vars
  BY <1>1
<1> QED BY <1>2, StoreInvariant, PTL DEF Spec, WritesGoToo

(* A clean-up leaves the newest checkpoints it was asked to keep, whoever  *)
(* saves or cleans up between its list and its deletion, for any           *)
(* processes, threads and limits.                                          *)
THEOREM TheNewestAreKept == Spec => NewestAreKept
<1>1. ASSUME StoreInv, SweepsInv, [Next]_vars, NEW t \in Thread, rows[t] \ rows'[t] # {}
      PROVE  \E p \in Process : pc[p] = "delete" /\ pc'[p] = "list" /\
               Cardinality({r \in rows'[t] : \A q \in rows[t] \ rows'[t] : r.id > q.id})
                 >= sweep[p].keep
  <2>1. PICK p \in Process : DeleteRemoved(p)
    BY <1>1, OnlyDeletionRemoves
  <2>2. /\ rows'[t] = Spared(p, t) /\ rows[t] \ rows'[t] = Condemned(p, t)
        /\ pc[p] = "delete" /\ pc'[p] = "list"
    BY <1>1, <2>1, Deletion
  <2>3. /\ \A r \in Spared(p, t) : \A q \in Condemned(p, t) : q.id < r.id
        /\ Cardinality(Spared(p, t)) >= sweep[p].keep
    BY <1>1, <2>2 DEF SweepsInv, Keeps, KeepsNewest
  <2>4. \A r \in rows[t] : r.id \in Nat
    BY <1>1, RowFacts
  <2>5. Spared(p, t) \subseteq rows[t] /\ Condemned(p, t) \subseteq rows[t]
    BY DEF Spared, Condemned
  <2>6. {r \in rows'[t] : \A q \in rows[t] \ rows'[t] : r.id > q.id} = Spared(p, t)
    BY <2>2, <2>3, <2>4, <2>5
  <2> QED BY <2>2, <2>3, <2>6
<1>2. StoreInv /\ SweepsInv /\ [Next]_vars =>
        [\A t \in Thread : rows[t] \ rows'[t] # {} =>
           \E p \in Process : pc[p] = "delete" /\ pc'[p] = "list" /\
             Cardinality({r \in rows'[t] : \A q \in rows[t] \ rows'[t] : r.id > q.id})
               >= sweep[p].keep]_vars
  BY <1>1
<1> QED BY <1>2, SweepsInvariant, PTL DEF Spec, NewestAreKept

(* Without --include-active nothing is deleted of a thread that was not    *)
(* finished since the clean-up began, for any processes and threads.       *)
THEOREM TheUnfinishedAreKept == Spec => UnfinishedIsKept
<1>1. ASSUME StoreInv, SweepsInv, [Next]_vars, NEW t \in Thread, rows[t] \ rows'[t] # {}
      PROVE  \E p \in Process : pc[p] = "delete" /\ pc'[p] = "list"
               /\ (~sweep[p].terminal_only \/ t \in ended[p])
  <2>1. PICK p \in Process : DeleteRemoved(p)
    BY <1>1, OnlyDeletionRemoves
  <2>2. /\ rows[t] \ rows'[t] = Condemned(p, t)
        /\ pc[p] = "delete" /\ pc'[p] = "list"
    BY <1>1, <2>1, Deletion
  <2>3. sweep[p].doomed[t] # {}
    BY <1>1, <2>2 DEF Condemned
  <2> QED BY <1>1, <2>2, <2>3 DEF SweepsInv, Keeps, KeepsNoMore
<1>2. StoreInv /\ SweepsInv /\ [Next]_vars =>
        [\A t \in Thread : rows[t] \ rows'[t] # {} =>
           \E p \in Process : pc[p] = "delete" /\ pc'[p] = "list"
             /\ (~sweep[p].terminal_only \/ t \in ended[p])]_vars
  BY <1>1
<1> QED BY <1>2, SweepsInvariant, PTL DEF Spec, UnfinishedIsKept

(* A thread leaves the groups of a clean-up by its own steps: after it was *)
(* listed with nothing to delete, or deleted from.                         *)
LEMMA GroupsLeft ==
  ASSUME StoreInv, SweepsInv, [Next]_vars, NEW p \in Process, pc'[p] = "list",
         NEW t \in sweep[p].groups, t \notin sweep'[p].groups
  PROVE  (ListThread(p, t) /\ Remove(p, t) = {}) \/ DeleteRemoved(p)
<1>1. /\ SweepOK(p) /\ sweep[p] \in Sweep
      /\ DOMAIN sweep = Process /\ DOMAIN pc = Process
  BY DEF SweepsInv, StoreInv, TypeOK
<1>2. pc[p] \notin {"out", "run"}
  BY <1>1 DEF SweepOK
<1>3. sweep' # sweep
  OBVIOUS
<1>4. ASSUME NEW q \in Process, ProcessStep(q)
      PROVE  (ListThread(p, t) /\ Remove(p, t) = {}) \/ DeleteRemoved(p)
  <2>1. CASE PutWrites(q) \/ \E u \in Thread : Load(q, u)
    BY <1>3, <2>1 DEF PutWrites, Load
  <2>2. CASE EndCleanup(q) \/ Leave(q) \/ \E u \in Thread : ListRaises(q, u)
    <3>1. q = p
      BY <1>1, <2>2 DEF EndCleanup, Leave, ListRaises
    <3>2. sweep[p].back \in {"out", "run"}
      BY <1>1 DEF Sweep
    <3> QED BY <1>1, <2>2, <3>1, <3>2 DEF EndCleanup, Leave, ListRaises
  <2>3. CASE pc[q] = "run" /\ \E values \in Channels(q) : Put(q, values)
    <3>1. q # p
      BY <1>2, <2>3 DEF Put
    <3> QED BY <1>1, <2>3, <3>1 DEF Put
  <2>4. CASE \E keep \in Keep, age \in MaxAge \cup {NoAge}, terminal_only \in BOOLEAN,
                scope \in {Thread} \cup {{u} : u \in Thread} :
               BeginCleanup(q, keep, age, terminal_only, scope)
    <3>1. q # p
      BY <1>2, <2>4 DEF BeginCleanup
    <3> QED BY <1>1, <2>4, <3>1 DEF BeginCleanup
  <2>5. ASSUME NEW u \in Thread, ListThread(q, u)
        PROVE  ListThread(p, t) /\ Remove(p, t) = {}
    <3>1. q = p
      BY <1>1, <2>5 DEF ListThread
    <3>2. Remove(p, u) = {}
      BY <1>1, <2>5, <3>1 DEF ListThread
    <3>3. sweep'[p].groups = sweep[p].groups \ {u}
      BY <1>1, <2>5, <3>1, <3>2 DEF ListThread, Sweep
    <3> QED BY <2>5, <3>1, <3>2, <3>3
  <2>6. ASSUME DeleteRemoved(q) PROVE DeleteRemoved(p)
    <3>1. q = p
      BY <1>1, <2>6 DEF DeleteRemoved
    <3> QED BY <2>6, <3>1
  <2> QED BY <1>4, <2>1, <2>2, <2>3, <2>4, <2>5, <2>6 DEF ProcessStep
<1> QED BY <1>3, <1>4 DEF Next, Tick, vars

(* After a clean-up without an age, no thread it went over has more than   *)
(* the limit of those it listed, for any processes, threads and limits.    *)
THEOREM TheLimitIsApplied == Spec => RetentionIsApplied
<1>1. ASSUME StoreInv, SweepsInv, [Next]_vars, NEW p \in Process,
             NEW t \in sweep[p].groups \ sweep'[p].groups,
             pc'[p] = "list", sweep[p].cutoff = NoAge,
             pc[p] = "delete" \/ Finished(t) \/ ~sweep[p].terminal_only
      PROVE  Cardinality({r \in rows'[t] : r.id <= seen'[p]}) <= sweep[p].keep
  <2>1. t \in Thread /\ sweep[p].keep \in Nat \ {0}
    BY <1>1 DEF StoreInv, TypeOK, Sweep
  <2>2. ASSUME ListThread(p, t), Remove(p, t) = {}
        PROVE  Cardinality({r \in rows'[t] : r.id <= seen'[p]}) <= sweep[p].keep
    <3> DEFINE listed == {r \in rows'[t] : r.id <= seen'[p]}
    <3>1. rows' = rows /\ pc[p] = "list"
      BY <2>2 DEF ListThread, tables
    <3>2. {q \in Beyond(t, sweep[p].keep) : TooOld(q, sweep[p].cutoff)} = {}
      BY <1>1, <2>2, <3>1 DEF Remove
    <3>3. Beyond(t, sweep[p].keep) = {}
      BY <1>1, <3>2 DEF TooOld
    <3>4. Cardinality(rows[t]) <= sweep[p].keep
      <4>1. rows[t] \ Beyond(t, sweep[p].keep) = rows[t]
        BY <3>3
      <4>2. Cardinality(rows[t] \ Beyond(t, sweep[p].keep)) <= sweep[p].keep
        BY <1>1, <2>1, NoMoreThanLimit
      <4> QED BY <4>1, <4>2
    <3>5. listed \in SUBSET rows[t] /\ IsFiniteSet(rows[t])
      BY <1>1, <2>1, <3>1, RowsAreFinite
    <3> HIDE DEF listed
    <3>6. /\ Cardinality(listed) <= Cardinality(rows[t])
          /\ Cardinality(listed) \in Nat /\ Cardinality(rows[t]) \in Nat
      BY <3>5, FS_Subset, FS_CardinalityType
    <3>7. Cardinality(listed) <= sweep[p].keep
      BY ONLY <2>1, <3>4, <3>6
    <3> QED BY <3>7 DEF listed
  <2>3. ASSUME DeleteRemoved(p)
        PROVE  Cardinality({r \in rows'[t] : r.id <= seen'[p]}) <= sweep[p].keep
    <3>1. /\ rows'[t] = Spared(p, t) /\ seen' = seen
          /\ t \notin sweep'[p].groups => sweep[p].doomed[t] # {}
      BY <1>1, <2>1, <2>3, Deletion
    <3>2. KeepsNoMore(p, t)
      BY <1>1, <2>1 DEF SweepsInv, Keeps
    <3> QED BY <1>1, <3>1, <3>2 DEF KeepsNoMore
  <2> QED BY <1>1, <2>2, <2>3, GroupsLeft
<1>2. StoreInv /\ SweepsInv /\ [Next]_vars =>
        [\A p \in Process : \A t \in sweep[p].groups \ sweep'[p].groups :
           /\ pc'[p] = "list" /\ sweep[p].cutoff = NoAge
           /\ pc[p] = "delete" \/ Finished(t) \/ ~sweep[p].terminal_only
           => Cardinality({r \in rows'[t] : r.id <= seen'[p]}) <= sweep[p].keep]_vars
  BY <1>1
<1> QED BY <1>2, SweepsInvariant, PTL DEF Spec, RetentionIsApplied
=============================================================================

-------------------------- MODULE MigrationProofs --------------------------
(***************************************************************************)
(* Proof about Migration, for any processes, files and bounds: no start of *)
(* any process loses or narrows a signal.                                  *)
(*                                                                         *)
(* What a transaction has done so far is compared with the file it began   *)
(* from (Stages); that file is still the one on disk once the transaction  *)
(* has written (Based), because the advisory lock keeps a second migration *)
(* out (Alone) and the write lock everybody else.                          *)
(***************************************************************************)
EXTENDS Migration, TLAPS

Inside == Phases \cup {"begin"}

TypeOK ==
  /\ disk \in Databases
  /\ pc \in [Procs -> Inside \cup {"lock", "ready", "down", "gone"}]
  /\ work \in [Procs -> [base : Databases, db : Databases]]

\* Who is inside a transaction holds the advisory lock, and nobody else does.
Alone == \A p \in Procs : pc[p] \in Inside => lock = {p}

\* A transaction that has written began from the file as it is.
Based == \A p \in Procs : pc[p] \in Phases /\ Written(p) => work[p].base = disk

\* What has become of the signals of base when a phase begins.
Stage(phase, db, base) ==
  /\ phase = "mirror" => Has(db, "signals") /\ db = base
  /\ phase = "copy" => Has(db, "signals") /\ db.columns = base.columns /\ db.rows = base.rows
  /\ phase \in {"drop", "rename"} =>
       \E rows \in Rows : db.mirror = {rows} /\ Keeps(rows, base.rows)
  /\ phase \in {"create", "index", "extend", "commit"} =>
       WellFormed(db) /\ Keeps(db.rows, base.rows)

Stages ==
  \A p \in Procs : pc[p] \in Phases =>
     WellFormed(work[p].base) /\ Stage(pc[p], work[p].db, work[p].base)

IInv == TypeOK /\ Alone /\ Based /\ WellFormed(disk) /\ Stages

-----------------------------------------------------------------------------
(* The statements *)

LEMMA RowsTyped ==
  ASSUME NEW rows \in Rows
  PROVE  /\ rows = [id \in DOMAIN rows |-> rows[id]]
         /\ DOMAIN rows \subseteq 1 .. MaxSignals
         /\ \A id \in DOMAIN rows : rows[id] \subseteq Copyable
  BY DEF Rows

LEMMA ShapesTyped ==
  ASSUME NEW columns \in Shapes
  PROVE  /\ DOMAIN columns \subseteq Tables
         /\ \A t \in DOMAIN columns : columns[t] \subseteq Columns
  BY DEF Shapes

LEMMA NoRows ==
  [id \in {} |-> {}] \in Rows
  <1>1. [id \in {} |-> {}] \in [{} -> SUBSET Copyable] /\ {} \in SUBSET (1 .. MaxSignals)
    OBVIOUS
  <1> QED
    BY <1>1 DEF Rows

\* What each statement leaves behind for the next phase.
LEMMA MirroredStage ==
  ASSUME NEW db \in Databases, NEW base, Stage("mirror", db, base), WellFormed(base)
  PROVE  Mirrored(db) \in Databases /\ Stage("copy", Mirrored(db), base)
  <1> DEFINE none == [id \in {} |-> {}]
  <1>1. none \in Rows
    BY NoRows
  <1> HIDE DEF none
  <1>2. Mirrored(db) = [columns |-> db.columns, accepts |-> db.accepts, indexed |-> db.indexed,
                        rows |-> db.rows, mirror |-> {none}]
    <2>1. Mirrored(db) = [db EXCEPT !.mirror = {none}]
      BY DEF Mirrored, none
    <2> QED
      BY <2>1 DEF Databases
  <1>3. Mirrored(db) \in Databases
    BY <1>1, <1>2 DEF Databases, Mirrors
  <1> QED
    BY <1>2, <1>3 DEF Stage, Has

LEMMA CopiedStage ==
  ASSUME NEW db \in Databases, NEW base \in Databases, Stage("copy", db, base), WellFormed(base)
  PROVE  Copied(db) \in Databases /\ Stage("drop", Copied(db), base)
  <1> DEFINE copy == [id \in DOMAIN db.rows |->
                        db.rows[id] \cap Copyable \cap db.columns["signals"]]
  <1>1. db.rows \in Rows
    BY DEF Databases
  <1>2. copy \in [DOMAIN db.rows -> SUBSET Copyable] /\ DOMAIN db.rows \in SUBSET (1 .. MaxSignals)
    BY <1>1, RowsTyped
  <1>3. copy \in Rows
    BY <1>2 DEF Rows
  <1>4. Keeps(copy, base.rows)
    <2>1. ASSUME NEW id \in DOMAIN base.rows
          PROVE  id \in DOMAIN copy /\ base.rows[id] \subseteq copy[id]
      <3>1. db.rows = base.rows /\ db.columns = base.columns
        BY DEF Stage
      <3>2. base.rows[id] \subseteq Copyable
        BY <1>1, <3>1, RowsTyped
      <3>3. base.rows[id] \subseteq base.columns["signals"]
        BY DEF WellFormed
      <3> QED
        BY <3>1, <3>2, <3>3
    <2> QED
      BY <2>1 DEF Keeps
  <1> HIDE DEF copy
  <1>5. Copied(db) = [columns |-> db.columns, accepts |-> db.accepts, indexed |-> db.indexed,
                      rows |-> db.rows, mirror |-> {copy}]
    <2>1. Copied(db) = [db EXCEPT !.mirror = {copy}]
      BY DEF Copied, copy
    <2> QED
      BY <2>1 DEF Databases
  <1>6. Copied(db) \in Databases
    BY <1>3, <1>5 DEF Databases, Mirrors
  <1>7. Copied(db).mirror = {copy}
    BY <1>5
  <1> QED
    BY <1>3, <1>4, <1>6, <1>7 DEF Stage

LEMMA DroppedStage ==
  ASSUME NEW db \in Databases, NEW base, Stage("drop", db, base)
  PROVE  Dropped(db) \in Databases /\ Stage("rename", Dropped(db), base)
  <1> DEFINE none == [id \in {} |-> {}]
             left == [t \in DOMAIN db.columns \ {"signals"} |-> db.columns[t]]
  <1>1. none \in Rows
    BY NoRows
  <1>2. left \in [DOMAIN db.columns \ {"signals"} -> SUBSET Columns]
        /\ DOMAIN db.columns \ {"signals"} \in SUBSET Tables
    BY ShapesTyped DEF Databases
  <1> HIDE DEF none, left
  <1>3. Dropped(db) = [columns |-> left, accepts |-> db.accepts,
                       indexed |-> db.indexed \ {"signals"}, rows |-> none, mirror |-> db.mirror]
    <2>1. Dropped(db) = [db EXCEPT !.columns = left, !.indexed = db.indexed \ {"signals"}, !.rows = none]
      BY DEF Dropped, none, left
    <2> QED
      BY <2>1 DEF Databases
  <1>4. PICK rows \in Rows : db.mirror = {rows} /\ Keeps(rows, base.rows)
    BY DEF Stage
  <1>5. Dropped(db) \in Databases
    BY <1>1, <1>2, <1>3 DEF Databases, Shapes
  <1>6. Dropped(db).mirror = {rows}
    BY <1>3, <1>4
  <1> QED
    BY <1>4, <1>5, <1>6 DEF Stage

LEMMA RenamedStage ==
  ASSUME NEW db \in Databases, NEW base, Stage("rename", db, base)
  PROVE  Renamed(db) \in Databases /\ Stage("create", Renamed(db), base)
  <1> DEFINE columns == [t \in DOMAIN db.columns \cup {"signals"} |->
                           IF t = "signals" THEN Declared[t] ELSE db.columns[t]]
  <1>1. PICK rows \in Rows : db.mirror = {rows} /\ Keeps(rows, base.rows)
    BY DEF Stage
  <1>2. Declared["signals"] = Copyable
    BY DEF Declared, Copyable, Tables
  <1>3. columns \in [DOMAIN db.columns \cup {"signals"} -> SUBSET Columns]
        /\ DOMAIN db.columns \cup {"signals"} \in SUBSET Tables
    BY <1>2, ShapesTyped DEF Databases, Copyable, Columns, Tables
  <1>4. "signals" \in DOMAIN columns /\ columns["signals"] = Copyable
    BY <1>2
  <1> HIDE DEF columns
  <1>5. Renamed(db) = [columns |-> columns, accepts |-> TRUE, indexed |-> db.indexed,
                       rows |-> rows, mirror |-> {}]
    <2>1. (CHOOSE r \in db.mirror : TRUE) = rows
      BY <1>1
    <2>2. Renamed(db) = [db EXCEPT !.columns = columns, !.accepts = TRUE, !.rows = rows, !.mirror = {}]
      BY <2>1 DEF Renamed, columns
    <2> QED
      BY <2>1, <2>2 DEF Databases
  <1>6. Renamed(db) \in Databases
    BY <1>3, <1>5 DEF Databases, Shapes, Mirrors
  <1>7. WellFormed(Renamed(db))
    BY <1>4, <1>5, RowsTyped DEF WellFormed, Has
  <1>8. Renamed(db).rows = rows
    BY <1>5
  <1> QED
    BY <1>1, <1>6, <1>7, <1>8 DEF Stage

\* The statements after a rebuild leave the signals alone.
LEMMA CreatedStage ==
  ASSUME NEW db \in Databases, NEW base, Stage("create", db, base)
  PROVE  Created(db) \in Databases /\ Stage("index", Created(db), base)
  <1> DEFINE columns == [t \in Tables |-> IF Has(db, t) THEN db.columns[t] ELSE Declared[t]]
  <1>1. Declared \in [Tables -> SUBSET Columns]
    BY DEF Declared, Tables, Columns
  <1>2. columns \in [Tables -> SUBSET Columns]
    BY <1>1, ShapesTyped DEF Databases, Has
  <1>3. Has(db, "signals") => "signals" \in DOMAIN columns /\ columns["signals"] = db.columns["signals"]
    BY DEF Tables
  <1> HIDE DEF columns
  <1>4. Created(db) = [columns |-> columns, accepts |-> db.accepts \/ ~Has(db, "signals"),
                       indexed |-> db.indexed, rows |-> db.rows, mirror |-> db.mirror]
    <2>1. Created(db) = [db EXCEPT !.columns = columns, !.accepts = db.accepts \/ ~Has(db, "signals")]
      BY DEF Created, columns
    <2> QED
      BY <2>1 DEF Databases
  <1>5. Created(db) \in Databases
    BY <1>2, <1>4 DEF Databases, Shapes
  <1>6. WellFormed(Created(db))
    BY <1>3, <1>4 DEF WellFormed, Has, Stage
  <1> QED
    BY <1>4, <1>5, <1>6 DEF Stage

LEMMA IndexedStage ==
  ASSUME NEW db \in Databases, NEW base, Stage("index", db, base)
  PROVE  Indexed(db) \in Databases /\ Stage("extend", Indexed(db), base)
  <1>1. Indexed(db) = [columns |-> db.columns, accepts |-> db.accepts,
                       indexed |-> Tables, rows |-> db.rows, mirror |-> db.mirror]
    BY DEF Databases, Indexed
  <1>2. Indexed(db) \in Databases
    BY <1>1 DEF Databases
  <1> QED
    BY <1>1, <1>2 DEF Stage, WellFormed, Has

LEMMA ExtendedStage ==
  ASSUME NEW db \in Databases, NEW base, Stage("extend", db, base)
  PROVE  Extended(db) \in Databases /\ Stage("commit", Extended(db), base)
  <1> DEFINE columns == [t \in DOMAIN db.columns |->
                           db.columns[t] \cup {c \in Columns : <<t, c>> \in Additive}]
  <1>1. columns \in [DOMAIN db.columns -> SUBSET Columns]
    BY ShapesTyped DEF Databases
  <1>2. \A t \in DOMAIN db.columns : db.columns[t] \subseteq columns[t]
    OBVIOUS
  <1>3. DOMAIN columns = DOMAIN db.columns
    OBVIOUS
  <1> HIDE DEF columns
  <1>4. Extended(db) = [columns |-> columns, accepts |-> db.accepts,
                        indexed |-> db.indexed, rows |-> db.rows, mirror |-> db.mirror]
    <2>1. Extended(db) = [db EXCEPT !.columns = columns]
      BY DEF Extended, columns
    <2> QED
      BY <2>1 DEF Databases
  <1>5. Extended(db) \in Databases
    BY <1>1, <1>4 DEF Databases, Shapes
  <1>6. WellFormed(Extended(db))
    BY <1>2, <1>3, <1>4 DEF WellFormed, Has, Stage
  <1> QED
    BY <1>4, <1>5, <1>6 DEF Stage

-----------------------------------------------------------------------------
(* The steps *)

LEMMA InitTyped ==
  ASSUME Init
  PROVE  IInv
  <1>1. disk \in Databases /\ WellFormed(disk)
    BY MigrationAssumption DEF Init
  <1> QED
    BY <1>1 DEF Init, IInv, TypeOK, Inside, Phases, Nothing, Alone, Based, Stages

\* A signal is inserted while no transaction has written.
LEMMA InsertedKeeps ==
  ASSUME TypeOK, WellFormed(disk), Unused # {}, Has(disk, "signals"),
         NEW columns \in SUBSET Copyable, columns \subseteq disk.columns["signals"]
  PROVE  LET db == Inserted(columns)
         IN  db \in Databases /\ WellFormed(db) /\ Keeps(db.rows, disk.rows)
  <1> DEFINE new  == CHOOSE id \in Unused : TRUE
             rows == [id \in DOMAIN disk.rows \cup {new} |->
                        IF id = new THEN columns ELSE disk.rows[id]]
  <1>1. new \in 1 .. MaxSignals /\ \A other \in DOMAIN disk.rows : other < new
    BY DEF Unused
  <1>2. disk.rows \in Rows
    BY DEF TypeOK, Databases
  <1>3. DOMAIN disk.rows \subseteq 1 .. MaxSignals
    BY <1>2, RowsTyped
  <1>4. new \notin DOMAIN disk.rows
    BY <1>1, <1>3, MigrationAssumption
  <1>5. rows \in [DOMAIN disk.rows \cup {new} -> SUBSET Copyable]
        /\ DOMAIN disk.rows \cup {new} \in SUBSET (1 .. MaxSignals)
    BY <1>1, <1>2, <1>3, RowsTyped
  <1>6. rows \in Rows
    BY <1>5 DEF Rows
  <1>7. Keeps(rows, disk.rows)
    BY <1>4 DEF Keeps
  <1>8. \A id \in DOMAIN rows : rows[id] \subseteq disk.columns["signals"]
    BY DEF WellFormed
  <1>9. Inserted(columns) = [disk EXCEPT !.rows = rows]
    BY DEF Inserted
  <1> HIDE DEF new, rows
  <1>10. Inserted(columns) = [columns |-> disk.columns, accepts |-> disk.accepts,
                              indexed |-> disk.indexed, rows |-> rows, mirror |-> disk.mirror]
    BY <1>9 DEF TypeOK, Databases
  <1>11. Inserted(columns) \in Databases
    BY <1>6, <1>10 DEF TypeOK, Databases
  <1>12. WellFormed(Inserted(columns))
    BY <1>8, <1>10 DEF WellFormed, Has
  <1> QED
    BY <1>7, <1>10, <1>11, <1>12

LEMMA InsertStep ==
  ASSUME IInv, Unlocked, Unused # {}, Has(disk, "signals"),
         NEW columns \in SUBSET Copyable, columns \subseteq disk.columns["signals"],
         disk' = Inserted(columns), UNCHANGED <<pc, work, lock>>
  PROVE  IInv' /\ Keeps(disk'.rows, disk.rows)
  <1>1. disk' \in Databases /\ WellFormed(disk') /\ Keeps(disk'.rows, disk.rows)
    BY InsertedKeeps DEF IInv
  <1>2. Based'
    BY DEF Based, Unlocked, Written
  <1> QED
    BY <1>1, <1>2 DEF IInv, TypeOK, Alone, Stages

\* The transaction of a process that ends is rolled back.
LEMMA EndsStep ==
  ASSUME IInv, NEW p \in Procs, Ends(p)
  PROVE  IInv' /\ disk' = disk
  <1>1. disk' = disk
    BY DEF Ends
  <1>2. TypeOK'
    BY <1>1 DEF IInv, TypeOK, Ends, Nothing
  <1>3. Alone'
    BY DEF IInv, TypeOK, Alone, Ends, Inside, Phases
  <1>4. Based'
    BY <1>1 DEF IInv, TypeOK, Based, Ends, Nothing, Written, Phases
  <1>5. Stages'
    BY <1>1 DEF IInv, TypeOK, Stages, Ends, Phases
  <1> QED
    BY <1>1, <1>2, <1>3, <1>4, <1>5 DEF IInv

\* One statement, whatever it does, once its effect on the signals is known.
LEMMA StatementStep ==
  ASSUME IInv, NEW p \in Procs, NEW phase \in Phases, NEW next \in Phases, NEW db \in Databases,
         Statement(p, phase, db, next),
         Stage(phase, work[p].db, work[p].base) => Stage(next, db, work[p].base)
  PROVE  IInv' /\ disk' = disk
  <1>1. CASE Refused(p, db)
    BY <1>1, EndsStep DEF Statement
  <1>2. CASE ~Refused(p, db)
    <2>1. /\ pc[p] = phase /\ disk' = disk /\ lock' = lock
          /\ work' = [work EXCEPT ![p].db = db]
          /\ pc' = [pc EXCEPT ![p] = next]
      BY <1>2 DEF Statement
    <2>2. work'[p] = [base |-> work[p].base, db |-> db]
          /\ \A q \in Procs \ {p} : work'[q] = work[q] /\ pc'[q] = pc[q]
      BY <2>1 DEF IInv, TypeOK
    <2>3. pc'[p] = next
      BY <2>1 DEF IInv, TypeOK
    <2>4. TypeOK'
      BY <2>1 DEF IInv, TypeOK, Inside
    <2>5. Alone'
      BY <2>1, <2>2 DEF IInv, Alone, Inside
    <2>6. Based'
      <3>1. ASSUME NEW q \in Procs, q # p, pc'[q] \in Phases, Written(q)'
            PROVE  work'[q].base = disk'
        BY <2>1, <2>2, <3>1 DEF IInv, Based, Written
      <3>2. ASSUME Written(p)'
            PROVE  work'[p].base = disk'
        BY <1>2, <2>1, <2>2, <3>2 DEF IInv, Based, Written, Refused
      <3> QED
        BY <3>1, <3>2 DEF Based
    <2>7. Stages'
      <3>1. WellFormed(work'[p].base) /\ Stage(pc'[p], work'[p].db, work'[p].base)
        BY <2>1, <2>2, <2>3 DEF IInv, Stages
      <3>2. ASSUME NEW q \in Procs, q # p, pc'[q] \in Phases
            PROVE  WellFormed(work'[q].base) /\ Stage(pc'[q], work'[q].db, work'[q].base)
        BY <2>2, <3>2 DEF IInv, Stages
      <3> QED
        BY <3>1, <3>2 DEF Stages
    <2> QED
      BY <2>1, <2>4, <2>5, <2>6, <2>7 DEF IInv
  <1> QED
    BY <1>1, <1>2

LEMMA StartStep ==
  ASSUME IInv, NEW p \in Procs, Start(p) \/ Lock(p)
  PROVE  IInv' /\ disk' = disk
  <1>1. disk' = disk /\ work' = work
    BY DEF Start, Lock
  <1>2. TypeOK'
    BY <1>1 DEF IInv, TypeOK, Start, Lock, Inside
  <1>3. Alone'
    BY DEF IInv, TypeOK, Alone, Start, Lock, Inside, Phases
  <1>4. Based' /\ Stages'
    BY <1>1 DEF IInv, TypeOK, Based, Stages, Start, Lock, Phases, Written
  <1> QED
    BY <1>1, <1>2, <1>3, <1>4 DEF IInv

LEMMA BeginStep ==
  ASSUME IInv, NEW p \in Procs, Begin(p)
  PROVE  IInv' /\ disk' = disk
  <1>1. /\ disk' = disk /\ lock' = lock /\ pc[p] = "begin"
        /\ work' = [work EXCEPT ![p] = [base |-> disk, db |-> disk]]
        /\ pc' = [pc EXCEPT ![p] = IF NeedsRebuild(disk) THEN "mirror" ELSE "create"]
    BY DEF Begin, Nothing
  <1>2. TypeOK'
    BY <1>1 DEF IInv, TypeOK, Inside, Phases
  <1>3. Alone'
    BY <1>1 DEF IInv, TypeOK, Alone, Inside, Phases
  <1>4. Based'
    BY <1>1 DEF IInv, TypeOK, Based, Written
  <1>5. Stages'
    <2>1. Stage(pc'[p], disk, disk)
      BY <1>1 DEF IInv, TypeOK, Stage, NeedsRebuild, Keeps
    <2>2. WellFormed(work'[p].base) /\ Stage(pc'[p], work'[p].db, work'[p].base)
      BY <1>1, <2>1 DEF IInv, TypeOK
    <2>3. \A q \in Procs \ {p} : work'[q] = work[q] /\ pc'[q] = pc[q]
      BY <1>1 DEF IInv, TypeOK
    <2>4. ASSUME NEW q \in Procs, q # p, pc'[q] \in Phases
          PROVE  WellFormed(work'[q].base) /\ Stage(pc'[q], work'[q].db, work'[q].base)
      BY <2>3, <2>4 DEF IInv, Stages
    <2> QED
      BY <2>2, <2>4 DEF Stages
  <1> QED
    BY <1>1, <1>2, <1>3, <1>4, <1>5 DEF IInv

LEMMA CommitStep ==
  ASSUME IInv, NEW p \in Procs, Commit(p)
  PROVE  IInv' /\ Keeps(disk'.rows, disk.rows)
  <1>1. /\ pc[p] = "commit" /\ disk' = IF Written(p) THEN work[p].db ELSE disk
        /\ work' = [work EXCEPT ![p] = Nothing(disk')]
        /\ pc' = [pc EXCEPT ![p] = "ready"]
    BY DEF Commit
  <1>2. disk' \in Databases /\ WellFormed(disk') /\ Keeps(disk'.rows, disk.rows)
    <2>1. WellFormed(work[p].db) /\ Keeps(work[p].db.rows, work[p].base.rows)
      BY <1>1 DEF IInv, Stages, Stage, Phases
    <2>2. Written(p) => work[p].base = disk
      BY <1>1 DEF IInv, Based, Phases
    <2> QED
      BY <1>1, <2>1, <2>2 DEF IInv, TypeOK, Keeps
  <1>3. TypeOK'
    BY <1>1, <1>2 DEF IInv, TypeOK, Nothing
  <1>4. \A q \in Procs : pc'[q] \notin Inside
    BY <1>1 DEF IInv, TypeOK, Alone, Inside, Phases
  <1> QED
    BY <1>2, <1>3, <1>4 DEF IInv, Alone, Based, Stages, Inside

\* A process that serves, or fails, or takes a step towards serving.
LEMMA RebuildStep ==
  ASSUME IInv, NEW p \in Procs, Mirror(p) \/ Copy(p) \/ Drop(p) \/ Rename(p)
  PROVE  IInv' /\ disk' = disk
  <1> DEFINE base == work[p].base
             db   == work[p].db
  <1>1. db \in Databases /\ base \in Databases
    BY DEF IInv, TypeOK
  <1>2. {"mirror", "copy", "drop", "rename", "create"} \subseteq Phases
    BY DEF Phases
  <1>3. pc[p] \in {"mirror", "copy", "drop", "rename"}
    BY DEF Mirror, Copy, Drop, Rename, Statement
  <1>4. WellFormed(base) /\ Stage(pc[p], db, base)
    BY <1>2, <1>3 DEF IInv, Stages
  <1>5. CASE Mirror(p)
    <2>1. pc[p] = "mirror"
      BY <1>5 DEF Mirror, Statement
    <2> QED
      BY <1>1, <1>2, <1>4, <1>5, <2>1, MirroredStage, StatementStep DEF Mirror
  <1>6. CASE Copy(p)
    <2>1. pc[p] = "copy"
      BY <1>6 DEF Copy, Statement
    <2> QED
      BY <1>1, <1>2, <1>4, <1>6, <2>1, CopiedStage, StatementStep DEF Copy
  <1>7. CASE Drop(p)
    <2>1. pc[p] = "drop"
      BY <1>7 DEF Drop, Statement
    <2> QED
      BY <1>1, <1>2, <1>4, <1>7, <2>1, DroppedStage, StatementStep DEF Drop
  <1>8. CASE Rename(p)
    <2>1. pc[p] = "rename"
      BY <1>8 DEF Rename, Statement
    <2> QED
      BY <1>1, <1>2, <1>4, <1>8, <2>1, RenamedStage, StatementStep DEF Rename
  <1> QED
    BY <1>5, <1>6, <1>7, <1>8

LEMMA SchemaStep ==
  ASSUME IInv, NEW p \in Procs, CreateTables(p) \/ CreateIndex(p) \/ AddColumns(p)
  PROVE  IInv' /\ disk' = disk
  <1> DEFINE base == work[p].base
             db   == work[p].db
  <1>1. db \in Databases /\ base \in Databases
    BY DEF IInv, TypeOK
  <1>2. {"create", "index", "extend", "commit"} \subseteq Phases
    BY DEF Phases
  <1>3. pc[p] \in {"create", "index", "extend"}
    BY DEF CreateTables, CreateIndex, AddColumns, Statement
  <1>4. Stage(pc[p], db, base)
    BY <1>2, <1>3 DEF IInv, Stages
  <1>5. CASE CreateTables(p)
    <2>1. pc[p] = "create"
      BY <1>5 DEF CreateTables, Statement
    <2> QED
      BY <1>1, <1>2, <1>4, <1>5, <2>1, CreatedStage, StatementStep DEF CreateTables
  <1>6. CASE CreateIndex(p)
    <2>1. pc[p] = "index"
      BY <1>6 DEF CreateIndex, Statement
    <2> QED
      BY <1>1, <1>2, <1>4, <1>6, <2>1, IndexedStage, StatementStep DEF CreateIndex
  <1>7. CASE AddColumns(p)
    <2>1. pc[p] = "extend"
      BY <1>7 DEF AddColumns, Statement
    <2> QED
      BY <1>1, <1>2, <1>4, <1>7, <2>1, ExtendedStage, StatementStep DEF AddColumns
  <1> QED
    BY <1>5, <1>6, <1>7

LEMMA NextKeeps ==
  ASSUME IInv, [Next]_vars
  PROVE  IInv' /\ Keeps(disk'.rows, disk.rows)
  <1>1. disk' = disk => Keeps(disk'.rows, disk.rows)
    BY DEF Keeps
  <1>2. ASSUME NEW p \in Procs, Step(p)
        PROVE  IInv' /\ Keeps(disk'.rows, disk.rows)
    BY <1>1, <1>2, StartStep, BeginStep, RebuildStep, SchemaStep, CommitStep DEF Step
  <1>3. ASSUME NEW p \in Procs, Fail(p)
        PROVE  IInv' /\ Keeps(disk'.rows, disk.rows)
    BY <1>1, <1>3, EndsStep DEF Fail
  <1>4. ASSUME NEW p \in Procs, Insert(p)
        PROVE  IInv' /\ Keeps(disk'.rows, disk.rows)
    <2>1. Has(disk, "signals") /\ Copyable \subseteq disk.columns["signals"]
      BY <1>4 DEF Insert, Current, Has, Declared, Copyable, Tables
    <2> QED
      BY <1>4, <2>1, InsertStep DEF Insert
  <1>5. ASSUME OlderInsert
        PROVE  IInv' /\ Keeps(disk'.rows, disk.rows)
    <2>1. {"entry"} \in SUBSET Copyable
      BY DEF Copyable
    <2> QED
      BY <1>5, <2>1, InsertStep DEF OlderInsert
  <1>6. UNCHANGED vars => IInv' /\ Keeps(disk'.rows, disk.rows)
    BY <1>1 DEF vars, IInv, TypeOK, Alone, Based, Stages, Written
  <1> QED
    BY <1>2, <1>3, <1>4, <1>5, <1>6 DEF Next

-----------------------------------------------------------------------------
\* What has been committed of the signals is never lost, by whatever start,
\* kill or writer, and a transaction only ever compares itself with the file it
\* began from (initialize: "Idempotent and non-destructive").
THEOREM SignalsKept == Spec => []IInv /\ RowsKept
  <1>1. Init => IInv
    BY InitTyped
  <1>2. IInv /\ [Next]_vars => IInv' /\ Keeps(disk'.rows, disk.rows)
    BY NextKeeps
  <1>3. Spec => []IInv
    BY <1>1, <1>2, PTL DEF Spec
  <1>4. IInv /\ [Next]_vars => [Keeps(disk'.rows, disk.rows)]_vars
    BY <1>2
  <1> QED
    BY <1>3, <1>4, PTL DEF Spec, RowsKept
=============================================================================

------------------------------- MODULE Migration -------------------------------
(***************************************************************************)
(* How a process brings the shared SQLite file up to date before it        *)
(* serves: Database.initialize of database/database.py, which the web      *)
(* server, every daemon and every command of the command line run first.   *)
(*                                                                         *)
(* The processes take an advisory lock in turn; the statements of one run  *)
(* in a transaction that sees the file as it was at its first read.  A     *)
(* process may end at any statement.  Processes of an earlier version may  *)
(* still be writing, as docker-compose.yml's services are replaced one     *)
(* after the other.                                                        *)
(*                                                                         *)
(* A database is a record: the columns of each of its tables, whether the  *)
(* status check of signals accepts PENDING_ENTRY, the tables whose indexes *)
(* exist, for each signal the columns that hold a value, and the table     *)
(* signals_new while it exists.                                            *)
(***************************************************************************)
EXTENDS Naturals

CONSTANTS
  Procs,       \* processes of this version
  Restarted,   \* those whose container starts them again when they end
  Files,       \* the databases the first start may find
  MaxSignals,  \* bound on signals
  MaxOlder,    \* bound on writes by processes of an earlier version
  MaxMishaps   \* bound on kills and disk errors

\* One table for each way a table changes, one column for each generation.
Tables == {"signals", "demo_accounts", "candle_log"}

Columns == {"entry", "temperature", "balance", "peak_equity", "outcome", "llm_calls"}

\* The columns in each CREATE TABLE: those of signals and candle_log were
\* extended there as well, peak_equity was not.
Declared ==
  [t \in Tables |->
     CASE t = "signals"       -> {"entry", "temperature"}
       [] t = "demo_accounts" -> {"balance"}
       [] t = "candle_log"    -> {"outcome", "llm_calls"}]

\* _ADDITIVE_MIGRATIONS.
Additive ==
  {<<"signals", "temperature">>, <<"demo_accounts", "peak_equity">>, <<"candle_log", "llm_calls">>}

\* _SIGNALS_COLUMNS, what a rebuild copies.
Copyable == {"entry", "temperature"}

Rows == UNION {[ids -> SUBSET Copyable] : ids \in SUBSET (1 .. MaxSignals)}

\* signals_new, while it exists.
Mirrors == {{}} \cup {{rows} : rows \in Rows}

\* The tables there are, with their columns.
Shapes == UNION {[tables -> SUBSET Columns] : tables \in SUBSET Tables}

Databases ==
  [columns : Shapes, accepts : BOOLEAN, indexed : SUBSET Tables, rows : Rows,
   mirror : Mirrors]

Has(db, t) == t \in DOMAIN db.columns

\* A file no transaction is writing: a value has a column to be in.
WellFormed(db) ==
  /\ db.mirror = {}
  /\ \A id \in DOMAIN db.rows : Has(db, "signals") /\ db.rows[id] \subseteq db.columns["signals"]

ASSUME MigrationAssumption ==
  /\ Restarted \subseteq Procs
  /\ Files \subseteq Databases /\ \A db \in Files : WellFormed(db)
  /\ MaxSignals \in Nat /\ MaxOlder \in Nat /\ MaxMishaps \in Nat

VARIABLES
  disk,     \* the file, as committed
  pc,       \* where each process is
  work,     \* [base, db]: the file a transaction began from, and as it sees it now
  lock,     \* who holds the advisory lock
  older,    \* writes of earlier versions still to come
  mishaps   \* mishaps still to come

vars == <<disk, pc, work, lock, older, mishaps>>

\* The phases within the transaction, in the order of the code.
Phases == {"mirror", "copy", "drop", "rename", "create", "index", "extend", "commit"}

Nothing(db) == [base |-> db, db |-> db]

Init ==
  /\ disk \in Files
  /\ pc = [p \in Procs |-> "lock"]
  /\ work = [p \in Procs |-> Nothing(disk)]
  /\ lock = {}
  /\ older = MaxOlder
  /\ mishaps = MaxMishaps

Written(p) == work[p].db # work[p].base

\* A transaction that has written keeps all other writers out.
Unlocked == \A p \in Procs : pc[p] \in Phases => ~Written(p)

-----------------------------------------------------------------------------
(* The statements, on the database as the transaction sees it              *)

\* _signals_needs_rebuild.
NeedsRebuild(db) == Has(db, "signals") /\ ~db.accepts

Mirrored(db) == [db EXCEPT !.mirror = {[id \in {} |-> {}]}]

\* Mutant of Copied: the columns added since the first version are left out.
CopiedFirst(db) ==
  [db EXCEPT !.mirror = {[id \in DOMAIN db.rows |-> db.rows[id] \cap {"entry"}]}]

\* The columns both tables have; signals keep their ids.
Copied(db) ==
  [db EXCEPT !.mirror =
     {[id \in DOMAIN db.rows |-> db.rows[id] \cap Copyable \cap db.columns["signals"]]}]

\* The table goes with its indexes.
Dropped(db) ==
  [db EXCEPT !.columns = [t \in DOMAIN db.columns \ {"signals"} |-> db.columns[t]],
             !.indexed = @ \ {"signals"}, !.rows = [id \in {} |-> {}]]

Renamed(db) ==
  [db EXCEPT !.columns = [t \in DOMAIN db.columns \cup {"signals"} |->
                            IF t = "signals" THEN Declared[t] ELSE db.columns[t]],
             !.accepts = TRUE, !.rows = CHOOSE rows \in db.mirror : TRUE, !.mirror = {}]

\* CREATE TABLE IF NOT EXISTS leaves a table that exists as it is.
Created(db) ==
  [db EXCEPT !.columns = [t \in Tables |-> IF Has(db, t) THEN db.columns[t] ELSE Declared[t]],
             !.accepts = @ \/ ~Has(db, "signals")]

Indexed(db) == [db EXCEPT !.indexed = Tables]

\* Mutant of Extended: a column is only added where CREATE TABLE has it too.
ExtendedDeclared(db) ==
  [db EXCEPT !.columns =
     [t \in DOMAIN db.columns |->
        db.columns[t] \cup {c \in Declared[t] : <<t, c>> \in Additive}]]

\* ALTER TABLE ADD COLUMN for every column that is missing.
Extended(db) ==
  [db EXCEPT !.columns =
     [t \in DOMAIN db.columns |->
        db.columns[t] \cup {c \in Columns : <<t, c>> \in Additive}]]

\* What the statements of this version need.
Current(db) ==
  /\ DOMAIN db.columns = Tables /\ db.accepts /\ db.indexed = Tables
  /\ \A t \in Tables :
        Declared[t] \cup {c \in Columns : <<t, c>> \in Additive} \subseteq db.columns[t]

-----------------------------------------------------------------------------
(* The processes                                                           *)

\* The process ends; its transaction is rolled back, its lock released.
Ends(p) ==
  /\ pc' = [pc EXCEPT ![p] = IF p \in Restarted THEN "down" ELSE "gone"]
  /\ work' = [work EXCEPT ![p] = Nothing(disk)]
  /\ lock' = lock \ {p}
  /\ UNCHANGED <<disk, older>>

Start(p) ==
  /\ pc[p] = "down"
  /\ pc' = [pc EXCEPT ![p] = "lock"]
  /\ UNCHANGED <<disk, work, lock, older, mishaps>>

\* flock(LOCK_EX).
Lock(p) ==
  /\ pc[p] = "lock" /\ lock = {}
  /\ lock' = {p}
  /\ pc' = [pc EXCEPT ![p] = "begin"]
  /\ UNCHANGED <<disk, work, older, mishaps>>

\* BEGIN, and the first read: is a rebuild needed?
Begin(p) ==
  /\ pc[p] = "begin"
  /\ work' = [work EXCEPT ![p] = Nothing(disk)]
  /\ pc' = [pc EXCEPT ![p] = IF NeedsRebuild(disk) THEN "mirror" ELSE "create"]
  /\ UNCHANGED <<disk, lock, older, mishaps>>

\* The first write fails when the file has changed since the first read; the
\* error is not caught, and ends the process.
Refused(p, db) == db # work[p].db /\ ~Written(p) /\ work[p].base # disk

\* Mutant of Statement: every statement is committed at once.
StatementCommitted(p, phase, db, next) ==
  /\ pc[p] = phase
  /\ disk' = db
  /\ work' = [work EXCEPT ![p].db = db]
  /\ pc' = [pc EXCEPT ![p] = next]
  /\ UNCHANGED <<lock, older, mishaps>>

Statement(p, phase, db, next) ==
  /\ pc[p] = phase
  /\ IF Refused(p, db) THEN Ends(p) /\ UNCHANGED mishaps
     ELSE /\ work' = [work EXCEPT ![p].db = db]
          /\ pc' = [pc EXCEPT ![p] = next]
          /\ UNCHANGED <<disk, lock, older, mishaps>>

\* _rebuild_signals_table; foreign keys are off, so the drop is not refused.
Mirror(p)       == Statement(p, "mirror", Mirrored(work[p].db), "copy")
Copy(p)         == Statement(p, "copy", Copied(work[p].db), "drop")
Drop(p)         == Statement(p, "drop", Dropped(work[p].db), "rename")
Rename(p)       == Statement(p, "rename", Renamed(work[p].db), "create")
CreateTables(p) == Statement(p, "create", Created(work[p].db), "index")
CreateIndex(p)  == Statement(p, "index", Indexed(work[p].db), "extend")
AddColumns(p)   == Statement(p, "extend", Extended(work[p].db), "commit")

Commit(p) ==
  /\ pc[p] = "commit"
  /\ disk' = IF Written(p) THEN work[p].db ELSE disk
  /\ work' = [work EXCEPT ![p] = Nothing(disk')]
  /\ lock' = {}
  /\ pc' = [pc EXCEPT ![p] = "ready"]
  /\ UNCHANGED <<older, mishaps>>

\* A kill, or an error of the disk, anywhere.
Fail(p) ==
  /\ pc[p] \notin {"down", "gone"} /\ mishaps > 0
  /\ mishaps' = mishaps - 1
  /\ Ends(p)

\* AUTOINCREMENT: an id above all others.
Unused == {id \in 1 .. MaxSignals : \A other \in DOMAIN disk.rows : other < id}

\* A new signal with values in the given columns.
Inserted(columns) ==
  LET new == CHOOSE id \in Unused : TRUE
  IN  [disk EXCEPT !.rows = [id \in DOMAIN disk.rows \cup {new} |->
                               IF id = new THEN columns ELSE disk.rows[id]]]

\* A process that serves creates a signal: create_signal in its transaction.
Insert(p) ==
  /\ pc[p] = "ready" /\ Unlocked
  /\ Current(disk)
  /\ Unused # {}
  /\ disk' = Inserted(Copyable)
  /\ UNCHANGED <<pc, work, lock, older, mishaps>>

\* So does a process of an earlier version, which knows the first columns.
OlderInsert ==
  /\ older > 0 /\ Unlocked
  /\ Has(disk, "signals") /\ "entry" \in disk.columns["signals"]
  /\ Unused # {}
  /\ disk' = Inserted({"entry"})
  /\ older' = older - 1
  /\ UNCHANGED <<pc, work, lock, mishaps>>

Step(p) ==
  \/ Start(p) \/ Lock(p) \/ Begin(p)
  \/ Mirror(p) \/ Copy(p) \/ Drop(p) \/ Rename(p)
  \/ CreateTables(p) \/ CreateIndex(p) \/ AddColumns(p) \/ Commit(p)

Next ==
  \/ \E p \in Procs : Step(p) \/ Fail(p) \/ Insert(p)
  \/ OlderInsert

Spec == Init /\ [][Next]_vars

\* A started process goes on, and its container starts it again when it ends.
FairSpec == Spec /\ \A p \in Procs : WF_vars(Step(p))
-----------------------------------------------------------------------------
\* initialize: "Idempotent and non-destructive".  No step of any process,
\* killed where it may be, loses a signal that was committed, or a value of it.
Keeps(new, old) ==
  \A id \in DOMAIN old : id \in DOMAIN new /\ old[id] \subseteq new[id]

RowsKept == [][Keeps(disk'.rows, disk.rows)]_vars

\* Whatever version wrote the file, and whoever else writes it meanwhile, a
\* process that is started again when it ends comes to serve, and on a schema
\* that has all its statements need.
EveryStartServes ==
  \A p \in Restarted : pc[p] # "ready" ~> pc[p] = "ready" /\ Current(disk)
=============================================================================

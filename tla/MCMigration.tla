------------------------------ MODULE MCMigration ------------------------------
(***************************************************************************)
(* Instances of Migration for TLC.                                         *)
(***************************************************************************)
EXTENDS Migration, TLC

CONSTANTS d1, d2, w1

NoSignal == [id \in {} |-> {}]

File(columns, accepts, indexed, rows) ==
  [columns |-> columns, accepts |-> accepts, indexed |-> indexed, rows |-> rows, mirror |-> {}]

\* No file yet.
Absent == File([t \in {} |-> {}], FALSE, {}, NoSignal)

\* The first version: signals alone.
First == File("signals" :> {"entry"}, FALSE, {"signals"}, <<{"entry"}>>)

\* Before PENDING_ENTRY, with a column added since.
Second ==
  File("signals" :> {"entry", "temperature"} @@ "demo_accounts" :> {"balance"}, FALSE,
       {"signals", "demo_accounts"}, <<{"entry", "temperature"}, {"entry"}>>)

\* Before the quota columns.
Third ==
  File("signals" :> {"entry"} @@ "demo_accounts" :> {"balance", "peak_equity"}
         @@ "candle_log" :> {"outcome"}, TRUE, Tables, <<{"entry"}>>)

SomeFiles == {Absent, First, Second, Third}
=============================================================================

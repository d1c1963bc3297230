------------------------------- MODULE Ledger -------------------------------
(***************************************************************************)
(* The SQLite ledger shared by every process of the system: the rows of    *)
(* signals, demo_positions, demo_trades, demo_accounts and candle_log that *)
(* carry the trading state, and the repository transactions that write     *)
(* them (database/database.py).  Each operator below is the body of one    *)
(* BEGIN IMMEDIATE transaction; who calls it, and after which reads, is    *)
(* the business of TradeCore.                                              *)
(*                                                                         *)
(* Prices, sizes and texts are abstracted away: a signal is its id, its    *)
(* symbol and its status, a position is its status, a trade is the id of   *)
(* its signal, and the account is its balance.                             *)
(***************************************************************************)
EXTENDS Integers, FiniteSets

CONSTANTS
    Symbols,         \* the trading symbols
    NoSymbol,        \* the symbol of an id no signal has used yet
    MaxSignals,      \* bound: how many signals are ever created
    InitialBalance   \* the balance ensure_account gives a new account

ASSUME SignalsAssumption == MaxSignals \in Nat
ASSUME SymbolAssumption == NoSymbol \notin Symbols
ASSUME BalanceAssumption == InitialBalance \in Int

VARIABLES
    status,    \* status[i]: the signal's status, "NONE" before it is created
               \* and "DELETED" once its row is gone (ids are never reused)
    symbol,    \* symbol[i]: the signal's symbol
    pos,       \* pos[i]: the demo position of signal i, "none" without a row
    trades,    \* the signals that have a demo_trades row
    balance,   \* demo_accounts.balance
    logged     \* the signals a candle_log row refers to (a foreign key)

signals == <<status, symbol>>
demo == <<pos, trades, balance>>
db == <<status, symbol, pos, trades, balance, logged>>

Ids == 1 .. MaxSignals

Active == {"PENDING_ENTRY", "OPEN"}
Closed == {"TP_HIT", "SL_HIT"}
Statuses == Active \cup Closed \cup {"CANCELLED"}

(* database/models.py: which status may follow which. *)
AllowedTransitions ==
    [s \in Statuses |->
        IF s = "PENDING_ENTRY" THEN {"OPEN", "CANCELLED"}
        ELSE IF s = "OPEN" THEN {"TP_HIT", "SL_HIT", "CANCELLED"}
        ELSE {}]

Exists(i) == status[i] \in Statuses

ActiveOf(s) == {i \in Ids : symbol[i] = s /\ status[i] \in Active}
AllActive == {i \in Ids : status[i] \in Active}
OpenPositions == {i \in Ids : pos[i] = "OPEN"}

(* ORDER BY id LIMIT 1: the first of S, if there is one. *)
First(S) == {i \in S : \A j \in S : i =< j}

LedgerInit ==
    /\ status = [i \in Ids |-> "NONE"]
    /\ symbol = [i \in Ids |-> NoSymbol]
    /\ pos = [i \in Ids |-> "none"]
    /\ trades = {}
    /\ balance = InitialBalance
    /\ logged = {}

-----------------------------------------------------------------------------
(* Signals *)

(* Mutant of CreateSignal: the active-signal check is not repeated inside  *)
(* the transaction.                                                        *)
CreateSignalUnchecked(i, s) ==
    /\ status[i] = "NONE"
    /\ \A j \in Ids : j < i => status[j] # "NONE"
    /\ status' = [status EXCEPT ![i] = "PENDING_ENTRY"]
    /\ symbol' = [symbol EXCEPT ![i] = s]
    /\ UNCHANGED <<demo, logged>>

(* create_signal: the check for an active signal of the symbol and the     *)
(* INSERT are one transaction; AUTOINCREMENT hands out the ids in order.   *)
CreateSignal(i, s) ==
    /\ ActiveOf(s) = {}
    /\ status[i] = "NONE"
    /\ \A j \in Ids : j < i => status[j] # "NONE"
    /\ status' = [status EXCEPT ![i] = "PENDING_ENTRY"]
    /\ symbol' = [symbol EXCEPT ![i] = s]
    /\ UNCHANGED <<demo, logged>>

(* transition_signal raises SignalNotFoundError without a row and          *)
(* InvalidTransitionError when the table does not allow the step.          *)
CanTransition(i, new) == Exists(i) /\ new \in AllowedTransitions[status[i]]

(* Mutant of Transition: a cancellation is stored under a status the rest  *)
(* of the code does not know.                                              *)
TransitionExpired(i, new) ==
    /\ CanTransition(i, new)
    /\ status' = [status EXCEPT ![i] = IF new = "CANCELLED" THEN "EXPIRED" ELSE new]
    /\ UNCHANGED <<symbol, demo, logged>>

Transition(i, new) ==
    /\ CanTransition(i, new)
    /\ status' = [status EXCEPT ![i] = new]
    /\ UNCHANGED <<symbol, demo, logged>>

(* delete_signals with cascade: OPEN signals are skipped, the others lose  *)
(* their trades, positions and rows; the balance is left alone.  A         *)
(* candle_log row that still refers to one of them makes the last DELETE   *)
(* fail and the transaction roll back.                                     *)
Deletable == {i \in Ids : Exists(i) /\ status[i] # "OPEN"}

(* Mutant of DeleteSignals: the demo rows are left behind. *)
DeleteSignalsOnly(S) ==
    /\ S \cap logged = {}
    /\ status' = [i \in Ids |-> IF i \in S THEN "DELETED" ELSE status[i]]
    /\ UNCHANGED <<symbol, demo, logged>>

DeleteSignals(S) ==
    /\ S \cap logged = {}
    /\ status' = [i \in Ids |-> IF i \in S THEN "DELETED" ELSE status[i]]
    /\ pos' = [i \in Ids |-> IF i \in S THEN "none" ELSE pos[i]]
    /\ trades' = trades \ S
    /\ UNCHANGED <<symbol, balance, logged>>

-----------------------------------------------------------------------------
(* The demo account *)

(* create_position: an existing row is returned unchanged; a signal row    *)
(* that is gone fails the foreign key.                                     *)
CreatePosition(i) ==
    /\ Exists(i)
    /\ pos' = [pos EXCEPT ![i] = IF @ = "none" THEN "OPEN" ELSE @]
    /\ UNCHANGED <<signals, trades, balance, logged>>

(* Mutants of CanRecord: no check for the position; none for the trade. *)
CanRecordWithoutPosition(i) == i \notin trades
CanRecordTwice(i) == pos[i] # "none"

(* record_trade: DemoNotFoundError without the position, DemoDuplicateError *)
(* with a trade; otherwise the position closes, the trade is inserted and  *)
(* its net PnL n is added to the balance read in the same transaction.     *)
CanRecord(i) == pos[i] # "none" /\ i \notin trades

RecordTrade(i, n) ==
    /\ CanRecord(i)
    /\ pos' = [pos EXCEPT ![i] = "CLOSED"]
    /\ trades' = trades \cup {i}
    /\ balance' = balance + n
    /\ UNCHANGED <<signals, logged>>

(* reset_account: every position and trade goes, the balance is set anew,  *)
(* the signals stay.                                                       *)
ResetAccount(b) ==
    /\ pos' = [i \in Ids |-> "none"]
    /\ trades' = {}
    /\ balance' = b
    /\ UNCHANGED <<signals, logged>>

-----------------------------------------------------------------------------
(* The candle log *)

(* upsert of a CREATED row.  There is one row per candle, so it replaces   *)
(* the reference to an earlier signal j of the same candle, if there was   *)
(* one (j = i: there was none).  The foreign key holds only for a live     *)
(* signal, and a failed write is swallowed.                                *)
LogSignal(i) ==
    /\ IF Exists(i)
       THEN \E j \in Ids : symbol[j] = symbol[i] /\ logged' = (logged \ {j}) \cup {i}
       ELSE UNCHANGED logged
    /\ UNCHANGED <<signals, demo>>

(* upsert of any other row of symbol s.  It carries no signal_id: when a   *)
(* signal j was created on the same candle (the marker write failed, or    *)
(* another process analysed that candle) its reference is overwritten.     *)
LogOther(s) ==
    /\ \/ UNCHANGED logged
       \/ \E j \in Ids : symbol[j] = s /\ logged' = logged \ {j}
    /\ UNCHANGED <<signals, demo>>

(* clear and delete_rows *)
DropLog(K) ==
    /\ logged' = logged \ K
    /\ UNCHANGED <<signals, demo>>
=============================================================================

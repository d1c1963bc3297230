------------------------------- MODULE Backtest -------------------------------
(***************************************************************************)
(* One backtest run: backtest/engine.py (BacktestEngine.run) replaying a   *)
(* decision provider (backtest/provider.py) over historical candles.       *)
(*                                                                         *)
(* Time counts one-minute candles from the open of the first eligible      *)
(* decision candle.  The candles are chosen as they are replayed, so every *)
(* history over Candles, with gaps, is a behaviour.                        *)
(***************************************************************************)
EXTENDS Integers, Sequences, FiniteSets, Money, Validator, Statistics

CONSTANTS
    None,           \* no active signal
    Candles,        \* records [high, low] of one-minute candles
    Analyses,       \* what the analyzer may answer for a decision candle
    Guards,         \* the guard thresholds of the environment
    HourLength,     \* minutes in a decision candle
    Hours,          \* eligible decision candles
    Remainder,      \* minutes of data after the last decision
    InitialBalance

(* validate_config of backtest/config.py: the account's rules, and a balance. *)
ValidRun == ValidConfig /\ InitialBalance \in Nat \ {0} /\ HourLength \in Nat \ {0}

(* The engine refuses data with fewer candles than the first decision needs. *)
EnoughData == Hours \in Nat \ {0} /\ Remainder \in Nat

ASSUME BacktestAssumption == ValidRun /\ EnoughData

(* SignalAnalysis: one of the three decisions, and what the guards read. *)
AnalysisRecords ==
    [decision : {"LONG", "SHORT", "WAIT"}, entry : SUBSET Int, stop : SUBSET Int, take : SUBSET Int,
     confidence : Int, atr : SUBSET Int, close : SUBSET Int, funding : SUBSET Int,
     regime : SUBSET STRING]

ASSUME AnswersAssumption == Analyses \subseteq AnalysisRecords /\ None \notin Analyses

VARIABLES
    now,      \* minutes replayed
    decided,  \* decision candles passed
    active,   \* the single active signal, or None
    balance,
    equity,   \* the realized balance after each close
    trades,   \* closed trades, oldest first
    counts,   \* the result's counters
    status    \* "running", "done", "failed"

engine == <<now, decided, active, balance, equity, trades, counts, status>>

Counters == {"analyzed", "waits", "longs", "shorts", "rejected", "blocked",
             "created", "entered", "completed", "entryAmbiguous", "exitAmbiguous"}

Bump(counter) == [counts EXCEPT ![counter] = @ + 1]

EngineInit ==
    /\ now = 0 /\ decided = 0 /\ active = None
    /\ balance = InitialBalance /\ equity = <<InitialBalance>> /\ trades = <<>>
    /\ counts = [counter \in Counters |-> 0]
    /\ status = "running"

-------------------------------------------------------------------------------
(* The touch rules of signal_engine/monitor.py, which both the live monitor *)
(* and the engine apply to one closed candle.                               *)

Touches(signal, level, candle, upward) ==
    IF (signal.direction = "LONG") = upward THEN candle.high >= level ELSE candle.low <= level

HitsTake(signal, candle) == Touches(signal, signal.take, candle, TRUE)
HitsStop(signal, candle) == Touches(signal, signal.stop, candle, FALSE)
HitsEntry(signal, candle) == Touches(signal, signal.entry, candle, TRUE)

EvaluateEntry(signal, candle) ==
    IF ~HitsEntry(signal, candle) THEN "MONITORING"
    ELSE IF HitsTake(signal, candle) \/ HitsStop(signal, candle) THEN "AMBIGUOUS"
    ELSE "ENTRY_HIT"

EvaluateCandle(signal, candle) ==
    CASE HitsTake(signal, candle) /\ HitsStop(signal, candle) -> "AMBIGUOUS"
      [] HitsTake(signal, candle) /\ ~HitsStop(signal, candle) -> "TP_HIT"
      [] ~HitsTake(signal, candle) /\ HitsStop(signal, candle) -> "SL_HIT"
      [] OTHER -> "MONITORING"

ExitLevel(signal, outcome) == IF outcome = "TP_HIT" THEN signal.take ELSE signal.stop

-------------------------------------------------------------------------------
DecisionDue == decided < Hours /\ now = (decided + 1) * HourLength

MinutesLeft == now < Hours * HourLength + Remainder

(* Mutant of OpenPosition: the slippage is left out of the sizing. *)
OpenPositionAtLevel ==
    /\ active' = [active EXCEPT
          !.entered = TRUE,
          !.fill = Filled(active.entry, active.direction, TRUE),
          !.quantity = Quantity(balance, active.entry, active.stop),
          !.atBalance = balance]
    /\ counts' = Bump("entered")

(* _open_position: the fill, with slippage, sized on the current balance. *)
OpenPosition ==
    LET fill == Filled(active.entry, active.direction, TRUE)
    IN  /\ active' = [active EXCEPT
              !.entered = TRUE,
              !.fill = fill,
              !.quantity = Quantity(balance, fill, active.stop),
              !.atBalance = balance]
        /\ counts' = Bump("entered")

(* The closed trade of a signal at an outcome: exit fill, gross, fees, net. *)
TradeOf(signal, outcome) ==
    LET exit == Filled(ExitLevel(signal, outcome), signal.direction, FALSE)
    IN  [direction |-> signal.direction,
         gross |-> Gross(signal.direction, signal.fill, exit, signal.quantity),
         fees  |-> Fee(signal.fill, signal.quantity) + Fee(exit, signal.quantity),
         net   |-> Net(signal.direction, signal.fill, exit, signal.quantity)]

(* _close_position, then the balance, the curve and the trade list. *)
ClosePosition(outcome) ==
    LET trade == TradeOf(active, outcome)
    IN  /\ balance' = balance + trade.net
        /\ equity' = Append(equity, balance + trade.net)
        /\ trades' = Append(trades, trade)
        /\ counts' = Bump("completed")
        /\ active' = None

(* The engine's closure monitor() on one minute candle. *)
WatchNothing == active = None /\ UNCHANGED <<active, balance, equity, trades, counts, status>>

WatchEntry(candle) ==
    /\ active # None /\ ~active.entered
    /\ UNCHANGED <<balance, equity, trades>>
    /\ LET outcome == EvaluateEntry(active, candle)
           fill == Filled(active.entry, active.direction, TRUE)
       IN  \/ outcome = "MONITORING" /\ UNCHANGED <<active, counts, status>>
           \/ outcome = "AMBIGUOUS" /\ counts' = Bump("entryAmbiguous") /\ UNCHANGED <<active, status>>
           \/ /\ outcome = "ENTRY_HIT" /\ Sizable(balance, fill, active.stop)
              /\ OpenPosition /\ UNCHANGED status
           \/ /\ outcome = "ENTRY_HIT" /\ ~Sizable(balance, fill, active.stop)
              /\ status' = "failed" /\ UNCHANGED <<active, counts>>

WatchExit(candle) ==
    /\ active # None /\ active.entered
    /\ UNCHANGED status
    /\ LET outcome == EvaluateCandle(active, candle)
       IN  \/ outcome = "MONITORING" /\ UNCHANGED <<active, balance, equity, trades, counts>>
           \/ /\ outcome = "AMBIGUOUS" /\ counts' = Bump("exitAmbiguous")
              /\ UNCHANGED <<active, balance, equity, trades>>
           \/ outcome \in {"TP_HIT", "SL_HIT"} /\ ClosePosition(outcome)

Minute(candle) ==
    /\ status = "running" /\ MinutesLeft /\ ~DecisionDue
    /\ now' = now + 1
    /\ WatchNothing \/ WatchEntry(candle) \/ WatchExit(candle)
    /\ UNCHANGED decided

(* The data may lack a minute. *)
Gap ==
    /\ status = "running" /\ MinutesLeft /\ ~DecisionDue
    /\ now' = now + 1
    /\ UNCHANGED <<decided, active, balance, equity, trades, counts, status>>

-------------------------------------------------------------------------------
(* coerce_decision rebuilds the analysis from its decision and prices: the   *)
(* ATR, the funding rate and the regime the guards look at are not carried.  *)
Coerced(analysis) == [analysis EXCEPT !.atr = {}, !.funding = {}, !.regime = {}]

(* What a provider with nothing to propose answers (WaitDecisionProvider, and *)
(* ReplayDecisionProvider for an hour its list lacks).                        *)
Waits ==
    [decision |-> "WAIT", entry |-> {}, stop |-> {}, take |-> {}, confidence |-> 0,
     atr |-> {}, close |-> {}, funding |-> {}, regime |-> {}]

Signal(analysis) ==
    [direction |-> analysis.decision, entry |-> Price(analysis, "entry"),
     stop |-> Price(analysis, "stop"), take |-> Price(analysis, "take"),
     entered |-> FALSE, fill |-> 0, quantity |-> 0, atBalance |-> 0]

(* A candle whose decision time finds a signal active, or falls in a         *)
(* blackout, is not analysed.                                                *)
Block ==
    /\ status = "running" /\ DecisionDue
    /\ decided' = decided + 1 /\ counts' = Bump("blocked")
    /\ UNCHANGED <<now, active, balance, equity, trades, status>>

BlockActive == active # None /\ Block

BlockBlackout == active = None /\ Block

(* What the engine does with the analysis the provider returns. *)
Judge(analysis) ==
    LET intent == IF analysis.decision = "LONG" THEN "longs" ELSE "shorts"
        analyzed == Bump("analyzed")
    IN  \/ /\ analysis.decision = "WAIT"
           /\ counts' = [analyzed EXCEPT !.waits = @ + 1] /\ UNCHANGED active
        \/ /\ analysis.decision # "WAIT" /\ ~Valid(analysis, Guards)
           /\ counts' = [analyzed EXCEPT ![intent] = @ + 1, !.rejected = @ + 1]
           /\ UNCHANGED active
        \/ /\ analysis.decision # "WAIT" /\ Valid(analysis, Guards)
           /\ counts' = [analyzed EXCEPT ![intent] = @ + 1, !.created = @ + 1]
           /\ active' = Signal(analysis)

Decide(analysis) ==
    /\ status = "running" /\ DecisionDue /\ active = None
    /\ decided' = decided + 1
    /\ Judge(analysis)
    /\ UNCHANGED <<now, balance, equity, trades, status>>

(* A provider that raises, or returns no analysis, ends the run. *)
ProviderFails ==
    /\ status = "running" /\ DecisionDue /\ active = None
    /\ status' = "failed"
    /\ UNCHANGED <<now, decided, active, balance, equity, trades, counts>>

(* The end of the data: a signal may be left pending or open. *)
Finish ==
    /\ status = "running" /\ decided = Hours /\ ~MinutesLeft
    /\ status' = "done"
    /\ UNCHANGED <<now, decided, active, balance, equity, trades, counts>>
===============================================================================

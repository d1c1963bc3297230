-------------------------------- MODULE Replay --------------------------------
(***************************************************************************)
(* A backtest and the live system on the same candles and decisions.       *)
(*                                                                         *)
(* The engine (Backtest) replays every candle.  The live side is the       *)
(* one-hour scheduler creating the signal (signal_engine/scheduler.py),    *)
(* the monitor polling the newest closed candle (signal_engine/monitor.py) *)
(* and the demo executor booking the position (demo/executor.py).  It may  *)
(* poll late, poll a candle from before the decision, validate with the    *)
(* fields the backtest drops, cancel a pending signal for a blackout,      *)
(* refuse a position the balance does not cover, or crash while booking.   *)
(* `parted` keeps the reasons for which the two histories may differ; the  *)
(* live side is followed up to the first of them.                          *)
(***************************************************************************)
EXTENDS Backtest

CONSTANTS
    Stored, \* the thresholds stored on the settings page, which a backtest ignores
    Shown   \* the limit a page or command passes to list_trades

ASSUME ReplayAssumption == ValidStrategy(Stored) /\ Shown \in Nat

(* _live_guardrails *)
LiveGuards == Overlaid(Guards, Stored)

VARIABLES
    candle,   \* the newest closed one-minute candle, or None
    polled,   \* the live monitor has evaluated it
    verdict,  \* the analysis of the latest decision candle, or None
    live,     \* the live side: signal, whether a candle closed since it was
              \* created, booking in progress, balance, booked trades, up
    parted    \* why the live history may differ from the replayed one

market == <<candle, polled, verdict>>
vars == <<engine, market, live, parted>>

LiveInit == [signal |-> None, fresh |-> FALSE, closing |-> "no", balance |-> InitialBalance,
             trades |-> <<>>, up |-> TRUE]

Init ==
    /\ EngineInit
    /\ candle = None /\ polled = TRUE /\ verdict = None
    /\ live = LiveInit /\ parted = {}

Together == parted = {}

-------------------------------------------------------------------------------
(* The engine acts on the candle and the live monitor never evaluates it. *)
Missed(signal) ==
    /\ ~polled
    /\ signal # None /\ live.fresh
    /\ \/ ~signal.entered /\ EvaluateEntry(signal, candle) = "ENTRY_HIT"
       \/ signal.entered /\ EvaluateCandle(signal, candle) \in {"TP_HIT", "SL_HIT"}

(* The engine enters on a candle while the live analysis is still running. *)
Overlooked(c) ==
    /\ verdict # None /\ active # None
    /\ EvaluateEntry(active, c) = "ENTRY_HIT"

(* A minute closes: the engine replays it and it becomes the newest candle   *)
(* the live monitor can fetch.  What the monitor did not evaluate is lost.   *)
MinuteCloses(c) ==
    /\ Minute(c)
    /\ candle' = c /\ polled' = FALSE
    /\ live' = [live EXCEPT !.fresh = live.signal # None]
    /\ parted' = parted \cup (IF Missed(live.signal) THEN {"missed"} ELSE {})
                        \cup (IF Overlooked(c) THEN {"late"} ELSE {})
    /\ UNCHANGED verdict

MinuteLost ==
    /\ Gap
    /\ UNCHANGED <<market, live, parted>>

(* The decision candle closes: the analyzer's answer reaches the engine       *)
(* without the fields coerce_decision drops, and the live scheduler whole.    *)
HourCloses(analysis) ==
    /\ Decide(Coerced(analysis))
    /\ verdict' = IF analysis.decision = "WAIT" THEN None ELSE analysis
    /\ UNCHANGED <<candle, polled, live, parted>>

(* The live scheduler is locked by a signal of its own, or gated by the same  *)
(* blackout.                                                                  *)
HourBlocked ==
    /\ BlockActive \/ BlockBlackout
    /\ parted' = parted \cup (IF verdict # None /\ active # None THEN {"late"} ELSE {})
    /\ UNCHANGED <<market, live>>

EngineStops ==
    /\ ProviderFails \/ Finish
    /\ UNCHANGED <<market, live, parted>>

-------------------------------------------------------------------------------
(* The live scheduler finishes the analysis and creates the signal; the next  *)
(* poll evaluates it on the newest candle, which closed before.               *)
LiveAccept ==
    /\ Together /\ live.up /\ verdict # None /\ live.signal = None
    /\ Valid(verdict, LiveGuards)
    /\ live' = [live EXCEPT !.signal = Signal(verdict), !.fresh = FALSE]
    /\ verdict' = None
    /\ polled' = (candle = None)
    /\ parted' = IF active # None THEN parted
                 ELSE IF Valid(Coerced(verdict), Guards) THEN {"late"} ELSE {"guards"}
    /\ UNCHANGED <<engine, candle>>

LiveReject ==
    /\ Together /\ live.up /\ verdict # None /\ live.signal = None
    /\ ~Valid(verdict, LiveGuards)
    /\ verdict' = None
    /\ parted' = IF active # None THEN {"vetoed"} ELSE parted
    /\ UNCHANGED <<engine, candle, polled, live>>

(* A gate the replay does not have drops the hour: the circuit breaker, the   *)
(* AI switched off, a daemon that is down.                                    *)
LiveGated ==
    /\ Together /\ verdict # None
    /\ verdict' = None
    /\ parted' = IF active # None THEN {"gated"} ELSE parted
    /\ UNCHANGED <<engine, candle, polled, live>>

(* The monitor promotes the signal and the executor opens the position on     *)
(* the account's balance, unless it does not cover the margin; sizes that do  *)
(* not make sense raise.                                                      *)
LiveEnter ==
    /\ Together /\ live.up /\ ~polled /\ live.signal # None /\ ~live.signal.entered
    /\ EvaluateEntry(live.signal, candle) = "ENTRY_HIT"
    /\ LET signal == live.signal
           fill == Filled(signal.entry, signal.direction, TRUE)
       IN  \/ /\ live.balance < Margin \/ ~Sizable(live.balance, fill, signal.stop)
              /\ parted' = {"refused"}
              /\ live' = [live EXCEPT !.signal = [signal EXCEPT !.entered = TRUE]]
           \/ /\ live.balance >= Margin /\ Sizable(live.balance, fill, signal.stop)
              /\ parted' = IF live.fresh THEN parted ELSE {"early"}
              /\ live' = [live EXCEPT !.signal = [signal EXCEPT
                    !.entered = TRUE,
                    !.fill = fill,
                    !.quantity = Quantity(live.balance, fill, signal.stop),
                    !.atBalance = live.balance]]
    /\ polled' = TRUE
    /\ UNCHANGED <<engine, candle, verdict>>

(* The executor books a closed signal.  A trade whose fee is not positive is   *)
(* refused by the ledger (to_decimal), which ends the daemon.                  *)
Book(outcome) ==
    LET trade == TradeOf(live.signal, outcome)
    IN  IF trade.fees > 0
          THEN [live EXCEPT !.signal = None, !.closing = "no", !.up = TRUE,
                            !.balance = @ + trade.net, !.trades = <<trade>> \o @]
          ELSE [live EXCEPT !.closing = outcome, !.up = FALSE]

LiveClose ==
    /\ Together /\ live.up /\ ~polled /\ live.signal # None /\ live.signal.entered
    /\ EvaluateCandle(live.signal, candle) \in {"TP_HIT", "SL_HIT"}
    /\ live' = Book(EvaluateCandle(live.signal, candle))
    /\ polled' = TRUE
    /\ UNCHANGED <<engine, candle, verdict, parted>>

(* The daemon dies after the monitor closed the signal and before the booking. *)
LiveDies ==
    /\ Together /\ live.up /\ ~polled /\ live.signal # None /\ live.signal.entered
    /\ EvaluateCandle(live.signal, candle) \in {"TP_HIT", "SL_HIT"}
    /\ live' = [live EXCEPT !.closing = EvaluateCandle(live.signal, candle), !.up = FALSE]
    /\ polled' = TRUE
    /\ UNCHANGED <<engine, candle, verdict, parted>>

(* A poll that changes nothing: no touch, or an ambiguous candle. *)
LiveWatch ==
    /\ Together /\ live.up /\ ~polled
    /\ live.signal # None =>
          \/ ~live.signal.entered /\ EvaluateEntry(live.signal, candle) # "ENTRY_HIT"
          \/ live.signal.entered /\ EvaluateCandle(live.signal, candle) \in {"MONITORING", "AMBIGUOUS"}
    /\ polled' = TRUE
    /\ UNCHANGED <<engine, candle, verdict, live, parted>>

(* A blackout begins: the scheduler's event watch cancels a pending signal, *)
(* which the replay, whose blackouts only block decisions, goes on with.    *)
LiveCancel ==
    /\ Together /\ live.up /\ live.signal # None /\ ~live.signal.entered
    /\ live' = [live EXCEPT !.signal = None]
    /\ parted' = {"cancelled"}
    /\ UNCHANGED <<engine, market>>

(* A restart reconciles: a closed signal whose position is open is booked. *)
Restart ==
    /\ ~live.up
    /\ live' = Book(live.closing)
    /\ UNCHANGED <<engine, market, parted>>

EngineStep ==
    \/ \E c \in Candles : MinuteCloses(c)
    \/ MinuteLost
    \/ \E analysis \in Analyses \cup {Waits} : HourCloses(analysis)
    \/ HourBlocked
    \/ EngineStops

LiveStep ==
    LiveAccept \/ LiveReject \/ LiveGated \/ LiveEnter \/ LiveClose \/ LiveDies
      \/ LiveWatch \/ LiveCancel \/ Restart

Done == status # "running" /\ UNCHANGED vars

Next == EngineStep \/ LiveStep \/ Done

Spec == Init /\ [][Next]_vars
-------------------------------------------------------------------------------
(* engine.py's promise to replay the live lifecycle: unless one of the named   *)
(* reasons parts them, the demo account and the backtest hold the same signal, *)
(* position, balance and trades whenever the monitor has seen the last candle. *)
LiveTracksReplay ==
    Together /\ live.up /\ polled /\ verdict = None /\ status # "failed" =>
        /\ live.signal = active
        /\ live.balance = balance
        /\ live.trades = Reverse(trades)

(* resolve_quantity's cap: a stop fill at its level never costs more than the  *)
(* risk share of the balance the position was sized on, nor does the position  *)
(* exceed the margin times the leverage.                                       *)
LossCapped ==
    \A signal \in {active, live.signal} \ {None} :
        signal.entered =>
            /\ 100 * Distance(signal.fill, signal.stop) * signal.quantity
                  <= RiskPercent * signal.atBalance
            /\ signal.quantity * signal.fill <= Margin * Leverage

(* Largest fall between a point and a later one. *)
WorstFall(path) ==
    LET later == {pair \in (DOMAIN path) \X (DOMAIN path) : pair[1] <= pair[2]}
        downward == {path[pair[1]] - path[pair[2]] : pair \in later}
    IN  CHOOSE worst \in downward : \A fall \in downward : fall <= worst

(* The one-pass summaries of metrics.py agree with the ledger.  Those of the   *)
(* demo statistics read the newest trades list_trades hands over, newest first *)
(* (and raise when a balance on their path is negative): their drawdown is the *)
(* worst fall of the balance since the first trade shown, their final balance  *)
(* is off by what the trades left out brought, their wins by those trades'     *)
(* wins; while the whole ledger is shown they agree with the summary.          *)
StatisticsAgree ==
    status = "done" =>
        LET report == Summary(trades, equity)
            booked == ListTrades(trades, Shown)
            demo == DemoSummary(InitialBalance, booked)
            earlier == Len(trades) - Len(booked)
            omitted == SubSeq(trades, 1, earlier)
            since == SubSeq(equity, earlier + 1, Len(equity))
        IN  /\ report.net = balance - InitialBalance
            /\ report.grossProfit - report.grossLoss - report.fees = report.net
            /\ report.wins + report.losses = counts.completed
            /\ report.longs + report.shorts = counts.completed
            /\ report.winStreak <= report.wins /\ report.lossStreak <= report.losses
            /\ report.drawdown = WorstFall(equity)
            /\ Measurable(BalancePath(InitialBalance, booked)) =>
                  /\ demo.drawdown = WorstFall(since) /\ demo.drawdown <= report.drawdown
                  /\ demo.final = InitialBalance + balance - since[1]
                  /\ demo.wins + Cardinality(Result(omitted, TRUE)) = report.wins
                  /\ Len(trades) <= Shown =>
                        /\ demo.drawdown = report.drawdown
                        /\ demo.final = balance /\ demo.wins = report.wins
===============================================================================

------------------------------ MODULE Statistics ------------------------------
(***************************************************************************)
(* What the program reports of a ledger of closed trades: the summary of a *)
(* backtest (backtest/metrics.py, BacktestStatistics.compute) and of the   *)
(* demo account (demo/statistics.py, demo_statistics).                     *)
(*                                                                         *)
(* A trade is a record with the fields direction, gross, fees and net.     *)
(***************************************************************************)
EXTENDS Integers, Sequences, FiniteSets, SequencesExt

Won(trade) == trade.net > 0

Each(trades, field) == [i \in DOMAIN trades |-> trades[i][field]]

(* The values a loop over the items goes through, from before the first item *)
(* (0) to after the last.                                                    *)
Running(base, Step(_, _), items) ==
    LET value[n \in 0..Len(items)] ==
            IF n = 0 THEN base ELSE Step(value[n - 1], items[n])
    IN  value

Sums(start, amounts) == Running(start, LAMBDA sum, amount : sum + amount, amounts)

Total(amounts) == Sums(0, amounts)[Len(amounts)]

(* list_trades: the newest trades up to the limit, newest first.  Every caller  *)
(* has one: 100 (demo/executor.py, web/server.py), 50 (the dashboard), 20 (the  *)
(* command line).                                                               *)
Earlier(trades, limit) == IF Len(trades) > limit THEN Len(trades) - limit ELSE 0

Recent(trades, limit) == SubSeq(trades, Earlier(trades, limit) + 1, Len(trades))

ListTrades(trades, limit) == Reverse(Recent(trades, limit))

(* The balance path: the start, then the balance after each trade. *)
BalancePath(start, trades) ==
    LET balance == Sums(start, Each(trades, "net"))
    IN  [i \in 1..(Len(trades) + 1) |-> balance[i - 1]]

(* Mutant of WorstDrawdown: the peak is never raised. *)
WorstDrawdownFixedPeak(path) ==
    Running(0,
            LAMBDA worst, point :
                LET fall == path[1] - point
                IN  IF fall > worst THEN fall ELSE worst,
            path)[Len(path)]

(* The running peak of a path, and the largest fall from it. *)
Drawdowns(path) ==
    Running([peak |-> path[1], worst |-> 0],
            LAMBDA seen, point :
                LET peak == IF point > seen.peak THEN point ELSE seen.peak
                    fall == peak - point
                IN  [peak |-> peak, worst |-> IF fall > seen.worst THEN fall ELSE seen.worst],
            path)

WorstDrawdown(path) == Drawdowns(path)[Len(path)].worst

(* demo_statistics measures each fall with current_drawdown, which raises on *)
(* a negative peak or balance.                                               *)
Measurable(path) == \A i \in DOMAIN path : path[i] >= 0

(* The trades that won, or that did not. *)
Result(trades, winning) == {i \in DOMAIN trades : Won(trades[i]) = winning}

(* The current and the longest run of trades that won, or that did not. *)
Streaks(trades, winning) ==
    Running([run |-> 0, best |-> 0],
            LAMBDA seen, trade :
                LET run == IF Won(trade) = winning THEN seen.run + 1 ELSE 0
                IN  [run |-> run, best |-> IF run > seen.best THEN run ELSE seen.best],
            trades)

LongestRun(trades, winning) == Streaks(trades, winning)[Len(trades)].best

(* What each trade adds to the gross profit, or to the gross loss. *)
GrossOf(trades, winning) ==
    [i \in DOMAIN trades |-> IF Won(trades[i]) = winning THEN trades[i].gross ELSE 0]

Sided(trades, direction) == {i \in DOMAIN trades : trades[i].direction = direction}

(* BacktestStatistics.compute over the completed trades and the equity curve. *)
Summary(trades, equity) ==
    [wins        |-> Cardinality(Result(trades, TRUE)),
     losses      |-> Cardinality(Result(trades, FALSE)),
     longs       |-> Cardinality(Sided(trades, "LONG")),
     shorts      |-> Cardinality(Sided(trades, "SHORT")),
     grossProfit |-> Total(GrossOf(trades, TRUE)),
     grossLoss   |-> -Total(GrossOf(trades, FALSE)),
     net         |-> Total(Each(trades, "net")),
     fees        |-> Total(Each(trades, "fees")),
     winStreak   |-> LongestRun(trades, TRUE),
     lossStreak  |-> LongestRun(trades, FALSE),
     drawdown    |-> WorstDrawdown(equity)]

(* demo_statistics over the rows list_trades returns, newest first.  The path  *)
(* starts at the initial balance, also when older trades are left out.         *)
DemoSummary(start, newestFirst) ==
    LET path == BalancePath(start, newestFirst)
    IN  [wins     |-> Cardinality(Result(newestFirst, TRUE)),
         losses   |-> Cardinality(Result(newestFirst, FALSE)),
         net      |-> Total(Each(newestFirst, "net")),
         final    |-> path[Len(path)],
         drawdown |-> WorstDrawdown(path)]
===============================================================================

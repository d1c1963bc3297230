-------------------------------- MODULE Money --------------------------------
(***************************************************************************)
(* The demo account's arithmetic: demo/account.py, which the live executor *)
(* (demo/executor.py) and the backtest (backtest/engine.py) both call.     *)
(*                                                                         *)
(* The program computes with 28-digit decimals; here amounts and           *)
(* quantities are integers and a quotient is rounded down, which keeps     *)
(* every inequality that bounds a loss by a share of the balance.          *)
(***************************************************************************)
EXTENDS Integers

CONSTANTS
    Margin,      \* margin_per_trade
    Leverage,
    RiskPercent, \* share of the balance a stop may cost, in percent
    FeeRate,     \* in 1/10000 of the notional
    Slippage     \* in 1/10000 of the price

(* validate_config: a fee rate below one, which may be zero. *)
ValidConfig ==
    /\ Margin \in Nat \ {0} /\ Leverage \in Nat \ {0} /\ RiskPercent \in Nat \ {0}
    /\ FeeRate \in 0 .. 9999 /\ Slippage \in Nat

ASSUME MoneyAssumption == ValidConfig

Distance(a, b) == IF a < b THEN b - a ELSE a - b

(* The fill of a level: a LONG pays up on entry and gives up on exit, a SHORT *)
(* the other way round.                                                       *)
Filled(level, direction, entering) ==
    LET adverse == IF (direction = "LONG") = entering
                     THEN 10000 + Slippage
                     ELSE 10000 - Slippage
    IN  (level * adverse) \div 10000

(* resolve_quantity: the smaller of the fixed-margin quantity and the one    *)
(* whose stop costs RiskPercent of the balance.                              *)
RiskQuantity(balance, entry, stop) ==
    (balance * RiskPercent) \div (100 * Distance(entry, stop))

MarginQuantity(entry) == (Margin * Leverage) \div entry

(* Its inputs must be positive, else it raises. *)
Sizable(balance, entry, stop) ==
    balance > 0 /\ entry > 0 /\ stop > 0 /\ entry # stop

(* Mutant of Quantity: the larger of the two. *)
QuantityLarger(balance, entry, stop) ==
    LET byRisk == RiskQuantity(balance, entry, stop)
        byMargin == MarginQuantity(entry)
    IN  IF byRisk < byMargin THEN byMargin ELSE byRisk

Quantity(balance, entry, stop) ==
    LET byRisk == RiskQuantity(balance, entry, stop)
        byMargin == MarginQuantity(entry)
    IN  IF byRisk < byMargin THEN byRisk ELSE byMargin

Gross(direction, entry, exit, quantity) ==
    (IF direction = "LONG" THEN exit - entry ELSE entry - exit) * quantity

Fee(price, quantity) == (price * quantity * FeeRate) \div 10000

(* net_pnl: gross minus the entry and the exit fee. *)
Net(direction, entry, exit, quantity) ==
    Gross(direction, entry, exit, quantity) - Fee(entry, quantity) - Fee(exit, quantity)
==============================================================================

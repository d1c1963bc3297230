------------------------------ MODULE Validator ------------------------------
(***************************************************************************)
(* The guards an AI decision passes before it may become a signal:         *)
(* signal_engine/validator.py (validate_analysis and what it calls), and   *)
(* the price-ordering rule of the signal ledger it shares.                 *)
(*                                                                         *)
(* A value the program may lack (None) is a set of at most one element, so *)
(* that "skipped when missing" is a quantifier over the set.  Prices are   *)
(* integers; confidence is in tenths of a point; guard thresholds are      *)
(* integers: min_risk_reward in tenths, fee_rate in 1/10000.               *)
(***************************************************************************)
EXTENDS Integers

(* What the settings page stores of the strategy: some of the thresholds, each *)
(* in its range; the file lacks what was never saved.                          *)
ValidStrategy(stored) ==
    \A field \in DOMAIN stored :
        \/ field = "minConfidence" /\ stored[field] \in 0 .. 100
        \/ field = "minRiskReward" /\ stored[field] \in 0 .. 100
        \/ field = "feeRate" /\ stored[field] \in 0 .. 100
        \/ field = "maxFunding" /\ stored[field] \in Nat
        \/ field = "htfBias" /\ stored[field] \in BOOLEAN

(* GuardrailConfig.from_stored: a stored threshold overlays the environment's. *)
Overlaid(guards, stored) ==
    [field \in DOMAIN guards |->
        IF field \in DOMAIN stored THEN stored[field] ELSE guards[field]]

Absolute(x) == IF x < 0 THEN -x ELSE x

(* The analysis proposes all three prices, each positive. *)
HasPrices(a) ==
    \A field \in {"entry", "stop", "take"} : \E price \in a[field] : price > 0

Price(a, field) == CHOOSE price \in a[field] : TRUE

(* LONG: stop < entry < take; SHORT: take < entry < stop. *)
PricesOrdered(decision, entry, stop, take) ==
    \/ decision = "LONG" /\ stop < entry /\ entry < take
    \/ decision = "SHORT" /\ take < entry /\ entry < stop

(* Confidence lies in [0, 100] and reaches the minimum once rounded half up. *)
Confident(tenths, guards) ==
    /\ tenths \in 0 .. 1000
    /\ (tenths + 5) \div 10 >= guards.minConfidence

(* Not leaning into a side the funding rate shows to be overcrowded. *)
NotCrowded(decision, funding, guards) ==
    guards.maxFunding > 0 =>
        \A rate \in funding :
            /\ decision = "LONG" => rate <= guards.maxFunding
            /\ decision = "SHORT" => rate >= -guards.maxFunding

(* Not against a clear 4H regime. *)
WithRegime(decision, regime, guards) ==
    guards.htfBias =>
        /\ decision = "LONG" => "DOWN" \notin regime
        /\ decision = "SHORT" => "UP" \notin regime

(* Reward pays for the risk and for the round trip of fees; with an ATR the *)
(* distances stay within its multiples and the entry near the last close.   *)
LevelsSound(entry, stop, take, atr, close, guards) ==
    LET risk == Absolute(entry - stop)
        reward == Absolute(take - entry)
    IN  /\ guards.minRiskReward > 0 => 10 * reward >= guards.minRiskReward * risk
        /\ guards.feeRate > 0 => 10000 * reward >= entry * guards.feeRate * 2
        /\ \A range \in {r \in atr : r > 0} :
              /\ range <= 2 * risk /\ risk <= 5 * range
              /\ range <= 2 * reward /\ reward <= 8 * range
              /\ \A last \in close : 2 * Absolute(entry - last) <= 3 * range

(* The analysis is a tradable signal. *)
Valid(a, guards) ==
    /\ a.decision \in {"LONG", "SHORT"}
    /\ HasPrices(a)
    /\ LET entry == Price(a, "entry")
           stop == Price(a, "stop")
           take == Price(a, "take")
       IN  /\ PricesOrdered(a.decision, entry, stop, take)
           /\ Confident(a.confidence, guards)
           /\ NotCrowded(a.decision, a.funding, guards)
           /\ WithRegime(a.decision, a.regime, guards)
           /\ LevelsSound(entry, stop, take, a.atr, a.close, guards)
==============================================================================

---------------------------- MODULE MCTradeCore -----------------------------
(***************************************************************************)
(* Instances of TradeCore for TLC.                                         *)
(***************************************************************************)
EXTENDS TradeCore, TLC

CONSTANTS d1, d2, w1, btc

(* A daemon and a one-shot on the same symbol. *)
SameSymbol == (d1 :> btc) @@ (d2 :> btc)

OneDaemon == d1 :> btc

WinOrLoss == {-1, 1}
LossOnly == {-1}
=============================================================================

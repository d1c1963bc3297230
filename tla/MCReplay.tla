------------------------------- MODULE MCReplay -------------------------------
(***************************************************************************)
(* Instances of Replay for TLC.                                            *)
(***************************************************************************)
EXTENDS Replay

Touch(high, low) == [high |-> high, low |-> low]

(* Between them they enter, take, stop or do neither, for both directions, and *)
(* touch both exits.                                                          *)
SomeCandles ==
    {Touch(150, 150), Touch(350, 250), Touch(450, 250), Touch(150, 50), Touch(450, 50)}

Analysis(decision, entry, stop, take, confidence, funding) ==
    [decision |-> decision, entry |-> {entry}, stop |-> {stop}, take |-> {take},
     confidence |-> confidence, funding |-> funding, regime |-> {"UP"},
     atr |-> {100}, close |-> {200}]

Long == Analysis("LONG", 200, 100, 400, 695, {3})
Crowded == Analysis("LONG", 200, 100, 400, 700, {6})
Short == Analysis("SHORT", 300, 400, 100, 900, {3})
Unsure == Analysis("LONG", 200, 100, 400, 600, {3})
SomeAnalyses == {Long, Crowded, Short, Unsure}

(* Less confidence than the environment asks for. *)
SomeStored == [minConfidence |-> 60]

SomeGuards == [minConfidence |-> 70, minRiskReward |-> 15, feeRate |-> 4,
               maxFunding |-> 5, htfBias |-> FALSE]
===============================================================================

----------------------------- MODULE MCBenchmark -----------------------------
(***************************************************************************)
(* Instances of Benchmark for TLC.                                         *)
(***************************************************************************)
EXTENDS Benchmark

Proposal(decision, entry, stop, take) ==
    [decision |-> decision, entry |-> {entry}, stop |-> {stop}, take |-> {take},
     confidence |-> 900]

Sound == Proposal("LONG", 200, 100, 400)

(* Its stop is too near for an ATR of 100, which a replay does not know. *)
Tight == Proposal("LONG", 200, 190, 400)

Disordered == Proposal("LONG", 200, 300, 400)

Waiting == [Sound EXCEPT !.decision = "WAIT", !.entry = {}, !.stop = {}, !.take = {}]

WaitWithPrices == [Sound EXCEPT !.decision = "WAIT"]

SomeProposals == {Sound, Tight, Disordered, Waiting, WaitWithPrices}

SomePipelines == {<<"analyzer">>, <<"analyst", "bull", "bear", "trader", "risk">>}

OneBinding == {"raw"}

SomeLasts == <<1, 0, 0>>

Release(name, allDay, at) ==
    [name |-> name, allDay |-> allDay, at |-> at, before |-> 0, after |-> 0]

(* Of these only the first blacks out an hour: the last is past the data. *)
SomeReleases ==
    {Release("cpi", FALSE, 2), Release("pmi", FALSE, 1), Release("fomc", TRUE, 3),
     [Release("nfp", FALSE, 5) EXCEPT !.before = 2]}

SomeMarket == [close |-> {200}, atr |-> {100}, funding |-> {3}, regime |-> {"UP"}]

SomeWirings == {{}, {"events"}, {"positioning", "htf"}}

SomeGuards == [minConfidence |-> 70, minRiskReward |-> 15, feeRate |-> 4,
               maxFunding |-> 5, htfBias |-> TRUE]
==============================================================================

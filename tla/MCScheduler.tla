---------------------------- MODULE MCScheduler -----------------------------
(***************************************************************************)
(* Instances of Scheduler for TLC.                                         *)
(***************************************************************************)
EXTENDS Scheduler, TLC

CONSTANTS d1, d2, fomc

(* The event's blackout lies across the close of a candle. *)
OneWindow == fomc :> 1 .. 2
NoWindow == fomc :> {}

Interchangeable == Permutations(Daemons)
=============================================================================

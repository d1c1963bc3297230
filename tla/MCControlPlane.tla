--------------------------- MODULE MCControlPlane ---------------------------
(***************************************************************************)
(* Instances of ControlPlane for TLC.                                      *)
(***************************************************************************)
EXTENDS ControlPlane, TLC

CONSTANTS d1, r1, r2, btc, eth

OneEnv == d1 :> btc
=============================================================================

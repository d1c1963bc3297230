------------------------------ MODULE MCFleet ------------------------------
(* Instance of Fleet for TLC: its symbols and processes are model values.   *)
EXTENDS Fleet
=============================================================================

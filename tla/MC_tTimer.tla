----------------------------- MODULE MC_tTimer -----------------------------
(* A period of 6 with naps of at most 3 and none within 1 of the alert,    *)
(* and a thread that may be late by more than two periods.                 *)
EXTENDS tTimer
=============================================================================

--------------------------- MODULE MCBatteryTimer ---------------------------
(* BatteryTimer for TLC. *)
EXTENDS BatteryTimer
=============================================================================

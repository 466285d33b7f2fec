--------------------------- MODULE MCVentilation ----------------------------
(* TLC instance of the ventilation: an operator who starts the fan by hand; *)
(* that it stands still is reached without one.                            *)
EXTENDS Ventilation

MCManualDuty == {60}
=============================================================================

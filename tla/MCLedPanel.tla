----------------------------- MODULE MCLedPanel -----------------------------
(* The LED panel on a small instance: one zone with a reading, two bits of  *)
(* the fire bitmap.                                                         *)
EXTENDS LedPanel

Bitmaps == {{}, {1}, {0, 1}}
=============================================================================

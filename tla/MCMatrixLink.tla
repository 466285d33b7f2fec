---------------------------- MODULE MCMatrixLink ----------------------------
(* The matrix link on a small instance: one zone with a reading, one        *)
(* publication of each block and two of the bitmap, which their numbers     *)
(* tell apart.                                                              *)
EXTENDS MatrixLink

Posts == [s \in Slot |-> IF s = SLOT_FIRE THEN 2 ELSE 1]

Bitmaps == {{0}}
=============================================================================

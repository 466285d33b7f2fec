------------------------------- MODULE Faults -------------------------------
(***************************************************************************)
(* A budget of faults that components which run together share.            *)
(***************************************************************************)
EXTENDS Naturals

CONSTANT MaxFaults   \* bound: faults of all kinds

ASSUME FaultAssumption == MaxFaults \in Nat

VARIABLE faults

Fault == faults < MaxFaults /\ faults' = faults + 1
NoFault == UNCHANGED faults
=============================================================================

------------------------------ MODULE FanOwner ------------------------------
(***************************************************************************)
(* What fan_control.h promises: at any time one party owns the fan of the  *)
(* node, fire before AUTO before the operator, and only its owner moves    *)
(* it.  duty is what RPi C believes the fan to be set to.                  *)
(***************************************************************************)
CONSTANTS
  Duty,       \* every duty an operator may ask for
  LevelDuty,  \* the duties of the congestion levels
  Stopped     \* the duty of a fan that stands still

VARIABLES owner, duty

Init == owner = "manual" /\ duty = Stopped

FireTakes == owner # "fire" /\ owner' = "fire" /\ duty' = Stopped

(* Nobody pressed anything: without AUTO the fan does not start by itself. *)
FireLeavesToOperator == owner = "fire" /\ owner' = "manual" /\ UNCHANGED duty
FireLeavesToAuto == owner = "fire" /\ owner' = "auto" /\ duty' \in LevelDuty \cup {duty}

AutoOn == owner = "manual" /\ owner' = "auto" /\ duty' \in LevelDuty \cup {duty}

(* The operator takes over a running fan: ventilation is not interrupted.  *)
AutoOff == owner = "auto" /\ owner' = "manual" /\ UNCHANGED duty

Follow == owner = "auto" /\ duty' \in LevelDuty /\ UNCHANGED owner
Operate == owner = "manual" /\ duty' \in Duty /\ UNCHANGED owner
Restart == owner' = "manual" /\ duty' = Stopped

Next ==
  \/ FireTakes \/ FireLeavesToOperator \/ FireLeavesToAuto
  \/ AutoOn \/ AutoOff \/ Follow \/ Operate \/ Restart

Spec == Init /\ [][Next]_<<owner, duty>>
=============================================================================

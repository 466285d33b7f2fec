----------------------------- MODULE FanControl -----------------------------
(***************************************************************************)
(* fan_control.c of RPi C: the one place that decides the duty of the fan. *)
(* Every function but the initialisation runs on the MQTT thread, and each *)
(* holds the lock from its first test to its last assignment, so a call is *)
(* one action.  What may go wrong is the write to the PWM driver, which    *)
(* can be refused, and the link, across which the state is published.      *)
(***************************************************************************)
EXTENDS Integers, Faults

CONSTANT ManualDuty   \* duties that the operators ask for

(* GUARDX_FAN_DUTY_NORMAL, _WARN and _CRIT.                                *)
Level == 0 .. 2
duty_for_level(lv) == CASE lv = 2 -> 90 [] lv = 1 -> 75 [] OTHER -> 40
Duty == 0 .. 100

ASSUME ManualAssumption == ManualDuty \subseteq Duty

VARIABLES
  auto_on, fire_active, level,   \* fan_control.c
  applied_duty,  \* the duty fan_control.c recorded
  fan,           \* the duty the driver took last
  refused,       \* the driver has refused a write
  linked,        \* RPi C has its connection to the broker
  shown          \* the retained fan state the VMSs see

board == <<auto_on, fire_active, level, applied_duty, fan, refused>>
fanvars == <<board, linked, shown>>

State == [auto : BOOLEAN, level : Level, duty : Duty, fire : BOOLEAN]

FanTypeOK ==
  /\ auto_on \in BOOLEAN /\ fire_active \in BOOLEAN /\ level \in Level
  /\ applied_duty \in Duty /\ fan \in Duty
  /\ refused \in BOOLEAN
  /\ linked \in BOOLEAN
  /\ shown \in State

FanInit ==
  /\ auto_on = FALSE /\ fire_active = FALSE /\ level = 0
  /\ applied_duty = 0 /\ fan = 0 /\ refused = FALSE
  /\ linked = FALSE
  /\ shown = [auto |-> FALSE, level |-> 0, duty |-> 0, fire |-> FALSE]

-----------------------------------------------------------------------------
Refused == Fault /\ refused' = TRUE /\ UNCHANGED fan
rpic_fan_set(duty) == fan' = duty /\ NoFault /\ UNCHANGED refused
nothing_set == NoFault /\ UNCHANGED <<applied_duty, fan, refused>>

(* publish_state with the values the handler copied under the lock.        *)
publish_state ==
  shown' = IF linked
           THEN [auto |-> auto_on', level |-> level', duty |-> applied_duty', fire |-> fire_active']
           ELSE shown

Wanted(a, fire, lv) == IF fire THEN 0 ELSE duty_for_level(lv)

(* Slip: the duty is recorded whether or not the driver took it.           *)
apply_locked_blind(a, fire, lv) ==
  IF ~(fire \/ a) \/ Wanted(a, fire, lv) = applied_duty
  THEN nothing_set
  ELSE /\ rpic_fan_set(Wanted(a, fire, lv)) \/ Refused
       /\ applied_duty' = Wanted(a, fire, lv)

(* Slip: the fire is forgotten.                                            *)
apply_locked_hot(a, fire, lv) ==
  IF ~a \/ duty_for_level(lv) = applied_duty
  THEN nothing_set
  ELSE rpic_fan_set(duty_for_level(lv)) /\ applied_duty' = duty_for_level(lv)

(* With neither fire nor AUTO the operator's duty is left alone; a write   *)
(* the driver refuses leaves the record as it was.                         *)
apply_locked(a, fire, lv) ==
  IF ~(fire \/ a) \/ Wanted(a, fire, lv) = applied_duty
  THEN nothing_set
  ELSE \/ rpic_fan_set(Wanted(a, fire, lv)) /\ applied_duty' = Wanted(a, fire, lv)
       \/ Refused /\ UNCHANGED applied_duty

(* The same level again, a retained one included, does nothing at all.     *)
set_level(lv) ==
  IF lv = level
  THEN UNCHANGED <<fanvars, faults>>
  ELSE /\ level' = lv
       /\ apply_locked(auto_on, fire_active, lv)
       /\ UNCHANGED <<auto_on, fire_active, linked>>
       /\ publish_state

(* Fire stops the fan whoever drives it, and 0 is recorded even when the   *)
(* driver refuses.                                                         *)
set_fire(active) ==
  IF active = fire_active
  THEN UNCHANGED <<fanvars, faults>>
  ELSE /\ fire_active' = active
       /\ IF active
          THEN (rpic_fan_set(0) \/ Refused) /\ applied_duty' = 0
          ELSE apply_locked(auto_on, FALSE, level)
       /\ UNCHANGED <<auto_on, level, linked>>
       /\ publish_state

(* Slip: switching AUTO off is not told.                                   *)
set_auto_quietly(on) ==
  IF on = auto_on
  THEN UNCHANGED <<fanvars, faults>>
  ELSE /\ auto_on' = on
       /\ IF on THEN apply_locked(TRUE, fire_active, level) ELSE nothing_set
       /\ UNCHANGED <<fire_active, level, linked>>
       /\ IF on THEN publish_state ELSE UNCHANGED shown

set_auto(on) ==
  IF on = auto_on
  THEN UNCHANGED <<fanvars, faults>>
  ELSE /\ auto_on' = on
       /\ IF on THEN apply_locked(TRUE, fire_active, level) ELSE nothing_set
       /\ UNCHANGED <<fire_active, level, linked>>
       /\ publish_state

(* Slip: AUTO does not lock the operator's commands out.                   *)
manual_anytime(duty) ==
  /\ ~fire_active
  /\ UNCHANGED <<auto_on, fire_active, level, linked>>
  /\ \/ rpic_fan_set(duty) /\ applied_duty' = duty /\ publish_state
     \/ Refused /\ UNCHANGED <<applied_duty, shown>>

(* In a fire and under AUTO the command is refused: no step.               *)
manual(duty) ==
  /\ ~fire_active /\ ~auto_on
  /\ UNCHANGED <<auto_on, fire_active, level, linked>>
  /\ \/ rpic_fan_set(duty) /\ applied_duty' = duty /\ publish_state
     \/ Refused /\ UNCHANGED <<applied_duty, shown>>

-----------------------------------------------------------------------------
(* What the MQTT thread calls them for, and the link.                      *)
HandleFire(active) == linked /\ set_fire(active)
HandleAuto(on) == linked /\ set_auto(on)
HandleManual(duty) == linked /\ manual(duty)

Disconnect == linked /\ linked' = FALSE /\ NoFault /\ UNCHANGED <<board, shown>>

(* on_connect: fan_control_republish.                                      *)
Connect ==
  /\ ~linked /\ linked' = TRUE
  /\ shown' = [auto |-> auto_on, level |-> level, duty |-> applied_duty, fire |-> fire_active]
  /\ NoFault /\ UNCHANGED board

(* Process restart: the PWM keeps its duty until apply_safe_state and      *)
(* fan_control_init write 0, which may be refused as well.                 *)
Restart ==
  /\ auto_on' = FALSE /\ fire_active' = FALSE /\ level' = 0
  /\ applied_duty' = 0 /\ (rpic_fan_set(0) \/ Refused)
  /\ linked' = FALSE
  /\ UNCHANGED shown

-----------------------------------------------------------------------------
(* The record lies in one way only: it may say that the fan stands still   *)
(* when the driver refused to stop it (lines 95 and 156).                  *)
LedgerLiesOnlyAtRest == fan # applied_duty => applied_duty = 0 /\ refused

(* In a fire the record is 0 whatever the order of levels, commands and    *)
(* reconnections before and during it, and so is the fan unless the driver *)
(* has refused a write.                                                    *)
FireStopsFan == fire_active => applied_duty = 0 /\ (fan = 0 \/ refused)

(* While the link is up, what the VMSs see is what fan_control.c holds:    *)
(* every path that changes it publishes, and reconnecting repairs it.      *)
ShownIsTrue ==
  linked => shown = [auto |-> auto_on, level |-> level, duty |-> applied_duty, fire |-> fire_active]

(* Fire, AUTO and operator own the fan in turn (fan_control.h).            *)
owner == IF fire_active THEN "fire" ELSE IF auto_on THEN "auto" ELSE "manual"
Owner == INSTANCE FanOwner WITH owner <- owner, duty <- applied_duty, Stopped <- 0,
                                LevelDuty <- {40, 75, 90}, Duty <- Duty
IsFanOwner == Owner!Spec
=============================================================================

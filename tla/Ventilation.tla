---------------------------- MODULE Ventilation -----------------------------
(***************************************************************************)
(* The path from a crowded zone to the fan: the poller on RPi B judges the *)
(* zones (CongestionAlert), the broker keeps the last level as a retained  *)
(* message, RPi C decides the duty (FanControl).  A level is in transit    *)
(* for as long as Deliver is not taken; the connection of RPi C may break  *)
(* at any time, and subscribing again delivers what the broker retained.   *)
(***************************************************************************)
EXTENDS FanControl, CongestionAlert

vars == <<fanvars, alertvars, faults>>

Init == FanInit /\ AlertInit /\ faults = 0

(* on_message for GUARDX_FAN_LEVEL_TOPIC.                                  *)
Deliver == linked /\ level_topic >= 0 /\ set_level(level_topic) /\ UNCHANGED alertvars

Poll == (Judge \/ Realert \/ publishFanLevel \/ PollerRestart) /\ UNCHANGED fanvars

Broker == BrokerRestart /\ linked' = FALSE /\ UNCHANGED <<board, shown>>

Operators ==
  /\ \/ \E active \in BOOLEAN : HandleFire(active)
     \/ \E on \in BOOLEAN : HandleAuto(on)
     \/ \E duty \in ManualDuty : HandleManual(duty)
  /\ UNCHANGED alertvars

Link == (Disconnect \/ Connect \/ Restart) /\ UNCHANGED alertvars

Next == Deliver \/ Poll \/ Broker \/ Operators \/ Link

(* The poller's loop turns, REFRESH_MS pass again and again, mosquitto     *)
(* reconnects and a connection lasts long enough to deliver what is        *)
(* retained; nothing is assumed of people, fires and faults.               *)
Fairness ==
  /\ WF_vars(Judge /\ UNCHANGED fanvars)
  /\ WF_vars(publishFanLevel /\ UNCHANGED fanvars)
  /\ SF_vars(todo = {} /\ todo' = Zone /\ Send /\ UNCHANGED <<incident, g_level, db_open, doubtful, fanvars>>)
  /\ WF_vars(Connect /\ UNCHANGED alertvars)
  /\ SF_vars(Deliver)

Spec == Init /\ [][Next]_vars /\ Fairness

-----------------------------------------------------------------------------
VentilationTypeOK == FanTypeOK /\ AlertTypeOK /\ faults \in 0 .. MaxFaults

(* While AUTO lasts without a fire, the fan reaches the duty of the worst  *)
(* zone, whatever publications, connections and retained messages were     *)
(* lost on the way, as long as the driver refused no write: a level that   *)
(* is refused is not tried again (set_level returns on an equal level).    *)
FanFollows ==
  \A lv \in Level :
    <>[](worst = lv /\ auto_on /\ ~fire_active /\ ~refused) => <>[](fan = duty_for_level(lv))
=============================================================================

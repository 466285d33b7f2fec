----------------------------- MODULE FireService -----------------------------
(***************************************************************************)
(* The fire response path over three processes and the broker:             *)
(*                                                                         *)
(*   rpib_decision --out--> broker --inbox--> rpib_dispatch --dout-->      *)
(*                  \         broker --link--> rpic_subscriber (RPi C)     *)
(*                   \--> retained fire bitmap --link--> every RPi C       *)
(*                                                                         *)
(* A decision transition writes its fire_event row first and, only when    *)
(* that succeeded, publishes the alert, the bitmap and the five (three)    *)
(* commands of the scenario.  rpib_dispatch forwards each command and      *)
(* records it.  Publishers use QoS 1: a message stays in the client until  *)
(* acknowledged and is sent again after a reconnect.  Subscribers use      *)
(* clean sessions: what was queued for them is lost when they disconnect.  *)
(*                                                                         *)
(* How a fire is confirmed is FireDecision's business; here a zone may be  *)
(* confirmed at any time.  fire_zone gives each zone its own RPi C, so a   *)
(* zone also names its RPi C.  The fan and the speaker only take part as   *)
(* the fire latch that silences the one and sounds the other.  A driver    *)
(* may refuse a command, which RPi C only logs, and the VMS may move the   *)
(* pump, the valve and the shutter at any time.                            *)
(***************************************************************************)
EXTENDS Naturals, Sequences, SequencesExt

CONSTANTS
  Zone,        \* zones of fire_zone that have a bit in the bitmap (ids 1 to 4), and their RPi C
  FaultKinds,  \* which of the failures below may happen
  MaxEvents,   \* bound: fire_event rows and transitions
  MaxClears,   \* bound: operator requests handled
  MaxFaults,   \* bound: failures in one behaviour
  MaxManual,   \* bound: VMS commands that moved an actuator
  MaxOut,      \* bound: no refresh while so many messages are under way
  Followed,    \* the commands followed: the others only take up room in the queues
  Window       \* max_inflight of the MQTT clients (20 in libmosquitto; small here)

AllFaults == {"db", "publish", "decision_crash", "decision_link", "dispatch_crash",
              "dispatch_link", "node_crash", "node_link", "driver"}

Command == {"servo_1", "shutter", "fan", "water_pump", "sound"}

ASSUME FaultsAssumption == FaultKinds \subseteq AllFaults
ASSUME FollowedAssumption == Followed \subseteq Command
ASSUME BoundsAssumption ==
  /\ MaxEvents \in Nat /\ MaxClears \in Nat /\ MaxFaults \in Nat /\ MaxOut \in Nat \ {0}
  /\ MaxManual \in Nat
  /\ Window \in Nat \ {0}

VARIABLES
  alarm,       \* decision_zone_t.state of each zone, in rpib_decision's memory
  boot,        \* main()'s boot publication: its phase and the bitmap it read
  fireEvents,  \* the fire_event rows, in order of event_id
  audit,       \* the fire_event_command rows
  out,         \* rpib_decision's MQTT client: unacknowledged messages, how many are sent
  inbox,       \* what the broker has queued for rpib_dispatch
  dispatchOn,  \* rpib_dispatch is running, connected and subscribed
  dout,        \* rpib_dispatch's MQTT client
  retained,    \* the bitmap the broker retains
  link,        \* what the broker has queued for each RPi C
  node,        \* each RPi C: connection, actuators, fire latch; and as history the actuators
               \* that strayed: the last decision command was refused, or the VMS moved it since
  steps,       \* counters of the bounds
  unrecorded,  \* history: the rows whose insert failed
  burning,     \* history: confirmed and not cleared by the operator since
  lost,        \* history: a command of the zone's last transition went missing
  asked        \* history: the operator asked to clear a zone whose pump runs

decision == <<alarm, boot, fireEvents>>
dispatch == <<audit, unrecorded, inbox, dispatchOn, dout>>
field    == <<link, node>>
history  == <<burning, lost, asked>>
vars     == <<decision, out, dispatch, retained, field, steps, history>>

-----------------------------------------------------------------------------
(* Messages.                                                               *)

(* The alert for the VMS is not followed.                                  *)
Display(b) == [kind |-> "display", bitmap |-> b]

(* "on" tells fire_scenario's use of a command from recover_scenario's.    *)
Cmd(e, z, c, on) == [kind |-> "cmd", event |-> e, zone |-> z, command |-> c, on |-> on]
pub_cmd(e, z, c, on) == IF c \in Followed THEN <<Cmd(e, z, c, on)>> ELSE <<>>

IsCmd(m) == m.kind = "cmd"

fire_scenario(e, z) ==
  pub_cmd(e, z, "servo_1", TRUE) \o pub_cmd(e, z, "shutter", TRUE) \o pub_cmd(e, z, "fan", TRUE)
  \o pub_cmd(e, z, "water_pump", TRUE) \o pub_cmd(e, z, "sound", TRUE)

(* Slip: the pump is forgotten.                                            *)
recover_scenario_dry(e, z) == pub_cmd(e, z, "sound", FALSE) \o pub_cmd(e, z, "fan", FALSE)

(* The valve and the shutter are left as they are.                         *)
recover_scenario(e, z) ==
  pub_cmd(e, z, "water_pump", FALSE) \o pub_cmd(e, z, "sound", FALSE) \o pub_cmd(e, z, "fan", FALSE)

FireZones == {z \in Zone : alarm[z] = "FIRE"}

NoMessages == [unacked |-> <<>>, sent |-> 0]
Queue(client, msgs) == [client EXCEPT !.unacked = @ \o msgs]
Resend(client) == [client EXCEPT !.sent = 0]
Unsent(client) == client.sent < Len(client.unacked) /\ client.sent < Window
NextToSend(client) == client.unacked[client.sent + 1]
Sent(client) == [client EXCEPT !.sent = @ + 1]

Fault(k) ==
  /\ k \in FaultKinds
  /\ steps.faults < MaxFaults
  /\ steps' = [steps EXCEPT !.faults = @ + 1]

(* The zones a set of dropped messages carried commands for.               *)
LosesFor(msgs) == {m.zone : m \in {x \in msgs : IsCmd(x)}}
Missed(zones) == [z \in Zone |-> lost[z] \/ z \in zones]

-----------------------------------------------------------------------------
(* rpib_decision.                                                          *)

Init ==
  /\ alarm = [z \in Zone |-> "NORMAL"]
  /\ boot = [phase |-> "reading", bitmap |-> {}]
  /\ fireEvents = <<>>
  /\ audit = {} /\ unrecorded = {}
  /\ out = NoMessages /\ dout = NoMessages
  /\ inbox = <<>>
  /\ dispatchOn = TRUE
  /\ retained = {}
  /\ link = [z \in Zone |-> <<>>]
  /\ node = [z \in Zone |-> [on |-> TRUE, pump |-> FALSE, valveShut |-> FALSE,
                             shutterShut |-> FALSE, fire_active |-> FALSE, strayed |-> {}]]
  /\ steps = [faults |-> 0, events |-> 0, clears |-> 0, manual |-> 0]
  /\ burning = [z \in Zone |-> FALSE]
  /\ lost = [z \in Zone |-> FALSE]
  /\ asked = [z \in Zone |-> FALSE]

(* main(): publish_fire_display after the callback thread has started, in  *)
(* two steps because that thread may confirm a fire in between.            *)
BootRead ==
  /\ boot.phase = "reading"
  /\ boot' = [phase |-> "publishing", bitmap |-> FireZones]
  /\ UNCHANGED <<alarm, fireEvents, out, dispatch, retained, field, steps, history>>

BootPublish ==
  /\ boot.phase = "publishing"
  /\ out' = Queue(out, <<Display(boot.bitmap)>>)
  /\ boot' = [phase |-> "running", bitmap |-> {}]
  /\ UNCHANGED <<alarm, fireEvents, dispatch, retained, field, steps, history>>

(* What follows a transition of z to "on": the row, then the messages.     *)
(* The row is written and reported, not written, or written without the    *)
(* process learning of it; or the row is there and the client refuses one  *)
(* of the messages, which pub_cmd passes over.  "first" are messages the   *)
(* callback has queued.                                                    *)
Outcome == {"stored", "failed", "unreported", "unpublished"}

Taken(result, messages) ==
  CASE result = "stored"                  -> {messages}
    [] result = "unpublished"             -> {RemoveAt(messages, i) : i \in DOMAIN messages}
    [] result \in {"failed", "unreported"} -> {<<>>}

(* Slip: the commands go out although the row was not written.             *)
ActUnrecorded(z, on, result, first) ==
  LET e == Len(fireEvents) + 1
      scenario == IF on THEN fire_scenario(e, z) ELSE recover_scenario(e, z)
      messages == <<Display({x \in Zone : alarm'[x] = "FIRE"})>> \o scenario
  IN  /\ fireEvents' = IF result = "failed" THEN fireEvents
                       ELSE Append(fireEvents, [zone |-> z, on |-> on])
      /\ out' = Queue(out, first \o messages)
      /\ lost' = [lost EXCEPT ![z] = result # "stored"]

Act(z, on, result, first) ==
  LET e == Len(fireEvents) + 1
      scenario == IF on THEN fire_scenario(e, z) ELSE recover_scenario(e, z)
      messages == <<Display({x \in Zone : alarm'[x] = "FIRE"})>> \o scenario
  IN  /\ fireEvents' = IF result = "failed" THEN fireEvents
                       ELSE Append(fireEvents, [zone |-> z, on |-> on])
      /\ \E taken \in Taken(result, messages) : out' = Queue(out, first \o taken)
      /\ lost' = [lost EXCEPT ![z] = result # "stored"]

(* A failing database or client uses up a fault.                           *)
Counted(result, clears) ==
  /\ steps.events < MaxEvents
  /\ result # "stored" => /\ (IF result = "unpublished" THEN "publish" ELSE "db") \in FaultKinds
                          /\ steps.faults < MaxFaults
  /\ steps' = [steps EXCEPT !.faults = IF result = "stored" THEN @ ELSE @ + 1,
                            !.events = @ + 1, !.clears = @ + clears]

(* on_sensor, the cycle that confirms the fire; the refresh may be due in  *)
(* the same cycle and then comes first.                                    *)
Confirm(z, result, due) ==
  /\ alarm[z] = "NORMAL"
  /\ alarm' = [alarm EXCEPT ![z] = "FIRE"]
  /\ Counted(result, 0)
  /\ Act(z, TRUE, result, IF due THEN <<Display(FireZones \cup {z})>> ELSE <<>>)
  /\ burning' = [burning EXCEPT ![z] = TRUE]
  /\ asked' = [asked EXCEPT ![z] = FALSE]
  /\ UNCHANGED <<boot, dispatch, retained, field>>

UnderWay == Len(out.unacked) + Len(inbox) + Len(dout.unacked)
            + SumFunction([z \in Zone |-> Len(link[z])])

(* Slip: with every zone NORMAL there is nothing to show again.            *)
RefreshFires ==
  /\ FireZones # {}
  /\ UnderWay < MaxOut
  /\ out' = Queue(out, <<Display(FireZones)>>)
  /\ UNCHANGED <<decision, dispatch, retained, field, steps, history>>

(* on_sensor, any other cycle in which the refresh is due.                 *)
Refresh ==
  /\ UnderWay < MaxOut
  /\ out' = Queue(out, <<Display(FireZones)>>)
  /\ UNCHANGED <<decision, dispatch, retained, field, steps, history>>

(* on_clear_fire: a zone that is NORMAL is left alone.                     *)
ClearFire(z, result) ==
  /\ steps.clears < MaxClears
  /\ asked' = [asked EXCEPT ![z] = node[z].pump]
  /\ burning' = [burning EXCEPT ![z] = FALSE]
  /\ IF alarm[z] = "FIRE"
       THEN /\ alarm' = [alarm EXCEPT ![z] = "NORMAL"]
            /\ Counted(result, 1)
            /\ Act(z, FALSE, result, <<>>)
       ELSE /\ result = "stored"
            /\ steps' = [steps EXCEPT !.clears = @ + 1]
            /\ UNCHANGED <<alarm, fireEvents, out, lost>>
  /\ UNCHANGED <<boot, dispatch, retained, field>>

(* Restart=on-failure: every zone starts NORMAL, unsent messages are gone. *)
DecisionCrash ==
  /\ Fault("decision_crash")
  /\ alarm' = [z \in Zone |-> "NORMAL"]
  /\ boot' = [phase |-> "reading", bitmap |-> {}]
  /\ out' = NoMessages
  /\ lost' = Missed(FireZones \cup LosesFor(ToSet(out.unacked)))
  /\ UNCHANGED <<fireEvents, dispatch, retained, field, burning, asked>>

DecisionReconnect ==
  /\ Fault("decision_link")
  /\ out.sent > 0
  /\ out' = Resend(out)
  /\ UNCHANGED <<decision, dispatch, retained, field, history>>

-----------------------------------------------------------------------------
(* The broker, on what rpib_decision sends.                                *)

Delivered(z, m) == IF node[z].on THEN Append(link[z], m) ELSE link[z]

DecisionSend ==
  /\ Unsent(out)
  /\ out' = Sent(out)
  /\ LET m == NextToSend(out)
     IN  CASE IsCmd(m) ->
                /\ inbox' = IF dispatchOn THEN Append(inbox, m) ELSE inbox
                /\ lost' = IF dispatchOn THEN lost ELSE Missed({m.zone})
                /\ UNCHANGED <<retained, link>>
           [] m.kind = "display" ->
                /\ retained' = m.bitmap
                /\ link' = [z \in Zone |-> Delivered(z, m)]
                /\ UNCHANGED <<inbox, lost>>
  /\ UNCHANGED <<decision, audit, unrecorded, dispatchOn, dout, node, steps, burning, asked>>

DecisionAcked ==
  /\ out.sent > 0
  /\ out' = [unacked |-> Tail(out.unacked), sent |-> out.sent - 1]
  /\ UNCHANGED <<decision, dispatch, retained, field, steps, history>>

-----------------------------------------------------------------------------
(* rpib_dispatch.                                                          *)

Row(m) == [event |-> m.event, command |-> m.command]

(* Slip: the rows are taken to be one for each event.                      *)
on_fire_cmd_once(published, recorded) ==
  /\ dispatchOn
  /\ inbox # <<>>
  /\ inbox' = Tail(inbox)
  /\ recorded => published
  /\ ~ recorded => Fault(IF published THEN "db" ELSE "publish")
  /\ recorded => UNCHANGED steps
  /\ LET m == Head(inbox)
     IN  /\ dout' = IF published THEN Queue(dout, <<m>>) ELSE dout
         /\ unrecorded' = IF published /\ ~ recorded THEN unrecorded \cup {Row(m)} ELSE unrecorded
         /\ audit' = IF recorded /\ ~ \E r \in audit : r.event = m.event THEN audit \cup {Row(m)} ELSE audit
         /\ lost' = IF published THEN lost ELSE Missed({m.zone})
  /\ UNCHANGED <<decision, out, dispatchOn, retained, field, burning, asked>>

(* on_fire_cmd: publish, and record what the client took; a second row for *)
(* the same event and command is not inserted.  What the client took is    *)
(* sent only after the callback, so a crash may leave a row whose command  *)
(* never went out.                                                         *)
on_fire_cmd(published, recorded) ==
  /\ dispatchOn
  /\ inbox # <<>>
  /\ inbox' = Tail(inbox)
  /\ recorded => published
  /\ ~ recorded => Fault(IF published THEN "db" ELSE "publish")
  /\ recorded => UNCHANGED steps
  /\ LET m == Head(inbox)
     IN  /\ dout' = IF published THEN Queue(dout, <<m>>) ELSE dout
         /\ unrecorded' = IF published /\ ~ recorded THEN unrecorded \cup {Row(m)} ELSE unrecorded
         /\ audit' = IF recorded THEN audit \cup {Row(m)} ELSE audit
         /\ lost' = IF published THEN lost ELSE Missed({m.zone})
  /\ UNCHANGED <<decision, out, dispatchOn, retained, field, burning, asked>>

DispatchSend ==
  /\ dispatchOn
  /\ Unsent(dout)
  /\ dout' = Sent(dout)
  /\ LET m == NextToSend(dout)
     IN  /\ link' = [link EXCEPT ![m.zone] = Delivered(m.zone, m)]
         /\ lost' = IF node[m.zone].on THEN lost ELSE Missed({m.zone})
  /\ UNCHANGED <<decision, out, audit, unrecorded, inbox, dispatchOn, retained, node, steps,
                 burning, asked>>

DispatchAcked ==
  /\ dout.sent > 0
  /\ dout' = [unacked |-> Tail(dout.unacked), sent |-> dout.sent - 1]
  /\ UNCHANGED <<decision, out, audit, unrecorded, inbox, dispatchOn, retained, field, steps, history>>

(* The session is clean: the broker forgets what it had queued.  A crash   *)
(* also forgets the messages of the client, a broken link does not.        *)
DispatchDown(crash) ==
  /\ dispatchOn
  /\ Fault(IF crash THEN "dispatch_crash" ELSE "dispatch_link")
  /\ dispatchOn' = FALSE
  /\ inbox' = <<>>
  /\ dout' = IF crash THEN NoMessages ELSE Resend(dout)
  /\ lost' = Missed(LosesFor(ToSet(inbox) \cup IF crash THEN ToSet(dout.unacked) ELSE {}))
  /\ UNCHANGED <<decision, out, audit, unrecorded, retained, field, burning, asked>>

DispatchUp ==
  /\ ~ dispatchOn
  /\ dispatchOn' = TRUE
  /\ UNCHANGED <<decision, out, audit, unrecorded, inbox, dout, retained, field, steps, history>>

-----------------------------------------------------------------------------
(* rpic_subscriber.                                                        *)

(* A rising edge closes the shutter, if its driver accepts (a refusal is   *)
(* logged, and not tried again while the fire lasts); the latch drives     *)
(* siren and fan.                                                          *)
matrix_link_handle_fire(n, bitmap, ok) ==
  [n EXCEPT !.fire_active = bitmap # {},
            !.shutterShut = @ \/ (ok /\ bitmap # {} /\ ~ n.fire_active)]

Actuator == {"servo_1", "shutter", "water_pump"}

Driven(n, c, on) ==
  CASE c = "servo_1"    -> [n EXCEPT !.valveShut = on]
    [] c = "shutter"    -> [n EXCEPT !.shutterShut = on]
    [] c = "water_pump" -> [n EXCEPT !.pump = on]
    [] c \in {"fan", "sound"} -> n

DISPATCH_CMD(n, c, on, ok) == IF ok THEN Driven(n, c, on) ELSE n

(* on_command, on a command of the decision: a refusal is only logged.     *)
Commanded(n, m, ok) ==
  [DISPATCH_CMD(n, m.command, m.on, ok) EXCEPT !.strayed =
     IF ok \/ Driven(n, m.command, m.on) = n THEN @ \ {m.command} ELSE @ \cup {m.command}]

NodeReceive(z, ok) ==
  /\ node[z].on
  /\ link[z] # <<>>
  /\ link' = [link EXCEPT ![z] = Tail(@)]
  /\ ~ ok => Fault("driver")
  /\ ok => UNCHANGED steps
  /\ LET m == Head(link[z])
     IN  node' = [node EXCEPT ![z] = IF IsCmd(m) THEN Commanded(@, m, ok)
                                     ELSE matrix_link_handle_fire(@, m.bitmap, ok)]
  /\ asked' = [asked EXCEPT ![z] = @ /\ node'[z].pump]
  /\ UNCHANGED <<decision, out, dispatch, retained, burning, lost>>

Strayed(n, c) == [n EXCEPT !.strayed = n.strayed \cup {c}]

(* on_command, on a command the VMS sent through task_vms.cpp, which asks  *)
(* for an administrator and for nothing else: in a fire, too.  STOP leaves *)
(* a shutter that is not shut.  One that moves nothing, because it was     *)
(* refused or the actuator is there already, is not followed.              *)
ManualCommand(z, c, on) ==
  /\ node[z].on
  /\ Driven(node[z], c, on) # node[z]
  /\ steps.manual < MaxManual
  /\ steps' = [steps EXCEPT !.manual = @ + 1]
  /\ node' = [node EXCEPT ![z] = Strayed(DISPATCH_CMD(node[z], c, on, TRUE), c)]
  /\ asked' = [asked EXCEPT ![z] = @ /\ node'[z].pump]
  /\ UNCHANGED <<decision, out, dispatch, retained, link, burning, lost>>

(* A broken link leaves the actuators as they are; after a restart the     *)
(* pump is off (apply_safe_state), the latch is down, and the valve and    *)
(* the shutter stay where they were.                                       *)
NodeDown(z, crash) ==
  /\ node[z].on
  /\ Fault(IF crash THEN "node_crash" ELSE "node_link")
  /\ link' = [link EXCEPT ![z] = <<>>]
  /\ node' = [node EXCEPT ![z] =
                IF crash THEN [@ EXCEPT !.on = FALSE, !.pump = FALSE, !.fire_active = FALSE]
                ELSE [@ EXCEPT !.on = FALSE]]
  /\ lost' = Missed(LosesFor(ToSet(link[z])) \cup IF crash THEN {z} ELSE {})
  /\ asked' = [asked EXCEPT ![z] = @ /\ ~ crash]
  /\ UNCHANGED <<decision, out, dispatch, retained, burning>>

(* on_connect subscribes again and the broker sends the retained bitmap.   *)
NodeUp(z) ==
  /\ ~ node[z].on
  /\ node' = [node EXCEPT ![z].on = TRUE]
  /\ link' = [link EXCEPT ![z] = <<Display(retained)>>]
  /\ UNCHANGED <<decision, out, dispatch, retained, steps, history>>

-----------------------------------------------------------------------------
Next ==
  \/ BootRead \/ BootPublish \/ Refresh
  \/ \E z \in Zone, r \in Outcome : ClearFire(z, r) \/ \E due \in BOOLEAN : Confirm(z, r, due)
  \/ DecisionCrash \/ DecisionReconnect \/ DecisionSend \/ DecisionAcked
  \/ \E p, r \in BOOLEAN : on_fire_cmd(p, r)
  \/ DispatchSend \/ DispatchAcked \/ DispatchUp
  \/ \E crash \in BOOLEAN : DispatchDown(crash)
  \/ \E z \in Zone : \/ \E ok \in BOOLEAN : NodeReceive(z, ok)
                     \/ \E c \in Actuator \cap Followed, on \in BOOLEAN : ManualCommand(z, c, on)
                     \/ NodeUp(z)
                     \/ \E crash \in BOOLEAN : NodeDown(z, crash)

(* The client threads run, connections come back (mosquitto_loop_start     *)
(* reconnects, systemd restarts), and RPi A keeps sending sensor cycles.   *)
Fairness ==
  /\ WF_vars(BootRead) /\ WF_vars(BootPublish) /\ WF_vars(Refresh)
  /\ WF_vars(DecisionSend) /\ WF_vars(DecisionAcked)
  /\ WF_vars(on_fire_cmd(TRUE, TRUE))
  /\ WF_vars(DispatchSend) /\ WF_vars(DispatchAcked) /\ WF_vars(DispatchUp)
  /\ \A z \in Zone : WF_vars(NodeReceive(z, TRUE)) /\ WF_vars(NodeUp(z))

Spec == Init /\ [][Next]_vars
FairSpec == Spec /\ Fairness

-----------------------------------------------------------------------------
(* Properties.                                                             *)

DisplayMessage == [kind : {"display"}, bitmap : SUBSET Zone]
CmdMessage == [kind : {"cmd"}, event : Nat \ {0}, zone : Zone, command : Command, on : BOOLEAN]
Message == DisplayMessage \cup CmdMessage
Client(S) == {c \in [unacked : Seq(S), sent : Nat] : c.sent <= Len(c.unacked)}

DecisionTypes ==
  /\ alarm \in [Zone -> {"NORMAL", "FIRE"}]
  /\ boot \in [phase : {"reading", "publishing", "running"}, bitmap : SUBSET Zone]
  /\ fireEvents \in Seq([zone : Zone, on : BOOLEAN])
OutTypes == out \in Client(Message)
DispatchTypes ==
  /\ inbox \in Seq(CmdMessage) /\ dispatchOn \in BOOLEAN /\ (~ dispatchOn => inbox = <<>>)
  /\ dout \in Client(CmdMessage)
RowTypes == audit \cup unrecorded \subseteq [event : Nat \ {0}, command : Command]
LinkTypes ==
  /\ link \in [Zone -> Seq(Message)] /\ retained \subseteq Zone
  /\ \A z \in Zone : ~ node[z].on => link[z] = <<>>
NodeTypes ==
  node \in [Zone -> [on : BOOLEAN, pump : BOOLEAN, valveShut : BOOLEAN, shutterShut : BOOLEAN,
                     fire_active : BOOLEAN, strayed : SUBSET Command]]
StepTypes == [faults : 0 .. MaxFaults, events : 0 .. MaxEvents, clears : 0 .. MaxClears,
              manual : 0 .. MaxManual]
HistoryTypes ==
  /\ burning \in [Zone -> BOOLEAN] /\ lost \in [Zone -> BOOLEAN] /\ asked \in [Zone -> BOOLEAN]
  /\ steps \in StepTypes

(* Every queue holds well-formed messages, only commands reach the         *)
(* dispatcher, and nothing is queued for a subscriber that is away.        *)
TypeOK == DecisionTypes /\ OutTypes /\ DispatchTypes /\ RowTypes /\ LinkTypes /\ NodeTypes /\ HistoryTypes

InFlight == ToSet(out.unacked) \cup ToSet(inbox) \cup ToSet(dout.unacked)
            \cup UNION {ToSet(link[z]) : z \in Zone}

(* No command exists anywhere, on its way or recorded, without the         *)
(* fire_event row it belongs to: the row's zone is the command's zone and  *)
(* its kind (confirmed or recovered) is the command's sense, so the        *)
(* foreign key of fire_event_command always holds.                         *)
CommandsHaveEvents ==
  \A m \in {x \in InFlight : IsCmd(x)} :
    /\ m.event \in 1 .. Len(fireEvents)
    /\ fireEvents[m.event] = [zone |-> m.zone, on |-> m.on]

NothingFor(z) == \A m \in InFlight : ~ (IsCmd(m) /\ m.zone = z)

IsLast(e) == \A i \in DOMAIN fireEvents : i > e => fireEvents[i].zone # fireEvents[e].zone
Scenario(e) ==
  LET z == fireEvents[e].zone
  IN  ToSet(IF fireEvents[e].on THEN fire_scenario(e, z) ELSE recover_scenario(e, z))

(* The audit is complete: when no command of a zone is on its way and none *)
(* of its last transition was lost, each command of that transition has    *)
(* its fire_event_command row, but for the inserts that failed - also when *)
(* a command came twice after a reconnect or its callback failed half way. *)
AuditIsComplete ==
  \A e \in DOMAIN fireEvents :
    LET z == fireEvents[e].zone
    IN  (IsLast(e) /\ NothingFor(z) /\ ~ lost[z]) =>
          {Row(m) : m \in Scenario(e)} \subseteq audit \cup unrecorded

(* When no command of the zone is on its way and none of those of its last *)
(* transition was lost, the field is as the decision wants it, wherever    *)
(* the driver accepted the last command and the VMS moved nothing since:   *)
(* the pump runs exactly in a fire, and in a fire the valve and the        *)
(* shutter are shut.  Messages sent twice after a reconnect, at either     *)
(* hop, do not leave an actuator in the state of an older transition.      *)
FieldFollowsDecision ==
  \A z \in Zone :
    (NothingFor(z) /\ ~ lost[z]) =>
      LET followed == Followed \ node[z].strayed
      IN  /\ "water_pump" \in followed => node[z].pump = (alarm[z] = "FIRE")
          /\ alarm[z] = "FIRE" =>
               /\ "servo_1" \in followed => node[z].valveShut
               /\ "shutter" \in followed => node[z].shutterShut

(* The bitmap heals: after the last failure and the last transition, the   *)
(* broker's retained bitmap and every RPi C's fire latch (siren, fan) come *)
(* to agree with the decision for good, whatever was lost before: a        *)
(* database that failed, messages dropped, a node or the boot race.        *)
DisplayHeals ==
  <>[](/\ retained = FireZones
       /\ \A z \in Zone : node[z].on /\ node[z].fire_active = (FireZones # {}))

(* mqtt_sub.c of RPi C: commands missed while the node was disconnected    *)
(* are issued again by RPi B from its current state.  So a node that lost  *)
(* its link in a fire sees its pump on again, or the fire cleared.         *)
CommandsAreReissued ==
  \A z \in Zone : (alarm[z] = "FIRE") ~> (node[z].pump \/ alarm[z] = "NORMAL")

(* decision.h: an engine that restarts in a fire leaves the actuators of   *)
(* RPi C on.  So the fire latch does not fall while a confirmed fire has   *)
(* not been cleared by the operator.                                       *)
RestartKeepsResponse ==
  [][\A z \in Zone : (node[z].fire_active /\ ~ node'[z].fire_active /\ node'[z].on)
        => \A x \in Zone : ~ burning[x]]_vars

(* decision.h: manual clearing is possible at any time, so nobody is       *)
(* locked in.  The pump of a zone the operator cleared stops.              *)
ClearStopsPump == \A z \in Zone : asked[z] ~> ~ asked[z]
=============================================================================

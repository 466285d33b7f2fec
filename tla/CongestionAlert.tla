-------------------------- MODULE CongestionAlert ---------------------------
(***************************************************************************)
(* The congestion judgement of the RPi B poller, task_alert.cpp, and the   *)
(* level it hands to the fan, task_fan_level.cpp.  Every alert tick judges *)
(* the zones one after the other, then publishes the worst level once; a   *)
(* changed threshold has one zone judged again between two ticks.          *)
(*                                                                         *)
(* A judgement is one transaction.  The database may fail before its       *)
(* commit, or during it so that nobody knows whether it happened, and the  *)
(* connection, once broken, is never opened again.  The poller may crash   *)
(* between any two steps.                                                  *)
(***************************************************************************)
EXTENDS Integers, FiniteSets, Faults

CONSTANT Zone   \* the zones that are polled

ASSUME ZoneAssumption == IsFiniteSet(Zone) /\ Zone # {}

(* Where the worst of the three signals lies: below the band in which an   *)
(* incident is kept, inside it, at warn_ratio, at critical_ratio; unknown  *)
(* when there is no threshold or no fresh signal.                          *)
Reading == {"unknown", "low", "band", "warn", "critical"}
Severity == {"clear", "warn", "critical"}

VARIABLES
  incident,     \* the open incident of a zone, in the database
  g_level,      \* the last verdict on a zone, -1 for none
  g_sent,       \* the level published last, -2 for none
  todo,         \* zones this tick has still to judge
  db_open,      \* the poller's connection to the database
  doubtful,     \* zones whose last commit had no answer and that were not judged since
  level_topic   \* the retained level on the broker, -1 for none

poller == <<g_level, g_sent, todo, db_open>>
alertvars == <<incident, poller, doubtful, level_topic>>

AlertTypeOK ==
  /\ incident \in [Zone -> Severity]
  /\ g_level \in [Zone -> -1 .. 2] /\ g_sent \in {-2, 0, 1, 2}
  /\ todo \subseteq Zone /\ db_open \in BOOLEAN /\ doubtful \subseteq Zone
  /\ level_topic \in -1 .. 2

AlertInit ==
  /\ incident = [z \in Zone |-> "clear"]
  /\ g_level = [z \in Zone |-> -1] /\ g_sent = -2
  /\ todo = Zone /\ db_open = TRUE /\ doubtful = {}
  /\ level_topic = -1

-----------------------------------------------------------------------------
fanLevelFromSeverityName(severity) == CASE severity = "critical" -> 2 [] severity = "warn" -> 1 [] OTHER -> 0
sevOf(reading) == IF reading \in {"warn", "critical"} THEN reading ELSE "clear"

(* none -> warn/critical opens, warn -> critical escalates, critical is    *)
(* never brought down to warn, and only a reading below the band resolves. *)
Verdict(severity, reading) ==
  CASE severity = "clear" -> sevOf(reading)
    [] severity # "clear" /\ reading = "critical" -> "critical"
    [] severity # "clear" /\ reading = "low" -> "clear"
    [] OTHER -> severity

(* Slip: the fan is told the momentary severity, not the incident's.       *)
ReportMomentary(z, reading) == [g_level EXCEPT ![z] = fanLevelFromSeverityName(sevOf(reading))]

Report(z, reading) == [g_level EXCEPT ![z] = fanLevelFromSeverityName(Verdict(incident[z], reading))]

(* reportZoneLevel(zone, -1): an open incident stays as it is.             *)
JudgeUnknown(z) ==
  /\ db_open
  /\ g_level' = [g_level EXCEPT ![z] = -1]
  /\ NoFault /\ UNCHANGED <<incident, doubtful, db_open>>

JudgeKnown(z, reading) ==
  /\ db_open
  /\ incident' = [incident EXCEPT ![z] = Verdict(@, reading)]
  /\ g_level' = Report(z, reading)
  /\ doubtful' = doubtful \ {z}
  /\ NoFault /\ UNCHANGED db_open

(* An exception leaves the level as it was reported before.                *)
JudgeFails(z) ==
  /\ IF db_open THEN Fault /\ db_open' \in BOOLEAN ELSE NoFault /\ UNCHANGED db_open
  /\ UNCHANGED <<incident, doubtful, g_level>>

(* The commit happened, its answer was lost with the connection.           *)
JudgeInDoubt(z, reading) ==
  /\ db_open /\ Verdict(incident[z], reading) # incident[z]
  /\ Fault
  /\ incident' = [incident EXCEPT ![z] = Verdict(@, reading)]
  /\ doubtful' = doubtful \cup {z}
  /\ db_open' = FALSE
  /\ UNCHANGED g_level

pollAlert(z) ==
  \/ JudgeUnknown(z)
  \/ \E reading \in Reading \ {"unknown"} : JudgeKnown(z, reading) \/ JudgeInDoubt(z, reading)
  \/ JudgeFails(z)

(* One zone of the alert tick; the order of the zones does not matter.     *)
Judge == \E z \in todo : pollAlert(z) /\ todo' = todo \ {z} /\ UNCHANGED <<g_sent, level_topic>>

(* Between two ticks: takeRealertZones.                                    *)
Realert == todo = Zone /\ \E z \in Zone : pollAlert(z) /\ UNCHANGED <<todo, g_sent, level_topic>>

worst == CHOOSE l \in -1 .. 2 : (\E z \in Zone : g_level[z] = l) /\ (\A z \in Zone : g_level[z] <= l)

Quiet == worst = -1 /\ UNCHANGED <<g_sent, level_topic, faults>>
NotDue == worst = g_sent /\ UNCHANGED <<g_sent, level_topic, faults>>

(* Slip: the refresh is left out.                                          *)
SendOnce ==
  /\ worst >= 0 /\ worst # g_sent
  /\ g_sent' = worst
  /\ \/ level_topic' = worst /\ NoFault
     \/ Fault /\ UNCHANGED level_topic

(* The result of the publication is not looked at: a level that is lost is *)
(* taken for sent, until REFRESH_MS have passed.                           *)
Send ==
  /\ worst >= 0
  /\ g_sent' = worst
  /\ \/ level_topic' = worst /\ NoFault
     \/ Fault /\ UNCHANGED level_topic

publishFanLevel ==
  /\ todo = {} /\ todo' = Zone
  /\ Quiet \/ NotDue \/ Send
  /\ UNCHANGED <<incident, g_level, db_open, doubtful>>

(* The poller starts again with an empty map and a new connection.         *)
PollerRestart ==
  /\ Fault
  /\ g_level' = [z \in Zone |-> -1] /\ g_sent' = -2
  /\ todo' = Zone /\ db_open' = TRUE
  /\ UNCHANGED <<incident, doubtful, level_topic>>

(* The broker restarts without its retained messages.                      *)
BrokerRestart ==
  /\ Fault /\ level_topic # -1 /\ level_topic' = -1
  /\ UNCHANGED <<incident, poller, doubtful>>

-----------------------------------------------------------------------------
(* The level kept for the fan is the severity of the zone's incident, as   *)
(* the screen shows it, or unknown, through every escalation, band, error  *)
(* and restart: never the momentary severity (the warning at line 123).    *)
LevelIsIncident ==
  \A z \in Zone \ doubtful : g_level[z] \in {-1, fanLevelFromSeverityName(incident[z])}

(* A level that reaches the broker is the worst incident of the zones      *)
(* known to the poller: no zone is drowned by a better one judged later,   *)
(* and no level is sent that no zone has.                                  *)
PublishedIsWorst ==
  [][level_topic' >= 0 /\ level_topic' # level_topic =>
       /\ \A z \in Zone \ doubtful :
            g_level[z] # -1 => level_topic' >= fanLevelFromSeverityName(incident[z])
       /\ doubtful = {} => \E z \in Zone : level_topic' = fanLevelFromSeverityName(incident[z])]_alertvars
=============================================================================

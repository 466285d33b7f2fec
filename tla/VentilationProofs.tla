-------------------------- MODULE VentilationProofs -------------------------
(***************************************************************************)
(* Proofs about the fan and the congestion level, for every set of zones,  *)
(* every set of manual duties and every number of faults.                  *)
(***************************************************************************)
EXTENDS Ventilation, TLAPS

(* The inductive invariant of the fan's side: the record is wrong only     *)
(* when it says 0, and it says 0 in every fire.                            *)
FanInv == FanTypeOK /\ LedgerLiesOnlyAtRest /\ FireStopsFan /\ ShownIsTrue

(* The three duties of the levels.                                         *)
LEMMA LevelDuties ==
  ASSUME NEW lv \in Level
  PROVE  duty_for_level(lv) \in {40, 75, 90}
  BY DEF duty_for_level, Level

LEMMA Numbers == 0 \in Duty /\ {40, 75, 90} \subseteq Duty
  BY DEF Duty

(* What apply_locked leaves behind: a typed record that equals the fan     *)
(* unless it did before, and the level's duty or the old one.              *)
LEMMA ApplyLocked ==
  ASSUME FanInv, NEW a \in BOOLEAN, NEW fire \in BOOLEAN, NEW lv \in Level,
         apply_locked(a, fire, lv)
  PROVE  /\ applied_duty' \in Duty /\ fan' \in Duty /\ refused' \in BOOLEAN
         /\ refused => refused'
         /\ fan' # applied_duty' => applied_duty' = 0 /\ refused'
         /\ fire /\ applied_duty = 0 => applied_duty' = 0 /\ fan' = fan
         /\ ~fire => applied_duty' \in {40, 75, 90} \cup {applied_duty}
         /\ ~fire /\ ~a => applied_duty' = applied_duty
<1> DEFINE d == duty_for_level(lv)
<1>1. d \in {40, 75, 90} /\ d \in Duty
  BY LevelDuties, Numbers
<1> HIDE DEF d
<1>2. applied_duty \in Duty /\ fan \in Duty /\ refused \in BOOLEAN
  BY DEF FanInv, FanTypeOK
<1>3. fan # applied_duty => applied_duty = 0 /\ refused
  BY DEF FanInv, LedgerLiesOnlyAtRest
<1>4. Wanted(a, fire, lv) = IF fire THEN 0 ELSE d
  BY DEF Wanted, d
<1>5. CASE nothing_set
  BY <1>2, <1>3, <1>5 DEF nothing_set
<1>6. CASE rpic_fan_set(Wanted(a, fire, lv)) /\ applied_duty' = Wanted(a, fire, lv)
           /\ (fire \/ a) /\ Wanted(a, fire, lv) # applied_duty
  BY <1>1, <1>2, <1>4, <1>6, Numbers DEF rpic_fan_set
<1>7. CASE Refused /\ UNCHANGED applied_duty /\ (fire \/ a) /\ Wanted(a, fire, lv) # applied_duty
  <2>1. fan' = fan /\ applied_duty' = applied_duty /\ refused' = TRUE
    BY <1>7 DEF Refused
  <2> QED BY <1>2, <1>3, <2>1
<1> QED BY <1>5, <1>6, <1>7, <1>4 DEF apply_locked, nothing_set

(* The published state follows the variables while the link is up.         *)
LEMMA Published ==
  ASSUME FanInv, publish_state, linked' = linked,
         auto_on' \in BOOLEAN, level' \in Level, applied_duty' \in Duty, fire_active' \in BOOLEAN
  PROVE  shown' \in State /\ ShownIsTrue'
<1>1. CASE linked
  BY <1>1 DEF publish_state, ShownIsTrue, State
<1>2. CASE ~linked
  BY <1>2 DEF publish_state, ShownIsTrue, FanInv, FanTypeOK
<1> QED BY <1>1, <1>2 DEF FanInv, FanTypeOK

LEMMA SetLevel ==
  ASSUME FanInv, NEW lv \in Level, set_level(lv)
  PROVE  FanInv'
<1>1. CASE lv = level
  <2>1. UNCHANGED fanvars
    BY <1>1 DEF set_level
  <2> QED BY <2>1 DEF fanvars, board, FanInv, FanTypeOK, LedgerLiesOnlyAtRest, FireStopsFan, ShownIsTrue
<1>2. CASE lv # level
  <2>1. /\ level' = lv /\ apply_locked(auto_on, fire_active, lv) /\ publish_state
        /\ auto_on' = auto_on /\ fire_active' = fire_active /\ linked' = linked
    BY <1>2 DEF set_level
  <2>2. auto_on \in BOOLEAN /\ fire_active \in BOOLEAN /\ linked \in BOOLEAN
    BY DEF FanInv, FanTypeOK
  <2>3. /\ applied_duty' \in Duty /\ fan' \in Duty /\ refused' \in BOOLEAN
        /\ refused => refused'
        /\ fan' # applied_duty' => applied_duty' = 0 /\ refused'
        /\ fire_active /\ applied_duty = 0 => applied_duty' = 0 /\ fan' = fan
    BY <2>1, <2>2, ApplyLocked
  <2>4. shown' \in State /\ ShownIsTrue'
    BY <2>1, <2>2, <2>3, Published
  <2>5. FireStopsFan'
    BY <2>1, <2>3 DEF FireStopsFan, FanInv
  <2> QED BY <2>1, <2>2, <2>3, <2>4, <2>5 DEF FanInv, FanTypeOK, LedgerLiesOnlyAtRest
<1> QED BY <1>1, <1>2

LEMMA SetFire ==
  ASSUME FanInv, NEW active \in BOOLEAN, set_fire(active)
  PROVE  FanInv'
<1>1. CASE active = fire_active
  <2>1. UNCHANGED fanvars
    BY <1>1 DEF set_fire
  <2> QED BY <2>1 DEF fanvars, board, FanInv, FanTypeOK, LedgerLiesOnlyAtRest, FireStopsFan, ShownIsTrue
<1>2. CASE active # fire_active
  <2>1. /\ fire_active' = active /\ publish_state
        /\ auto_on' = auto_on /\ level' = level /\ linked' = linked
        /\ active => (rpic_fan_set(0) \/ Refused) /\ applied_duty' = 0
        /\ ~active => apply_locked(auto_on, FALSE, level)
    BY <1>2 DEF set_fire
  <2>2. auto_on \in BOOLEAN /\ level \in Level /\ linked \in BOOLEAN /\ refused \in BOOLEAN /\ fan \in Duty
    BY DEF FanInv, FanTypeOK
  <2>3. /\ applied_duty' \in Duty /\ fan' \in Duty /\ refused' \in BOOLEAN
        /\ fan' # applied_duty' => applied_duty' = 0 /\ refused'
    <3>1. CASE active
      BY <3>1, <2>1, <2>2, Numbers DEF rpic_fan_set, Refused
    <3>2. CASE ~active
      BY <3>2, <2>1, <2>2, ApplyLocked
    <3> QED BY <3>1, <3>2
  <2>4. shown' \in State /\ ShownIsTrue'
    BY <2>1, <2>2, <2>3, Published
  <2>5. FireStopsFan'
    BY <2>1, <2>3 DEF FireStopsFan
  <2> QED BY <2>1, <2>2, <2>3, <2>4, <2>5 DEF FanInv, FanTypeOK, LedgerLiesOnlyAtRest
<1> QED BY <1>1, <1>2

LEMMA SetAuto ==
  ASSUME FanInv, NEW on \in BOOLEAN, set_auto(on)
  PROVE  FanInv'
<1>1. CASE on = auto_on
  <2>1. UNCHANGED fanvars
    BY <1>1 DEF set_auto
  <2> QED BY <2>1 DEF fanvars, board, FanInv, FanTypeOK, LedgerLiesOnlyAtRest, FireStopsFan, ShownIsTrue
<1>2. CASE on # auto_on
  <2>1. /\ auto_on' = on /\ publish_state
        /\ fire_active' = fire_active /\ level' = level /\ linked' = linked
        /\ on => apply_locked(TRUE, fire_active, level)
        /\ ~on => nothing_set
    BY <1>2 DEF set_auto
  <2>2. /\ fire_active \in BOOLEAN /\ level \in Level /\ linked \in BOOLEAN
        /\ refused \in BOOLEAN /\ fan \in Duty /\ applied_duty \in Duty
    BY DEF FanInv, FanTypeOK
  <2>3. /\ applied_duty' \in Duty /\ fan' \in Duty /\ refused' \in BOOLEAN
        /\ refused => refused'
        /\ fan' # applied_duty' => applied_duty' = 0 /\ refused'
        /\ fire_active /\ applied_duty = 0 => applied_duty' = 0 /\ fan' = fan
    <3>1. CASE on
      BY <3>1, <2>1, <2>2, ApplyLocked
    <3>2. CASE ~on
      BY <3>2, <2>1, <2>2 DEF nothing_set, FanInv, LedgerLiesOnlyAtRest
    <3> QED BY <3>1, <3>2
  <2>4. shown' \in State /\ ShownIsTrue'
    BY <2>1, <2>2, <2>3, Published
  <2>5. FireStopsFan'
    BY <2>1, <2>3 DEF FireStopsFan, FanInv
  <2> QED BY <2>1, <2>2, <2>3, <2>4, <2>5 DEF FanInv, FanTypeOK, LedgerLiesOnlyAtRest
<1> QED BY <1>1, <1>2

LEMMA Manual ==
  ASSUME FanInv, NEW d \in ManualDuty, manual(d)
  PROVE  FanInv'
<1>1. d \in Duty
  BY ManualAssumption
<1>2. ~fire_active /\ auto_on' = auto_on /\ fire_active' = fire_active /\ level' = level /\ linked' = linked
  BY DEF manual
<1>3. /\ auto_on \in BOOLEAN /\ fire_active \in BOOLEAN /\ level \in Level /\ linked \in BOOLEAN
      /\ refused \in BOOLEAN /\ fan \in Duty /\ applied_duty \in Duty /\ shown \in State
  BY DEF FanInv, FanTypeOK
<1>4. CASE rpic_fan_set(d) /\ applied_duty' = d /\ publish_state
  <2>1. fan' = d /\ applied_duty' = d /\ refused' = refused
    BY <1>4 DEF rpic_fan_set
  <2>2. shown' \in State /\ ShownIsTrue'
    BY <1>1, <1>2, <1>3, <1>4, Published
  <2> QED BY <1>1, <1>2, <1>3, <2>1, <2>2 DEF FanInv, FanTypeOK, LedgerLiesOnlyAtRest, FireStopsFan
<1>5. CASE Refused /\ UNCHANGED <<applied_duty, shown>>
  <2>1. fan' = fan /\ applied_duty' = applied_duty /\ refused' = TRUE /\ shown' = shown
    BY <1>5 DEF Refused
  <2> QED BY <1>2, <1>3, <2>1 DEF FanInv, FanTypeOK, LedgerLiesOnlyAtRest, FireStopsFan, ShownIsTrue
<1> QED BY <1>4, <1>5 DEF manual

LEMMA LinkStep ==
  ASSUME FanInv, Disconnect \/ Connect \/ Restart \/ (linked' = FALSE /\ UNCHANGED <<board, shown>>)
  PROVE  FanInv'
<1>1. CASE Disconnect \/ (linked' = FALSE /\ UNCHANGED <<board, shown>>)
  <2>1. linked' = FALSE /\ UNCHANGED board /\ shown' = shown
    BY <1>1 DEF Disconnect
  <2>2. /\ auto_on' = auto_on /\ fire_active' = fire_active /\ level' = level
        /\ applied_duty' = applied_duty /\ fan' = fan /\ refused' = refused
    BY <2>1 DEF board
  <2>3. FanTypeOK'
    BY <2>1, <2>2 DEF FanInv, FanTypeOK
  <2>4. LedgerLiesOnlyAtRest' /\ FireStopsFan' /\ ShownIsTrue'
    BY <2>1, <2>2 DEF FanInv, LedgerLiesOnlyAtRest, FireStopsFan, ShownIsTrue
  <2> QED BY <2>3, <2>4 DEF FanInv
<1>2. CASE Connect
  <2>1. shown' \in State /\ ShownIsTrue'
    BY <1>2 DEF Connect, board, FanInv, FanTypeOK, ShownIsTrue, State
  <2> QED BY <1>2, <2>1 DEF Connect, board, FanInv, FanTypeOK, LedgerLiesOnlyAtRest, FireStopsFan
<1>3. CASE Restart
  <2>1. /\ auto_on' = FALSE /\ fire_active' = FALSE /\ level' = 0 /\ applied_duty' = 0
        /\ linked' = FALSE /\ shown' = shown
    BY <1>3 DEF Restart
  <2>2. (fan' = 0 /\ refused' = refused) \/ (fan' = fan /\ refused' = TRUE)
    BY <1>3 DEF Restart, rpic_fan_set, Refused
  <2>3. FanTypeOK'
    <3>1. fan' \in Duty /\ refused' \in BOOLEAN
      BY <2>2, Numbers DEF FanInv, FanTypeOK
    <3>2. shown' \in State /\ level' \in Level /\ applied_duty' \in Duty
      BY <2>1, Numbers DEF FanInv, FanTypeOK, Level
    <3>3. auto_on' \in BOOLEAN /\ fire_active' \in BOOLEAN /\ linked' \in BOOLEAN
      BY <2>1
    <3> QED BY <3>1, <3>2, <3>3 DEF FanTypeOK
  <2>4. LedgerLiesOnlyAtRest' /\ FireStopsFan' /\ ShownIsTrue'
    BY <2>1, <2>2 DEF LedgerLiesOnlyAtRest, FireStopsFan, ShownIsTrue
  <2> QED BY <2>3, <2>4 DEF FanInv
<1> QED BY <1>1, <1>2, <1>3

-----------------------------------------------------------------------------
(* The inductive invariant of the poller's side.                           *)
AlertInv == AlertTypeOK /\ LevelIsIncident

LEMMA Verdicts ==
  ASSUME NEW severity \in Severity, NEW reading \in Reading \ {"unknown"}
  PROVE  /\ Verdict(severity, reading) \in Severity
         /\ fanLevelFromSeverityName(Verdict(severity, reading)) \in 0 .. 2
  BY DEF Verdict, sevOf, Severity, Reading, fanLevelFromSeverityName

(* There is a worst level, and it is one of the zones'.                    *)
LEMMA WorstExists ==
  ASSUME g_level \in [Zone -> -1 .. 2]
  PROVE  /\ worst \in -1 .. 2
         /\ \E z \in Zone : g_level[z] = worst
         /\ \A z \in Zone : g_level[z] <= worst
<1> DEFINE Top(l) == (\E z \in Zone : g_level[z] = l) /\ (\A z \in Zone : g_level[z] <= l)
<1>1. \A z \in Zone : g_level[z] \in {-1, 0, 1, 2}
  BY DOMAIN g_level = Zone
<1>2. \E l \in -1 .. 2 : Top(l)
  <2>1. CASE \E z \in Zone : g_level[z] = 2
    <3>1. Top(2)
      BY <1>1, <2>1
    <3> QED BY <3>1
  <2>2. CASE (\E z \in Zone : g_level[z] = 1) /\ ~(\E z \in Zone : g_level[z] = 2)
    <3>1. Top(1)
      BY <1>1, <2>2
    <3> QED BY <3>1
  <2>3. CASE (\E z \in Zone : g_level[z] = 0) /\ ~(\E z \in Zone : g_level[z] \in {1, 2})
    <3>1. Top(0)
      BY <1>1, <2>3
    <3> QED BY <3>1
  <2>4. CASE \A z \in Zone : g_level[z] = -1
    <3>1. Top(-1)
      BY <2>4, ZoneAssumption
    <3> QED BY <3>1
  <2> QED BY <1>1, <2>1, <2>2, <2>3, <2>4
<1>3. worst \in -1 .. 2 /\ Top(worst)
  BY <1>2 DEF worst
<1> QED BY <1>3

(* A judgement keeps the verdict and the incident of its zone together.    *)
LEMMA JudgeStep ==
  ASSUME AlertInv, NEW z \in Zone, pollAlert(z)
  PROVE  /\ incident' \in [Zone -> Severity] /\ g_level' \in [Zone -> -1 .. 2]
         /\ db_open' \in BOOLEAN /\ doubtful' \subseteq Zone
         /\ LevelIsIncident'
         /\ faults \in 0 .. MaxFaults => faults' \in 0 .. MaxFaults
<1>1. /\ incident \in [Zone -> Severity] /\ g_level \in [Zone -> -1 .. 2]
      /\ db_open \in BOOLEAN /\ doubtful \subseteq Zone
  BY DEF AlertInv, AlertTypeOK
<1>2. \A y \in Zone \ doubtful : g_level[y] \in {-1, fanLevelFromSeverityName(incident[y])}
  BY DEF AlertInv, LevelIsIncident
<1>3. CASE JudgeUnknown(z)
  <2>1. g_level' = [g_level EXCEPT ![z] = -1] /\ faults' = faults
        /\ incident' = incident /\ doubtful' = doubtful /\ db_open' = db_open
    BY <1>3 DEF JudgeUnknown, NoFault
  <2>2. LevelIsIncident'
    BY <1>1, <1>2, <2>1 DEF LevelIsIncident
  <2> QED BY <1>1, <1>3, <2>1, <2>2
<1>4. ASSUME NEW reading \in Reading \ {"unknown"}, JudgeKnown(z, reading)
      PROVE  /\ incident' \in [Zone -> Severity] /\ g_level' \in [Zone -> -1 .. 2]
             /\ db_open' \in BOOLEAN /\ doubtful' \subseteq Zone
             /\ LevelIsIncident' /\ faults' = faults
  <2> DEFINE v == Verdict(incident[z], reading)
  <2>1. v \in Severity /\ fanLevelFromSeverityName(v) \in 0 .. 2
    BY <1>1, Verdicts
  <2>2. /\ incident' = [incident EXCEPT ![z] = v]
        /\ g_level' = [g_level EXCEPT ![z] = fanLevelFromSeverityName(v)]
        /\ doubtful' = doubtful \ {z} /\ db_open' = db_open /\ faults' = faults
    BY <1>4 DEF JudgeKnown, Report, NoFault
  <2> HIDE DEF v
  <2>3. LevelIsIncident'
    BY <1>1, <1>2, <2>2 DEF LevelIsIncident
  <2>4. fanLevelFromSeverityName(v) \in -1 .. 2
    BY <2>1
  <2> QED BY <1>1, <2>1, <2>2, <2>3, <2>4
<1>5. ASSUME NEW reading \in Reading \ {"unknown"}, JudgeInDoubt(z, reading)
      PROVE  /\ incident' \in [Zone -> Severity] /\ g_level' \in [Zone -> -1 .. 2]
             /\ db_open' \in BOOLEAN /\ doubtful' \subseteq Zone
             /\ LevelIsIncident' /\ (faults < MaxFaults /\ faults' = faults + 1)
  <2> DEFINE v == Verdict(incident[z], reading)
  <2>1. v \in Severity
    BY <1>1, Verdicts
  <2>2. /\ incident' = [incident EXCEPT ![z] = v]
        /\ g_level' = g_level /\ doubtful' = doubtful \cup {z} /\ db_open' = FALSE
        /\ faults < MaxFaults /\ faults' = faults + 1
    BY <1>5 DEF JudgeInDoubt, Fault
  <2> HIDE DEF v
  <2>3. LevelIsIncident'
    BY <1>1, <1>2, <2>2 DEF LevelIsIncident
  <2> QED BY <1>1, <2>1, <2>2, <2>3
<1>6. CASE JudgeFails(z)
  <2>1. /\ incident' = incident /\ g_level' = g_level /\ doubtful' = doubtful
    BY <1>6 DEF JudgeFails
  <2>2. db_open' \in BOOLEAN
    BY <1>1, <1>6 DEF JudgeFails
  <2>3. faults' = faults \/ (faults < MaxFaults /\ faults' = faults + 1)
    BY <1>6 DEF JudgeFails, Fault, NoFault
  <2>4. LevelIsIncident'
    BY <2>1, <1>2 DEF LevelIsIncident
  <2> QED BY <1>1, <2>1, <2>2, <2>3, <2>4, FaultAssumption
<1>7. CASE \E reading \in Reading \ {"unknown"} : JudgeKnown(z, reading)
  BY <1>4, <1>7
<1>8. CASE \E reading \in Reading \ {"unknown"} : JudgeInDoubt(z, reading)
  BY <1>5, <1>8, FaultAssumption
<1>9. pollAlert(z) => \/ JudgeUnknown(z) \/ JudgeFails(z)
                      \/ \E reading \in Reading \ {"unknown"} : JudgeKnown(z, reading)
                      \/ \E reading \in Reading \ {"unknown"} : JudgeInDoubt(z, reading)
  BY DEF pollAlert
<1> QED BY <1>3, <1>6, <1>7, <1>8, <1>9

-----------------------------------------------------------------------------
Inv == FanInv /\ AlertInv /\ faults \in 0 .. MaxFaults

(* A step of the other side.                                               *)
LEMMA FanStutters ==
  ASSUME FanInv, UNCHANGED fanvars
  PROVE  FanInv'
  BY DEF fanvars, board, FanInv, FanTypeOK, LedgerLiesOnlyAtRest, FireStopsFan, ShownIsTrue

LEMMA AlertStutters ==
  ASSUME AlertInv, UNCHANGED alertvars
  PROVE  AlertInv'
  BY DEF alertvars, poller, AlertInv, AlertTypeOK, LevelIsIncident

LEMMA PollStep ==
  ASSUME AlertInv, faults \in 0 .. MaxFaults,
         Judge \/ Realert \/ publishFanLevel \/ PollerRestart \/ BrokerRestart
  PROVE  AlertInv' /\ faults' \in 0 .. MaxFaults
<1>1. /\ incident \in [Zone -> Severity] /\ g_level \in [Zone -> -1 .. 2]
      /\ g_sent \in {-2, 0, 1, 2} /\ todo \subseteq Zone /\ db_open \in BOOLEAN
      /\ doubtful \subseteq Zone /\ level_topic \in -1 .. 2
  BY DEF AlertInv, AlertTypeOK
<1>2. CASE Judge
  <2>1. PICK z \in todo : pollAlert(z) /\ todo' = todo \ {z} /\ UNCHANGED <<g_sent, level_topic>>
    BY <1>2 DEF Judge
  <2>2. /\ incident' \in [Zone -> Severity] /\ g_level' \in [Zone -> -1 .. 2]
        /\ db_open' \in BOOLEAN /\ doubtful' \subseteq Zone
        /\ LevelIsIncident' /\ faults' \in 0 .. MaxFaults
    BY <1>1, <2>1, JudgeStep
  <2> QED BY <1>1, <2>1, <2>2 DEF AlertInv, AlertTypeOK
<1>3. CASE Realert
  <2>1. PICK z \in Zone : pollAlert(z) /\ UNCHANGED <<todo, g_sent, level_topic>>
    BY <1>3 DEF Realert
  <2>2. /\ incident' \in [Zone -> Severity] /\ g_level' \in [Zone -> -1 .. 2]
        /\ db_open' \in BOOLEAN /\ doubtful' \subseteq Zone
        /\ LevelIsIncident' /\ faults' \in 0 .. MaxFaults
    BY <1>1, <2>1, JudgeStep
  <2> QED BY <1>1, <2>1, <2>2 DEF AlertInv, AlertTypeOK
<1>4. CASE publishFanLevel
  <2>1. /\ todo' = Zone /\ UNCHANGED <<incident, g_level, db_open, doubtful>>
        /\ Quiet \/ NotDue \/ Send
    BY <1>4 DEF publishFanLevel
  <2>2. worst \in -1 .. 2
    BY <1>1, WorstExists
  <2>3. /\ g_sent' \in {-2, 0, 1, 2} /\ level_topic' \in -1 .. 2 /\ faults' \in 0 .. MaxFaults
    <3>1. CASE Quiet \/ NotDue
      BY <1>1, <3>1 DEF Quiet, NotDue
    <3>2. CASE Send
      <4>1. worst \in {0, 1, 2} /\ g_sent' = worst
        BY <2>2, <3>2 DEF Send
      <4>2. (level_topic' = worst /\ faults' = faults)
            \/ (level_topic' = level_topic /\ faults < MaxFaults /\ faults' = faults + 1)
        BY <3>2 DEF Send, Fault, NoFault
      <4> HIDE DEF worst
      <4> QED BY <1>1, <2>2, <4>1, <4>2, FaultAssumption
    <3> QED BY <2>1, <3>1, <3>2
  <2> QED BY <1>1, <2>1, <2>3 DEF AlertInv, AlertTypeOK, LevelIsIncident
<1>5. CASE PollerRestart
  <2>1. /\ g_level' = [z \in Zone |-> -1] /\ g_sent' = -2 /\ todo' = Zone /\ db_open' = TRUE
        /\ incident' = incident /\ doubtful' = doubtful /\ level_topic' = level_topic
        /\ faults < MaxFaults /\ faults' = faults + 1
    BY <1>5 DEF PollerRestart, Fault
  <2>2. LevelIsIncident'
    BY <2>1 DEF LevelIsIncident
  <2> QED BY <1>1, <2>1, <2>2, FaultAssumption DEF AlertInv, AlertTypeOK
<1>6. CASE BrokerRestart
  <2>1. /\ level_topic' = -1 /\ UNCHANGED <<incident, poller, doubtful>>
        /\ faults < MaxFaults /\ faults' = faults + 1
    BY <1>6 DEF BrokerRestart, Fault
  <2> QED BY <1>1, <2>1, FaultAssumption DEF AlertInv, AlertTypeOK, LevelIsIncident, poller
<1> QED BY <1>2, <1>3, <1>4, <1>5, <1>6

(* A step of the fan's side leaves the budget of faults typed.             *)
LEMMA Budget ==
  ASSUME faults \in 0 .. MaxFaults, Fault \/ NoFault
  PROVE  faults' \in 0 .. MaxFaults
  BY FaultAssumption DEF Fault, NoFault

LEMMA FanSpends ==
  ASSUME \/ \E lv \in Level : set_level(lv)
         \/ \E active \in BOOLEAN : HandleFire(active)
         \/ \E on \in BOOLEAN : HandleAuto(on)
         \/ \E d \in ManualDuty : HandleManual(d)
         \/ Disconnect \/ Connect \/ Restart
  PROVE  Fault \/ NoFault
<1>1. ASSUME NEW a, NEW fire, NEW lv, apply_locked(a, fire, lv) PROVE Fault \/ NoFault
  BY <1>1 DEF apply_locked, nothing_set, rpic_fan_set, Refused
<1>2. ASSUME NEW lv \in Level, set_level(lv) PROVE Fault \/ NoFault
  BY <1>1, <1>2 DEF set_level, NoFault
<1>3. ASSUME NEW active \in BOOLEAN, HandleFire(active) PROVE Fault \/ NoFault
  BY <1>1, <1>3 DEF HandleFire, set_fire, rpic_fan_set, Refused, NoFault
<1>4. ASSUME NEW on \in BOOLEAN, HandleAuto(on) PROVE Fault \/ NoFault
  BY <1>1, <1>4 DEF HandleAuto, set_auto, nothing_set, NoFault
<1>5. ASSUME NEW d \in ManualDuty, HandleManual(d) PROVE Fault \/ NoFault
  BY <1>5 DEF HandleManual, manual, rpic_fan_set, Refused
<1>6. CASE Disconnect \/ Connect \/ Restart
  BY <1>6 DEF Disconnect, Connect, Restart, rpic_fan_set, Refused
<1>7. CASE \E lv \in Level : set_level(lv)
  BY <1>2, <1>7
<1>8. CASE \E active \in BOOLEAN : HandleFire(active)
  BY <1>3, <1>8
<1>9. CASE \E on \in BOOLEAN : HandleAuto(on)
  BY <1>4, <1>9
<1>10. CASE \E d \in ManualDuty : HandleManual(d)
  BY <1>5, <1>10
<1> QED BY <1>6, <1>7, <1>8, <1>9, <1>10

LEMMA InitInv == Init => Inv
<1> SUFFICES ASSUME Init PROVE Inv
  OBVIOUS
<1>1. FanInv
  <2>1. 0 \in Level /\ 0 \in Duty
    BY Numbers DEF Level
  <2>2. shown \in State
    BY <2>1 DEF Init, FanInit, State
  <2>3. FanTypeOK
    BY <2>1, <2>2 DEF Init, FanInit, FanTypeOK
  <2>4. LedgerLiesOnlyAtRest /\ FireStopsFan /\ ShownIsTrue
    BY DEF Init, FanInit, LedgerLiesOnlyAtRest, FireStopsFan, ShownIsTrue
  <2> QED BY <2>3, <2>4 DEF FanInv
<1>2. AlertInv
  BY DEF Init, AlertInit, AlertInv, AlertTypeOK, LevelIsIncident, Severity
<1>3. faults \in 0 .. MaxFaults
  BY FaultAssumption DEF Init
<1> QED BY <1>1, <1>2, <1>3 DEF Inv

LEMMA StepInv == Inv /\ [Next]_vars => Inv'
<1> SUFFICES ASSUME Inv, [Next]_vars PROVE Inv'
  OBVIOUS
<1>1. FanInv /\ AlertInv /\ faults \in 0 .. MaxFaults
  BY DEF Inv
<1>2. CASE Deliver
  <2>1. level_topic \in Level /\ set_level(level_topic) /\ UNCHANGED alertvars
    BY <1>1, <1>2 DEF Deliver, AlertInv, AlertTypeOK, Level
  <2>2. FanInv' /\ AlertInv'
    BY <1>1, <2>1, SetLevel, AlertStutters
  <2>3. faults' \in 0 .. MaxFaults
    BY <1>1, <2>1, FanSpends, Budget
  <2> QED BY <2>2, <2>3 DEF Inv
<1>3. CASE Poll
  <2>1. FanInv'
    BY <1>1, <1>3, FanStutters DEF Poll
  <2>2. AlertInv' /\ faults' \in 0 .. MaxFaults
    BY <1>1, <1>3, PollStep DEF Poll
  <2> QED BY <2>1, <2>2 DEF Inv
<1>4. CASE Broker
  <2>1. FanInv'
    BY <1>1, <1>4, LinkStep DEF Broker
  <2>2. AlertInv' /\ faults' \in 0 .. MaxFaults
    BY <1>1, <1>4, PollStep DEF Broker
  <2> QED BY <2>1, <2>2 DEF Inv
<1>5. CASE Operators
  <2>1. FanInv'
    BY <1>1, <1>5, SetFire, SetAuto, Manual DEF Operators, HandleFire, HandleAuto, HandleManual
  <2>2. AlertInv'
    BY <1>1, <1>5, AlertStutters DEF Operators
  <2>3. faults' \in 0 .. MaxFaults
    BY <1>1, <1>5, FanSpends, Budget DEF Operators
  <2> QED BY <2>1, <2>2, <2>3 DEF Inv
<1>6. CASE Link
  <2>1. FanInv' /\ AlertInv'
    BY <1>1, <1>6, LinkStep, AlertStutters DEF Link
  <2>2. faults' \in 0 .. MaxFaults
    BY <1>1, <1>6, FanSpends, Budget DEF Link
  <2> QED BY <2>1, <2>2 DEF Inv
<1>7. CASE UNCHANGED vars
  BY <1>1, <1>7, FanStutters, AlertStutters DEF vars, Inv
<1> QED BY <1>2, <1>3, <1>4, <1>5, <1>6, <1>7 DEF Next

LEMMA Invariance == Spec => []Inv
<1>1. Init => Inv
  BY InitInv
<1>2. Inv /\ [Next]_vars => Inv'
  BY StepInv
<1> QED BY <1>1, <1>2, PTL DEF Spec

-----------------------------------------------------------------------------
(* Both sides keep their types, whatever the number of zones and faults.   *)
THEOREM VentilationTypes == Spec => []VentilationTypeOK
<1>1. Inv => VentilationTypeOK
  BY DEF Inv, FanInv, AlertInv, VentilationTypeOK
<1> QED BY Invariance, <1>1, PTL

(* fan_control.c, line 24: the recorded duty is the fan's, or 0.           *)
THEOREM LedgerIsTheFan == Spec => []LedgerLiesOnlyAtRest
<1>1. Inv => LedgerLiesOnlyAtRest
  BY DEF Inv, FanInv
<1> QED BY Invariance, <1>1, PTL

(* Fire above AUTO above the operator: the recorded duty is 0 in a fire.   *)
THEOREM NoFanInFire == Spec => []FireStopsFan
<1>1. Inv => FireStopsFan
  BY DEF Inv, FanInv
<1> QED BY Invariance, <1>1, PTL

(* The VMSs see the fan's true state whenever RPi C is connected.          *)
THEOREM StateShown == Spec => []ShownIsTrue
<1>1. Inv => ShownIsTrue
  BY DEF Inv, FanInv
<1> QED BY Invariance, <1>1, PTL

(* The poller's verdict on a zone is its incident, or unknown.             *)
THEOREM VerdictIsIncident == Spec => []LevelIsIncident
<1>1. Inv => LevelIsIncident
  BY DEF Inv, AlertInv
<1> QED BY Invariance, <1>1, PTL

-----------------------------------------------------------------------------
(* The fan has one owner at a time.                                        *)
LEMMA OwnerStep ==
  ASSUME Inv, [Next]_vars
  PROVE  [Owner!Next]_<<owner, applied_duty>>
<1> DEFINE Same == auto_on' = auto_on /\ fire_active' = fire_active /\ applied_duty' = applied_duty
<1>1. /\ FanInv /\ auto_on \in BOOLEAN /\ fire_active \in BOOLEAN /\ level \in Level
      /\ fire_active => applied_duty = 0
  BY DEF Inv, FanInv, FanTypeOK, FireStopsFan
<1>2. Same => UNCHANGED <<owner, applied_duty>>
  BY DEF owner
<1>3. ASSUME NEW lv \in Level, set_level(lv)
      PROVE  [Owner!Next]_<<owner, applied_duty>>
  <2>1. CASE lv = level
    BY <1>2, <1>3, <2>1 DEF set_level, fanvars, board
  <2>2. CASE lv # level
    <3>1. apply_locked(auto_on, fire_active, lv) /\ auto_on' = auto_on /\ fire_active' = fire_active
      BY <1>3, <2>2 DEF set_level
    <3>2. /\ fire_active => applied_duty' = applied_duty
          /\ ~fire_active => applied_duty' \in {40, 75, 90} \cup {applied_duty}
          /\ ~fire_active /\ ~auto_on => applied_duty' = applied_duty
      BY <1>1, <3>1, ApplyLocked
    <3>3. CASE applied_duty' = applied_duty
      BY <1>2, <3>1, <3>3
    <3>4. CASE applied_duty' # applied_duty
      <4>1. owner = "auto" /\ owner' = "auto" /\ applied_duty' \in {40, 75, 90}
        BY <3>1, <3>2, <3>4 DEF owner
      <4> QED BY <4>1 DEF Owner!Next, Owner!Follow
    <3> QED BY <3>3, <3>4
  <2> QED BY <2>1, <2>2
<1>4. ASSUME NEW active \in BOOLEAN, set_fire(active)
      PROVE  [Owner!Next]_<<owner, applied_duty>>
  <2>1. CASE active = fire_active
    BY <1>2, <1>4, <2>1 DEF set_fire, fanvars, board
  <2>2. CASE active /\ ~fire_active
    <3>1. owner # "fire" /\ owner' = "fire" /\ applied_duty' = 0
      BY <1>4, <2>2 DEF set_fire, owner
    <3> QED BY <3>1 DEF Owner!Next, Owner!FireTakes
  <2>3. CASE ~active /\ fire_active
    <3>1. apply_locked(auto_on, FALSE, level) /\ auto_on' = auto_on /\ fire_active' = FALSE
      BY <1>4, <2>3 DEF set_fire
    <3>2. /\ applied_duty' \in {40, 75, 90} \cup {applied_duty}
          /\ ~auto_on => applied_duty' = applied_duty
      BY <1>1, <3>1, ApplyLocked
    <3>3. owner = "fire" /\ owner' = IF auto_on THEN "auto" ELSE "manual"
      BY <2>3, <3>1 DEF owner
    <3> QED BY <3>2, <3>3 DEF Owner!Next, Owner!FireLeavesToOperator, Owner!FireLeavesToAuto
  <2> QED BY <1>1, <2>1, <2>2, <2>3
<1>5. ASSUME NEW on \in BOOLEAN, set_auto(on)
      PROVE  [Owner!Next]_<<owner, applied_duty>>
  <2>1. CASE on = auto_on
    BY <1>2, <1>5, <2>1 DEF set_auto, fanvars, board
  <2>2. CASE on /\ ~auto_on
    <3>1. apply_locked(TRUE, fire_active, level) /\ auto_on' = TRUE /\ fire_active' = fire_active
      BY <1>5, <2>2 DEF set_auto
    <3>2. /\ fire_active => applied_duty' = applied_duty
          /\ ~fire_active => applied_duty' \in {40, 75, 90} \cup {applied_duty}
      BY <1>1, <3>1, ApplyLocked
    <3>3. CASE fire_active
      BY <3>1, <3>2, <3>3 DEF owner
    <3>4. CASE ~fire_active
      <4>1. owner = "manual" /\ owner' = "auto"
        BY <2>2, <3>1, <3>4 DEF owner
      <4> QED BY <3>2, <3>4, <4>1 DEF Owner!Next, Owner!AutoOn
    <3> QED BY <3>3, <3>4
  <2>3. CASE ~on /\ auto_on
    <3>1. applied_duty' = applied_duty /\ auto_on' = FALSE /\ fire_active' = fire_active
      BY <1>5, <2>3 DEF set_auto, nothing_set
    <3> QED BY <2>3, <3>1 DEF owner, Owner!Next, Owner!AutoOff
  <2> QED BY <1>1, <2>1, <2>2, <2>3
<1>6. ASSUME NEW d \in ManualDuty, manual(d)
      PROVE  [Owner!Next]_<<owner, applied_duty>>
  <2>1. owner = "manual" /\ owner' = owner
    BY <1>6 DEF manual, owner
  <2>2. applied_duty' = d \/ applied_duty' = applied_duty
    BY <1>6 DEF manual
  <2>3. d \in Duty
    BY ManualAssumption
  <2> QED BY <2>1, <2>2, <2>3 DEF Owner!Next, Owner!Operate
<1>7. CASE Disconnect \/ Connect \/ UNCHANGED fanvars \/ UNCHANGED <<board, shown>>
  <2>1. Same
    BY <1>7 DEF Disconnect, Connect, fanvars, board
  <2> QED BY <1>2, <2>1
<1>8. CASE Restart
  <2>1. owner' = "manual" /\ applied_duty' = 0
    BY <1>8 DEF Restart, owner
  <2> QED BY <2>1 DEF Owner!Next, Owner!Restart
<1>9. CASE Deliver
  <2>1. level_topic \in Level /\ set_level(level_topic)
    BY <1>9 DEF Deliver, Inv, AlertInv, AlertTypeOK, Level
  <2> QED BY <1>3, <2>1
<1>10. CASE Operators
  BY <1>4, <1>5, <1>6, <1>10 DEF Operators, HandleFire, HandleAuto, HandleManual
<1>11. CASE Poll \/ Broker \/ UNCHANGED vars
  BY <1>7, <1>11 DEF Poll, Broker, vars
<1>12. CASE Link
  BY <1>7, <1>8, <1>12 DEF Link
<1> QED BY <1>9, <1>10, <1>11, <1>12 DEF Next

(* Fire, AUTO and the operator own the fan in turn, whatever the poller,   *)
(* the broker, the driver and the links do.                                *)
THEOREM OneOwner == Spec => IsFanOwner
<1>1. Init => Owner!Init
  BY DEF Init, FanInit, owner, Owner!Init
<1>2. Inv /\ [Next]_vars => [Owner!Next]_<<owner, applied_duty>>
  BY OwnerStep
<1> QED BY Invariance, <1>1, <1>2, PTL DEF Spec, IsFanOwner, Owner!Spec

(* What reaches the broker is the worst incident the poller knows of.      *)
THEOREM WorstIsPublished == Spec => PublishedIsWorst
<1> DEFINE Rule ==
      level_topic' >= 0 /\ level_topic' # level_topic =>
        /\ \A z \in Zone \ doubtful :
             g_level[z] # -1 => level_topic' >= fanLevelFromSeverityName(incident[z])
        /\ doubtful = {} => \E z \in Zone : level_topic' = fanLevelFromSeverityName(incident[z])
<1>1. ASSUME Inv, [Next]_vars PROVE [Rule]_alertvars
  <2>1. SUFFICES ASSUME level_topic' >= 0, level_topic' # level_topic PROVE Rule
    OBVIOUS
  <2>2. publishFanLevel /\ Send
    BY <1>1, <2>1 DEF Next, Deliver, Poll, Broker, Operators, Link, Judge, Realert, PollerRestart,
       BrokerRestart, alertvars, vars, publishFanLevel, Quiet, NotDue
  <2>3. level_topic' = worst /\ worst >= 0
    BY <2>1, <2>2 DEF Send
  <2>4. /\ \E z \in Zone : g_level[z] = worst
        /\ \A z \in Zone : g_level[z] <= worst
    BY <1>1, WorstExists DEF Inv, AlertInv, AlertTypeOK
  <2>5. \A z \in Zone \ doubtful : g_level[z] \in {-1, fanLevelFromSeverityName(incident[z])}
    BY <1>1 DEF Inv, AlertInv, LevelIsIncident
  <2> HIDE DEF worst
  <2> QED BY <2>3, <2>4, <2>5
<1>2. Inv /\ [Next]_vars => [Rule]_alertvars
  BY <1>1
<1> QED BY Invariance, <1>2, PTL DEF Spec, PublishedIsWorst
=============================================================================

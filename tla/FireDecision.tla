---------------------------- MODULE FireDecision ----------------------------
(***************************************************************************)
(* The fire decision state machine of rpib_decision/app/src/decision.c     *)
(* (the rpib_app copy is identical), one machine per zone, one             *)
(* configuration for the whole site that a reload may replace at any time. *)
(*                                                                         *)
(* NORMAL -> FIRE needs n_confirm dangerous cycles in a row.  FIRE ->      *)
(* NORMAL is a person's decision; the machine only counts safe cycles to   *)
(* advise it (DECISION_RECOVER_READY).  A cycle with a dead sensor does    *)
(* not count (freeze) until freeze_relax_cycles have passed and enough     *)
(* weight survives (relaxed).                                              *)
(*                                                                         *)
(* dangerRun, safeRun and lastMsg are history variables: they record what  *)
(* the sensors showed, and no action reads them.                           *)
(***************************************************************************)
EXTENDS Fusion

CONSTANTS
  Zone,            \* the zones of fire_zone
  Readings,        \* the sensor messages that may arrive
  Configs,         \* the rows fire_threshold may hold when it is reloaded
  InitialConfigs,  \* what cfg may be when the process starts feeding
  MaxFreeze,       \* bound: no zone is fed an invalid cycle beyond this count
  MaxRun           \* history counters saturate here

ASSUME ReadingsAssumption == Readings \subseteq SensorMsg
ASSUME ConfigsAssumption ==
  /\ Configs \subseteq FireConfig
  /\ InitialConfigs \subseteq FireConfig
ASSUME BoundsAssumption ==
  /\ MaxFreeze \in Nat
  /\ MaxRun \in Nat
  /\ \A c \in Configs \cup InitialConfigs : c.n_confirm <= MaxRun /\ c.n_recover <= MaxRun
  /\ \A c \in InitialConfigs : c.n_recover > 0

VARIABLES
  zone,        \* decision_zone_t of each zone
  cfg,         \* the running fire_config_t
  dangerRun,   \* history: dangerous cycles in a row while NORMAL
  safeRun,     \* history: judged cycles in a row that were safe, this fire
  lastMsg      \* history: the last message fed to the zone

history == <<dangerRun, safeRun, lastMsg>>
vars    == <<zone, cfg, history>>

NoCause == "none"
NoMsg   == [seq |-> 0, valid |-> {}, raw |-> [ch \in Channel |-> 0]]

DecisionZone ==
  [state : {"NORMAL", "FIRE"}, last_cause : Channel \cup {NoCause},
   last_trigger_seq : Nat, score_hits : Nat, recover_hits : Nat,
   freeze_cycles : Nat, relaxed : BOOLEAN, scored : BOOLEAN]

(* DECISION_ZONE_INIT.  "scored" stands for last_score >= 0.               *)
NewZone ==
  [state |-> "NORMAL", last_cause |-> NoCause, last_trigger_seq |-> 0,
   score_hits |-> 0, recover_hits |-> 0, freeze_cycles |-> 0,
   relaxed |-> FALSE, scored |-> FALSE]

-----------------------------------------------------------------------------
(* The operations on one zone's record d under the configuration c.        *)

Confirmed(d, c, m) ==
  [d EXCEPT !.state = "FIRE", !.last_cause = dominant_cause(c, m),
            !.last_trigger_seq = m.seq, !.score_hits = 0, !.recover_hits = 0,
            !.freeze_cycles = 0, !.relaxed = FALSE, !.scored = TRUE]

(* Slip: a safe cycle does not break the run of hits.                      *)
feed_normal_sticky(d, c, m) ==
  LET hits == IF fire_condition(c, m) THEN d.score_hits + 1 ELSE d.score_hits
  IN  IF hits < c.n_confirm THEN [d EXCEPT !.score_hits = hits, !.scored = TRUE]
      ELSE Confirmed(d, c, m)

feed_normal(d, c, m) ==
  LET hits == IF fire_condition(c, m) THEN d.score_hits + 1 ELSE 0
  IN  IF hits < c.n_confirm THEN [d EXCEPT !.score_hits = hits, !.scored = TRUE]
      ELSE Confirmed(d, c, m)

(* Slip: time alone ends the freeze.                                       *)
FrozenByTime(d, c, m) ==
  ~ AllValid(m) /\ d.freeze_cycles + 1 < c.freeze_relax_cycles

(* A cycle with a dead sensor is not judged before the freeze has lasted   *)
(* freeze_relax_cycles and unless the survivors weigh enough.              *)
Frozen(d, c, m) ==
  /\ ~ AllValid(m)
  /\ \/ d.freeze_cycles + 1 < c.freeze_relax_cycles
     \/ Surviving(c, m) < c.min_valid_weight

(* Slip: the hits from before the freeze survive into relaxed mode.        *)
CarriedHitsStale(d, m) == d.recover_hits

(* The hits carried into a judged cycle: entering relaxed mode drops them. *)
CarriedHits(d, m) == IF AllValid(m) \/ d.relaxed THEN d.recover_hits ELSE 0

CountSafe(d, c, m) ==
  LET hits == IF fire_condition(c, m) THEN 0 ELSE CarriedHits(d, m) + 1
  IN  IF hits > c.n_recover THEN c.n_recover ELSE hits

feed_fire(d, c, m) ==
  LET frozen == IF AllValid(m) THEN 0 ELSE d.freeze_cycles + 1
  IN  IF Frozen(d, c, m)
        THEN [d EXCEPT !.freeze_cycles = frozen, !.scored = FALSE]
        ELSE [d EXCEPT !.freeze_cycles = frozen, !.scored = TRUE,
                       !.relaxed = ~ AllValid(m),
                       !.recover_hits = CountSafe(d, c, m)]

DECISION_FEED(d, c, m) ==
  IF d.state = "NORMAL" THEN feed_normal(d, c, m) ELSE feed_fire(d, c, m)

(* Called on a NORMAL zone it changes nothing.                             *)
DECISION_FORCE_RECOVER(d) ==
  IF d.state # "FIRE" THEN d
  ELSE [d EXCEPT !.state = "NORMAL", !.recover_hits = 0,
                 !.freeze_cycles = 0, !.relaxed = FALSE]

DECISION_RECOVER_READY(d, c) == d.state = "FIRE" /\ d.recover_hits >= c.n_recover

-----------------------------------------------------------------------------
(* The state machine.                                                      *)

Init ==
  /\ zone = [z \in Zone |-> NewZone]
  /\ cfg \in InitialConfigs
  /\ dangerRun = [z \in Zone |-> 0]
  /\ safeRun = [z \in Zone |-> 0]
  /\ lastMsg = [z \in Zone |-> NoMsg]

IsFire(z) == zone[z].state = "FIRE"
Ready(z)  == DECISION_RECOVER_READY(zone[z], cfg)

Capped(n) == IF n < MaxRun THEN n + 1 ELSE MaxRun

(* What an observer at the sensors notes when z is fed m.  A safe run is   *)
(* broken by a judged dangerous cycle, and starts anew when the fire does  *)
(* and when the judging resumes in relaxed mode.                           *)
Observe(z, m) ==
  LET danger == fire_condition(cfg, m)
      normal == ~ IsFire(z)
      judged == zone'[z].scored
      run    == IF zone'[z].relaxed /\ ~ zone[z].relaxed THEN 0 ELSE safeRun[z]
  IN  /\ lastMsg' = [lastMsg EXCEPT ![z] = m]
      /\ dangerRun' = [dangerRun EXCEPT ![z] = IF normal /\ danger THEN Capped(@) ELSE 0]
      /\ safeRun' = [safeRun EXCEPT ![z] = IF normal \/ (judged /\ danger) THEN 0
                                           ELSE IF judged THEN Capped(run) ELSE @]

Feed(z, m) ==
  /\ AllValid(m) \/ zone[z].freeze_cycles < MaxFreeze
  /\ zone' = [zone EXCEPT ![z] = DECISION_FEED(@, cfg, m)]
  /\ Observe(z, m)
  /\ UNCHANGED cfg

ForceRecover(z) ==
  /\ zone[z].state = "FIRE"
  /\ zone' = [zone EXCEPT ![z] = DECISION_FORCE_RECOVER(@)]
  /\ dangerRun' = [dangerRun EXCEPT ![z] = 0]
  /\ UNCHANGED <<cfg, safeRun, lastMsg>>

(* threshold_load_and_apply: a row that fails validation, or a database    *)
(* that does not answer, leaves the running configuration in place.        *)
SetConfig(c) ==
  /\ validate(c)
  /\ cfg' = c
  /\ UNCHANGED <<zone, history>>

Next ==
  \/ \E z \in Zone, m \in Readings : Feed(z, m)
  \/ \E z \in Zone : ForceRecover(z)
  \/ \E c \in Configs : SetConfig(c)

Spec == Init /\ [][Next]_vars

-----------------------------------------------------------------------------
(* Properties.                                                             *)

(* Every field of every zone stays in its type; the counters that no       *)
(* automatic transition resets any more (recover_hits since the automatic  *)
(* recovery was removed, freeze_cycles) stay bounded.                      *)
TypeOK ==
  /\ zone \in [Zone -> DecisionZone]
  /\ cfg \in Configs \cup InitialConfigs
  /\ dangerRun \in [Zone -> 0 .. MaxRun]
  /\ safeRun \in [Zone -> 0 .. MaxRun]
  /\ lastMsg \in [Zone -> Readings \cup {NoMsg}]
  /\ \A z \in Zone : /\ zone[z].recover_hits <= MaxRun
                     /\ zone[z].freeze_cycles <= MaxFreeze

(* A zone goes from NORMAL to FIRE only after n_confirm dangerous cycles   *)
(* in a row, under the n_confirm in force at that moment: neither hits     *)
(* left over from an earlier fire, nor a reload, nor another zone's cycles *)
(* shorten the confirmation.                                               *)
ConfirmedByRun ==
  [][\A z \in Zone : (~ IsFire(z) /\ IsFire(z)') => dangerRun'[z] >= cfg.n_confirm]_vars

(* The recovery advice is never given on fewer than n_recover judged safe  *)
(* cycles since the last judged dangerous one in this fire, and in relaxed *)
(* mode since that mode was entered: observations from before the sensors  *)
(* failed do not count towards it.                                         *)
ReadyEarned == \A z \in Zone : Ready(z) => safeRun[z] >= cfg.n_recover

(* Sensors too light to be trusted (the flame and surface sensors burnt    *)
(* away leaves 0.40) never make the advice appear, however long they stay  *)
(* the only ones: it rises on a fully valid cycle, or on one whose         *)
(* survivors weigh at least min_valid_weight.                              *)
WeakSurvivorsNeverAdvise ==
  [][\A z \in Zone : (~ Ready(z) /\ Ready(z)' /\ cfg' = cfg)
        => \/ AllValid(lastMsg'[z])
           \/ Surviving(cfg, lastMsg'[z]) >= cfg.min_valid_weight]_vars

(* The cause written to fire_event belongs to a sensor that was alive in   *)
(* the confirming cycle, and the trigger_seq written with it is that       *)
(* cycle's: an invalid channel is never blamed, as long as the rows of     *)
(* thresholds want evidence (EvidenceCounts of FireDecisionProofs).        *)
CauseIsAlive ==
  [][\A z \in Zone : (~ IsFire(z) /\ IsFire(z)')
        => /\ SensorOf(zone'[z].last_cause) \in lastMsg'[z].valid
           /\ zone'[z].last_trigger_seq = lastMsg'[z].seq]_vars

-----------------------------------------------------------------------------
(* The inductive strengthening of the two run properties.                  *)
HitsAreARun ==
  \A z \in Zone :
    /\ IsFire(z) => zone[z].score_hits = 0 /\ zone[z].recover_hits <= safeRun[z]
    /\ ~ IsFire(z) => zone[z].score_hits <= dangerRun[z]
    /\ zone[z].score_hits <= MaxRun

IInv == TypeOK /\ HitsAreARun /\ cfg.n_recover > 0
=============================================================================

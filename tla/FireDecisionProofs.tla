------------------------- MODULE FireDecisionProofs -------------------------
(***************************************************************************)
(* Proofs about the decision machine, for every set of zones, readings and *)
(* configurations.  Up to the last part fire_condition and Surviving are   *)
(* not expanded: nothing there depends on the fusion arithmetic.           *)
(***************************************************************************)
EXTENDS FireDecision, TLAPS

(* The loop of dominant_cause always ends on one of the five channels.     *)
LEMMA CauseIsAChannel ==
  ASSUME NEW c, NEW m
  PROVE  dominant_cause(c, m) \in Channel
BY DEF dominant_cause, Channel

(* The weight that survives is a number whatever the message.              *)
LEMMA SurvivingIsANumber ==
  ASSUME NEW c \in FireConfig, NEW m
  PROVE  Surviving(c, m) \in Int
BY DEF Surviving, SumOver, ValidWeight, FireConfig, Channel

(* Feeding a zone keeps its record well typed.                             *)
LEMMA FeedKeepsType ==
  ASSUME NEW d \in DecisionZone, NEW c \in FireConfig, NEW m \in SensorMsg
  PROVE  DECISION_FEED(d, c, m) \in DecisionZone
<1>1. CASE d.state = "NORMAL"
  <2>1. Confirmed(d, c, m) \in DecisionZone
    BY CauseIsAChannel DEF Confirmed, DecisionZone, SensorMsg
  <2>2. feed_normal(d, c, m) \in DecisionZone
    <3>. DEFINE hits == IF fire_condition(c, m) THEN d.score_hits + 1 ELSE 0
    <3>1. hits \in Nat
      BY DEF DecisionZone
    <3>. HIDE DEF hits
    <3>2. [d EXCEPT !.score_hits = hits, !.scored = TRUE] \in DecisionZone
      BY <3>1 DEF DecisionZone
    <3>3. feed_normal(d, c, m) = IF hits < c.n_confirm
                                   THEN [d EXCEPT !.score_hits = hits, !.scored = TRUE]
                                   ELSE Confirmed(d, c, m)
      BY DEF feed_normal, hits
    <3>. QED  BY <2>1, <3>2, <3>3
  <2>. QED  BY <1>1, <2>2 DEF DECISION_FEED
<1>2. CASE d.state # "NORMAL"
  <2>1. CountSafe(d, c, m) \in Nat
    BY DEF CountSafe, CarriedHits, DecisionZone, FireConfig
  <2>2. feed_fire(d, c, m) \in DecisionZone
    <3>. DEFINE frozen == IF AllValid(m) THEN 0 ELSE d.freeze_cycles + 1
    <3>1. frozen \in Nat /\ (~ AllValid(m)) \in BOOLEAN
      BY DEF DecisionZone, AllValid
    <3>. HIDE DEF frozen
    <3>2. [d EXCEPT !.freeze_cycles = frozen, !.scored = FALSE] \in DecisionZone
      BY <3>1 DEF DecisionZone
    <3>3. [d EXCEPT !.freeze_cycles = frozen, !.scored = TRUE, !.relaxed = ~ AllValid(m),
                    !.recover_hits = CountSafe(d, c, m)] \in DecisionZone
      BY <2>1, <3>1 DEF DecisionZone
    <3>4. \/ feed_fire(d, c, m) = [d EXCEPT !.freeze_cycles = frozen, !.scored = FALSE]
          \/ feed_fire(d, c, m) = [d EXCEPT !.freeze_cycles = frozen, !.scored = TRUE,
                    !.relaxed = ~ AllValid(m), !.recover_hits = CountSafe(d, c, m)]
      BY DEF feed_fire, frozen
    <3>. QED  BY <3>2, <3>3, <3>4
  <2>. QED  BY <1>2, <2>2 DEF DECISION_FEED
<1>. QED  BY <1>1, <1>2

(* A manual recovery keeps the record well typed.                          *)
LEMMA RecoverKeepsType ==
  ASSUME NEW d \in DecisionZone
  PROVE  DECISION_FORCE_RECOVER(d) \in DecisionZone
BY DEF DECISION_FORCE_RECOVER, DecisionZone

(* The effect of a cycle on a NORMAL zone: the run of hits is extended or  *)
(* broken, and only a run of n_confirm ends in FIRE, with all counters 0.  *)
LEMMA FeedNormalEffect ==
  ASSUME NEW d \in DecisionZone, NEW c \in FireConfig, NEW m \in SensorMsg,
         d.state = "NORMAL"
  PROVE  LET e    == DECISION_FEED(d, c, m)
             hits == IF fire_condition(c, m) THEN d.score_hits + 1 ELSE 0
         IN  \/ /\ e.state = "NORMAL"  /\ e.score_hits = hits
                /\ hits < c.n_confirm   /\ e.freeze_cycles = d.freeze_cycles
                /\ e.recover_hits = d.recover_hits
             \/ /\ e.state = "FIRE"    /\ e.score_hits = 0
                /\ hits >= c.n_confirm  /\ e.freeze_cycles = 0
                /\ e.recover_hits = 0
<1>. DEFINE hits == IF fire_condition(c, m) THEN d.score_hits + 1 ELSE 0
<1>1. hits \in Nat
  BY DEF DecisionZone
<1>. HIDE DEF hits
<1>2. DECISION_FEED(d, c, m) = IF hits < c.n_confirm
                                 THEN [d EXCEPT !.score_hits = hits, !.scored = TRUE]
                                 ELSE Confirmed(d, c, m)
  BY DEF DECISION_FEED, feed_normal, hits
<1>3. c.n_confirm \in Nat
  BY DEF FireConfig
<1>4. CASE hits < c.n_confirm
  BY <1>1, <1>2, <1>4 DEF DecisionZone, hits
<1>5. CASE ~ (hits < c.n_confirm)
  <2>1. hits >= c.n_confirm
    BY <1>1, <1>3, <1>5
  <2>. QED  BY <1>2, <1>5, <2>1 DEF DecisionZone, Confirmed, hits
<1>. QED  BY <1>4, <1>5

(* The effect of a cycle on a burning zone: it keeps burning, and its      *)
(* recover_hits stand still (frozen), or restart from 0 on danger, or grow *)
(* by at most one and never past n_recover; entering relaxed mode drops    *)
(* the older hits.                                                         *)
LEMMA FeedFireEffect ==
  ASSUME NEW d \in DecisionZone, NEW c \in FireConfig, NEW m \in SensorMsg,
         d.state = "FIRE"
  PROVE  LET e == DECISION_FEED(d, c, m)
         IN  /\ e.state = "FIRE"
             /\ e.score_hits = d.score_hits
             /\ e.freeze_cycles = IF AllValid(m) THEN 0 ELSE d.freeze_cycles + 1
             /\ e.scored /\ e.relaxed /\ ~ d.relaxed => e.recover_hits <= 1
             /\ \/ ~ e.scored /\ e.recover_hits = d.recover_hits
                \/ /\ e.scored
                   /\ AllValid(m) \/ Surviving(c, m) >= c.min_valid_weight
                   /\ e.recover_hits <= c.n_recover
                   /\ \/ fire_condition(c, m) /\ e.recover_hits = 0
                      \/ ~ fire_condition(c, m) /\ e.recover_hits <= d.recover_hits + 1
<1>. DEFINE frozen == IF AllValid(m) THEN 0 ELSE d.freeze_cycles + 1
<1>1. DECISION_FEED(d, c, m) =
        IF Frozen(d, c, m)
          THEN [d EXCEPT !.freeze_cycles = frozen, !.scored = FALSE]
          ELSE [d EXCEPT !.freeze_cycles = frozen, !.scored = TRUE,
                         !.relaxed = ~ AllValid(m),
                         !.recover_hits = CountSafe(d, c, m)]
  BY DEF DECISION_FEED, feed_fire
<1>2. CASE Frozen(d, c, m)
  BY <1>1, <1>2 DEF DecisionZone
<1>3. CASE ~ Frozen(d, c, m)
  <2>1. AllValid(m) \/ Surviving(c, m) >= c.min_valid_weight
    <3>1. Surviving(c, m) \in Int /\ c.min_valid_weight \in Int
      BY SurvivingIsANumber DEF FireConfig, Percent
    <3>. QED  BY <1>3, <3>1 DEF Frozen
  <2>2. CountSafe(d, c, m) <= c.n_recover /\ CountSafe(d, c, m) \in Nat
    BY DEF CountSafe, CarriedHits, DecisionZone, FireConfig
  <2>3. ~ fire_condition(c, m) => CountSafe(d, c, m) <= d.recover_hits + 1
    BY DEF CountSafe, CarriedHits, DecisionZone, FireConfig
  <2>4. fire_condition(c, m) => CountSafe(d, c, m) = 0
    BY DEF CountSafe, FireConfig
  <2>5. ~ AllValid(m) /\ ~ d.relaxed => CountSafe(d, c, m) <= 1
    BY DEF CountSafe, CarriedHits, FireConfig
  <2>. QED  BY <1>1, <1>3, <2>1, <2>2, <2>3, <2>4, <2>5 DEF DecisionZone
<1>. QED  BY <1>2, <1>3
-----------------------------------------------------------------------------

(* The numbers kept by the machine and by its observer stay in their       *)
(* types, and the hits never exceed the runs the sensors really showed.    *)
LEMMA InitEstablishesIInv == Init => IInv
<1>. SUFFICES ASSUME Init PROVE IInv
  OBVIOUS
<1>1. NewZone \in DecisionZone
  BY DEF NewZone, DecisionZone
<1>2. TypeOK
  BY <1>1, BoundsAssumption DEF Init, TypeOK, NewZone, NoMsg
<1>3. HitsAreARun
  BY BoundsAssumption DEF Init, HitsAreARun, IsFire, NewZone
<1>. QED  BY <1>2, <1>3, BoundsAssumption DEF Init, IInv

LEMMA NextKeepsIInv == IInv /\ [Next]_vars => IInv'
<1>. SUFFICES ASSUME IInv, [Next]_vars PROVE IInv'
  OBVIOUS
<1>. USE DEF IInv
<1>0. cfg \in FireConfig /\ cfg.n_confirm <= MaxRun /\ cfg.n_recover <= MaxRun
  BY ConfigsAssumption, BoundsAssumption DEF TypeOK
<1>1. ASSUME NEW z \in Zone, NEW m \in Readings, Feed(z, m)
      PROVE  IInv'
  <2>. DEFINE d == zone[z]  e == DECISION_FEED(d, cfg, m)
  <2>1. d \in DecisionZone /\ m \in SensorMsg
    BY ReadingsAssumption DEF TypeOK
  <2>2. e \in DecisionZone
    BY <1>0, <2>1, FeedKeepsType
  <2>3. zone' = [zone EXCEPT ![z] = e] /\ cfg' = cfg
    BY <1>1 DEF Feed
  <2>4. zone' \in [Zone -> DecisionZone] /\ zone'[z] = e
    BY <2>2, <2>3 DEF TypeOK
  <2>5. /\ dangerRun' \in [Zone -> 0 .. MaxRun]
        /\ safeRun' \in [Zone -> 0 .. MaxRun]
        /\ lastMsg' \in [Zone -> Readings \cup {NoMsg}]
    BY <1>1, BoundsAssumption DEF TypeOK, Feed, Observe, Capped
  <2>6. e.recover_hits <= MaxRun /\ e.freeze_cycles <= MaxFreeze
    <3>1. d.recover_hits <= MaxRun /\ d.freeze_cycles <= MaxFreeze
      BY DEF TypeOK
    <3>2. AllValid(m) \/ d.freeze_cycles < MaxFreeze
      BY <1>1 DEF Feed
    <3>3. CASE d.state = "NORMAL"
      BY <1>0, <2>1, <3>1, <3>3, FeedNormalEffect, BoundsAssumption
    <3>4. CASE d.state = "FIRE"
      <4>1. e.freeze_cycles = IF AllValid(m) THEN 0 ELSE d.freeze_cycles + 1
        BY <1>0, <2>1, <3>4, FeedFireEffect
      <4>2. e.recover_hits = d.recover_hits \/ e.recover_hits <= cfg.n_recover
        BY <1>0, <2>1, <3>4, FeedFireEffect
      <4>3. e.freeze_cycles <= MaxFreeze
        BY <2>1, <3>2, <4>1, BoundsAssumption DEF DecisionZone
      <4>4. e.recover_hits <= MaxRun
        BY <1>0, <2>1, <2>2, <3>1, <4>2, BoundsAssumption DEF DecisionZone, FireConfig
      <4>. QED  BY <4>3, <4>4
    <3>. QED  BY <2>1, <3>3, <3>4 DEF DecisionZone
  <2>7. /\ e.state = "FIRE" => e.score_hits = 0 /\ e.recover_hits <= safeRun'[z]
        /\ e.state # "FIRE" => e.score_hits <= dangerRun'[z]
        /\ e.score_hits <= MaxRun
    <3>1. dangerRun[z] \in 0 .. MaxRun /\ safeRun[z] \in 0 .. MaxRun
      BY DEF TypeOK
    <3>2. CASE d.state = "NORMAL"
      <4>1. d.score_hits <= dangerRun[z]
        BY <3>2 DEF HitsAreARun, IsFire
      <4>2. /\ dangerRun'[z] = IF fire_condition(cfg, m) THEN Capped(dangerRun[z]) ELSE 0
            /\ safeRun'[z] = 0
        BY <1>1, <3>2 DEF Feed, Observe, IsFire, TypeOK
      <4>. QED  BY <1>0, <2>1, <3>1, <3>2, <4>1, <4>2, FeedNormalEffect, BoundsAssumption
                DEF Capped, DecisionZone, FireConfig
    <3>3. CASE d.state = "FIRE"
      <4>1. d.score_hits = 0 /\ d.recover_hits <= safeRun[z]
        BY <3>3 DEF HitsAreARun, IsFire
      <4>. DEFINE run == IF e.relaxed /\ ~ d.relaxed THEN 0 ELSE safeRun[z]
      <4>2. safeRun'[z] = IF e.scored /\ fire_condition(cfg, m) THEN 0
                          ELSE IF e.scored THEN Capped(run) ELSE safeRun[z]
        BY <1>1, <2>4, <3>3 DEF Feed, Observe, IsFire, TypeOK
      <4>. QED  BY <1>0, <2>1, <2>2, <3>1, <3>3, <4>1, <4>2, FeedFireEffect, BoundsAssumption
                DEF Capped, DecisionZone, FireConfig
    <3>. QED  BY <2>1, <3>2, <3>3 DEF DecisionZone
  <2>8. \A y \in Zone \ {z} : /\ zone'[y] = zone[y]
                              /\ dangerRun'[y] = dangerRun[y]
                              /\ safeRun'[y] = safeRun[y]
    BY <2>3, <1>1 DEF TypeOK, Feed, Observe
  <2>9. TypeOK'
    BY <2>3, <2>4, <2>5, <2>6, <2>8 DEF TypeOK
  <2>10. HitsAreARun'
    BY <2>3, <2>4, <2>7, <2>8 DEF HitsAreARun, IsFire
  <2>. QED  BY <2>3, <2>9, <2>10
<1>2. ASSUME NEW z \in Zone, ForceRecover(z)
      PROVE  IInv'
  <2>1. zone[z] \in DecisionZone /\ zone[z].state = "FIRE"
    BY <1>2 DEF TypeOK, ForceRecover
  <2>2. DECISION_FORCE_RECOVER(zone[z]) = [zone[z] EXCEPT !.state = "NORMAL",
              !.recover_hits = 0, !.freeze_cycles = 0, !.relaxed = FALSE]
    BY <2>1 DEF DECISION_FORCE_RECOVER
  <2>3. DECISION_FORCE_RECOVER(zone[z]) \in DecisionZone
    BY <2>1, RecoverKeepsType
  <2>4. TypeOK'
    BY <1>2, <2>2, <2>3, <2>1, BoundsAssumption DEF TypeOK, ForceRecover, DecisionZone
  <2>5. HitsAreARun'
    BY <1>2, <2>2, <2>1, BoundsAssumption DEF HitsAreARun, TypeOK, IsFire, ForceRecover, DecisionZone
  <2>. QED  BY <1>2, <2>4, <2>5 DEF ForceRecover
<1>3. ASSUME NEW c \in Configs, SetConfig(c)
      PROVE  IInv'
  <2>1. c.n_recover > 0
    BY <1>3 DEF SetConfig, validate
  <2>2. TypeOK' /\ HitsAreARun'
    BY <1>3 DEF SetConfig, history, TypeOK, HitsAreARun, IsFire
  <2>. QED  BY <1>3, <2>1, <2>2 DEF SetConfig
<1>4. CASE UNCHANGED vars
  BY <1>4 DEF vars, history, TypeOK, HitsAreARun, IsFire
<1>. QED  BY <1>1, <1>2, <1>3, <1>4 DEF Next
-----------------------------------------------------------------------------

(* IInv is an invariant of the machine.                                    *)
LEMMA Invariance == Spec => []IInv
BY InitEstablishesIInv, NextKeepsIInv, PTL DEF Spec

(* Type correctness, with the bounds on the two counters that no automatic *)
(* transition resets.                                                      *)
THEOREM TypeCorrect == Spec => []TypeOK
BY Invariance, PTL DEF IInv

(* The recovery advice is always earned by n_recover judged safe cycles.   *)
THEOREM AdviceIsEarned == Spec => []ReadyEarned
<1>1. IInv => ReadyEarned
  <2>. SUFFICES ASSUME IInv, NEW z \in Zone, Ready(z)
                PROVE  safeRun[z] >= cfg.n_recover
    BY DEF ReadyEarned
  <2>1. cfg \in FireConfig
    BY ConfigsAssumption DEF IInv, TypeOK
  <2>2. zone[z] \in DecisionZone /\ safeRun[z] \in Nat
    BY BoundsAssumption DEF IInv, TypeOK
  <2>3. zone[z].recover_hits >= cfg.n_recover /\ zone[z].recover_hits <= safeRun[z]
    BY DEF IInv, HitsAreARun, Ready, IsFire, DECISION_RECOVER_READY
  <2>. QED  BY <2>1, <2>2, <2>3 DEF FireConfig, DecisionZone
<1>. QED  BY <1>1, Invariance, PTL

(* Only a cycle of its own sets a zone on fire.                            *)
LEMMA OnlyFeedingConfirms ==
  ASSUME IInv, Next, NEW z \in Zone, ~ IsFire(z), IsFire(z)'
  PROVE  \E m \in Readings : Feed(z, m)
<1>1. ASSUME NEW y \in Zone, NEW m \in Readings, Feed(y, m)
      PROVE  y = z
  BY <1>1 DEF Feed, IInv, TypeOK, IsFire
<1>2. ASSUME NEW y \in Zone, ForceRecover(y)
      PROVE  FALSE
  <2>1. CASE y = z
    BY <1>2, <2>1 DEF ForceRecover, IsFire
  <2>2. CASE y # z
    BY <1>2, <2>2 DEF ForceRecover, IsFire, IInv, TypeOK
  <2>. QED  BY <2>1, <2>2
<1>3. ASSUME NEW c \in Configs, SetConfig(c)
      PROVE  FALSE
  BY <1>3 DEF SetConfig, IsFire
<1>. QED  BY <1>1, <1>2, <1>3 DEF Next

(* A fire is confirmed only by n_confirm dangerous cycles in a row.        *)
THEOREM FireIsConfirmed == Spec => ConfirmedByRun
<1>1. IInv /\ [Next]_vars =>
        [\A z \in Zone : (~ IsFire(z) /\ IsFire(z)') => dangerRun'[z] >= cfg.n_confirm]_vars
  <2>. SUFFICES ASSUME IInv, Next, NEW z \in Zone, ~ IsFire(z), IsFire(z)'
                PROVE  dangerRun'[z] >= cfg.n_confirm
    OBVIOUS
  <2>1. PICK m \in Readings : Feed(z, m)
    BY OnlyFeedingConfirms
  <2>. DEFINE d == zone[z]  e == DECISION_FEED(d, cfg, m)
  <2>2. d \in DecisionZone /\ m \in SensorMsg /\ d.state = "NORMAL"
    BY ReadingsAssumption DEF IInv, TypeOK, DecisionZone, IsFire
  <2>3. cfg \in FireConfig /\ cfg.n_confirm <= MaxRun
    BY ConfigsAssumption, BoundsAssumption DEF IInv, TypeOK
  <2>4. e.state = "FIRE"
    BY <2>1 DEF Feed, IInv, TypeOK, IsFire
  <2>5. d.score_hits <= dangerRun[z] /\ dangerRun[z] \in 0 .. MaxRun
    BY DEF IInv, HitsAreARun, TypeOK
  <2>6. dangerRun'[z] = IF fire_condition(cfg, m) THEN Capped(dangerRun[z]) ELSE 0
    BY <2>1, <2>2 DEF Feed, Observe, IsFire, IInv, TypeOK
  <2>. QED  BY <2>2, <2>3, <2>4, <2>5, <2>6, FeedNormalEffect, BoundsAssumption
            DEF Capped, DecisionZone, FireConfig
<1>. QED  BY <1>1, Invariance, PTL DEF Spec, ConfirmedByRun

(* The advice never appears on the word of survivors that are too light.   *)
THEOREM WeakSurvivorsAreIgnored == Spec => WeakSurvivorsNeverAdvise
<1>. DEFINE Rises(z) == ~ Ready(z) /\ Ready(z)' /\ cfg' = cfg
            Trusted(z) == \/ AllValid(lastMsg'[z])
                          \/ Surviving(cfg, lastMsg'[z]) >= cfg.min_valid_weight
<1>1. IInv /\ [Next]_vars => [\A z \in Zone : Rises(z) => Trusted(z)]_vars
  <2>. SUFFICES ASSUME IInv, Next, NEW z \in Zone, Rises(z)
                PROVE  Trusted(z)
    OBVIOUS
  <2>1. PICK m \in Readings : Feed(z, m)
    <3>1. ASSUME NEW y \in Zone, NEW m \in Readings, Feed(y, m)
          PROVE  y = z
      BY <3>1 DEF Feed, IInv, TypeOK, Ready
    <3>2. ASSUME NEW y \in Zone, ForceRecover(y)
          PROVE  FALSE
      <4>1. CASE y = z
        <5>1. zone[z] \in DecisionZone
          BY DEF IInv, TypeOK
        <5>2. zone'[z].state = "NORMAL"
          BY <3>2, <4>1, <5>1 DEF ForceRecover, DECISION_FORCE_RECOVER, IInv, TypeOK, DecisionZone
        <5>. QED  BY <5>2 DEF Ready, DECISION_RECOVER_READY
      <4>2. CASE y # z
        BY <3>2, <4>2 DEF ForceRecover, Ready, IInv, TypeOK
      <4>. QED  BY <4>1, <4>2
    <3>3. ASSUME NEW c \in Configs, SetConfig(c)
          PROVE  FALSE
      BY <3>3 DEF SetConfig, Ready
    <3>. QED  BY <3>1, <3>2, <3>3 DEF Next
  <2>. DEFINE d == zone[z]  e == DECISION_FEED(d, cfg, m)
  <2>2. d \in DecisionZone /\ m \in SensorMsg /\ cfg \in FireConfig /\ cfg.n_recover > 0
    BY ReadingsAssumption, ConfigsAssumption DEF IInv, TypeOK
  <2>3. zone'[z] = e /\ lastMsg'[z] = m
    BY <2>1 DEF Feed, Observe, IInv, TypeOK
  <2>4. e.state = "FIRE" /\ e.recover_hits >= cfg.n_recover
    BY <2>3 DEF Ready, DECISION_RECOVER_READY
  <2>5. CASE d.state = "NORMAL"
    <3>1. e.recover_hits = 0
      BY <2>2, <2>4, <2>5, FeedNormalEffect
    <3>. QED  BY <2>2, <2>4, <3>1 DEF FireConfig
  <2>6. CASE d.state = "FIRE"
    <3>1. e.recover_hits # d.recover_hits
      BY <2>2, <2>4, <2>6 DEF Ready, DECISION_RECOVER_READY
    <3>. QED  BY <2>2, <2>3, <2>6, <3>1, FeedFireEffect
  <2>. QED  BY <2>2, <2>5, <2>6 DEF DecisionZone
<1>. QED  BY <1>1, Invariance, PTL DEF Spec, WeakSurvivorsNeverAdvise

-----------------------------------------------------------------------------
(* Evidence and blame: here the fusion arithmetic does matter.             *)

(* No configuration that may run calls a cycle dangerous without evidence. *)
(* The first line is what validate requires of a row; the rest it and the  *)
(* CHECKs of fire_threshold leave to whoever writes the row: with a        *)
(* threshold of 0, say, n_confirm cycles of dead sensors are a fire, and   *)
(* the gas sensor its cause.                                               *)
EvidenceCounts(c) ==
  /\ c.n_confirm > 0 /\ c.min_valid_weight > 0
  /\ c.fire_score_threshold > 0
  /\ \/ c.override_spark_score > 0 /\ c.weight["spark"] > 0
     \/ c.override_irtemp_score > 0 /\ c.weight["irtemp"] > 0

LEMMA ScoreIsANumber ==
  ASSUME NEW c \in FireConfig, NEW m \in SensorMsg, NEW ch \in Channel
  PROVE  Score(c, m, ch) \in Int
<1>1. m.raw[ch] \in Int /\ c.from[ch] \in Int /\ c.to[ch] \in Int
  BY DEF FireConfig, SensorMsg
<1>2. ASSUME NEW a \in Int, NEW b \in Int, b > 0
      PROVE  a \div b \in Int
  BY <1>2
<1>3. ASSUME NEW v \in Int, NEW lo \in Int, NEW hi \in Int
      PROVE  fuzzify_asc(v, lo, hi) \in Int /\ fuzzify_desc(v, lo, hi) \in Int
  <2>1. fuzzify_asc(v, lo, hi) \in Int
    <3>1. CASE lo < v /\ v < hi
      <4>1. (v - lo) * 100 \in Int /\ hi - lo \in Int /\ hi - lo > 0
        BY <3>1
      <4>2. ((v - lo) * 100) \div (hi - lo) \in Int
        BY <1>2, <4>1
      <4>. QED  BY <3>1, <4>2 DEF fuzzify_asc
    <3>2. CASE ~ (lo < v /\ v < hi)
      BY <3>2 DEF fuzzify_asc
    <3>. QED  BY <3>1, <3>2
  <2>2. fuzzify_desc(v, lo, hi) \in Int
    <3>1. CASE hi < v /\ v < lo
      <4>1. (lo - v) * 100 \in Int /\ lo - hi \in Int /\ lo - hi > 0
        BY <3>1
      <4>2. ((lo - v) * 100) \div (lo - hi) \in Int
        BY <1>2, <4>1
      <4>. QED  BY <3>1, <4>2 DEF fuzzify_desc
    <3>2. CASE ~ (hi < v /\ v < lo)
      BY <3>2 DEF fuzzify_desc
    <3>. QED  BY <3>1, <3>2
  <2>. QED  BY <2>1, <2>2
<1>4. /\ fuzzify_asc(m.raw[ch], c.from[ch], c.to[ch]) \in Int
      /\ fuzzify_desc(m.raw[ch], c.from[ch], c.to[ch]) \in Int
  BY <1>1, <1>3
<1>. QED  BY <1>4 DEF Score

(* A product of what is not positive with a weight is not positive.        *)
LEMMA Products ==
  /\ \A x \in Int, w \in Nat : x * w \in Int /\ (x > 0 /\ w > 0 => x * w > 0)
  /\ \A w \in Nat : 0 * w = 0
OBVIOUS

LEMMA ContributionFacts ==
  ASSUME NEW c \in FireConfig, NEW m \in SensorMsg, NEW ch \in Channel
  PROVE  /\ Contribution(c, m, ch) \in Int
         /\ Contribution(c, m, ch) > 0 => SensorOf(ch) \in m.valid
<1>1. Score(c, m, ch) \in Int /\ c.weight[ch] \in Nat
  BY ScoreIsANumber DEF FireConfig
<1>2. Contribution(c, m, ch) \in Int
  BY <1>1, Products DEF Contribution
<1>3. ASSUME SensorOf(ch) \notin m.valid
      PROVE  Contribution(c, m, ch) = 0
  <2>1. Score(c, m, ch) = 0
    BY <1>3 DEF Score, ch_valid
  <2>. QED  BY <1>1, <2>1, Products DEF Contribution
<1>. QED  BY <1>2, <1>3

(* The loop of dominant_cause ends on a channel nobody contributes more    *)
(* than.                                                                   *)
LEMMA DominantContributesMost ==
  ASSUME NEW c \in FireConfig, NEW m \in SensorMsg, NEW ch \in Channel
  PROVE  Contribution(c, m, dominant_cause(c, m)) >= Contribution(c, m, ch)
<1>. DEFINE Better(a, b) == IF Contribution(c, m, b) > Contribution(c, m, a) THEN b ELSE a
            b1 == Better("gas", "spark")
            b2 == Better(b1, "temp")
            b3 == Better(b2, "humi")
            b4 == Better(b3, "irtemp")
<1>1. \A a \in Channel : Contribution(c, m, a) \in Int
  BY ContributionFacts
<1>2. ASSUME NEW a \in Channel, NEW b \in Channel
      PROVE  /\ Better(a, b) \in Channel
             /\ Contribution(c, m, Better(a, b)) >= Contribution(c, m, a)
             /\ Contribution(c, m, Better(a, b)) >= Contribution(c, m, b)
  BY <1>1
<1>3. {"gas", "spark", "temp", "humi", "irtemp"} = Channel
  BY DEF Channel
<1>4. dominant_cause(c, m) = b4
  BY DEF dominant_cause
<1>. HIDE DEF Better
<1>5. /\ b1 \in Channel
      /\ Contribution(c, m, b1) >= Contribution(c, m, "gas")
      /\ Contribution(c, m, b1) >= Contribution(c, m, "spark")
  BY <1>2, <1>3
<1>. HIDE DEF b1
<1>6. /\ b2 \in Channel
      /\ Contribution(c, m, b2) >= Contribution(c, m, b1)
      /\ Contribution(c, m, b2) >= Contribution(c, m, "temp")
  BY <1>2, <1>3, <1>5
<1>. HIDE DEF b2
<1>7. /\ b3 \in Channel
      /\ Contribution(c, m, b3) >= Contribution(c, m, b2)
      /\ Contribution(c, m, b3) >= Contribution(c, m, "humi")
  BY <1>2, <1>3, <1>6
<1>. HIDE DEF b3
<1>8. /\ b4 \in Channel
      /\ Contribution(c, m, b4) >= Contribution(c, m, b3)
      /\ Contribution(c, m, b4) >= Contribution(c, m, "irtemp")
  BY <1>2, <1>3, <1>7
<1>. HIDE DEF b4
<1>. QED  BY <1>1, <1>3, <1>4, <1>5, <1>6, <1>7, <1>8

(* A dangerous cycle has a live channel that contributes to it.            *)
LEMMA DangerHasEvidence ==
  ASSUME NEW c \in FireConfig, NEW m \in SensorMsg, EvidenceCounts(c), fire_condition(c, m)
  PROVE  \E ch \in Channel : Contribution(c, m, ch) > 0
<1>1. CASE cross_confirm(c, m)
  <2>1. "spark" \in Channel /\ "irtemp" \in Channel
    BY DEF Channel
  <2>2. /\ Score(c, m, "spark") \in Int /\ Score(c, m, "irtemp") \in Int
        /\ c.weight["spark"] \in Nat /\ c.weight["irtemp"] \in Nat
        /\ c.override_spark_score \in Int /\ c.override_irtemp_score \in Int
    BY <2>1, ScoreIsANumber DEF FireConfig, Percent
  <2>3. CASE c.override_spark_score > 0 /\ c.weight["spark"] > 0
    <3>1. Score(c, m, "spark") > 0
      BY <1>1, <2>2, <2>3 DEF cross_confirm
    <3>2. Contribution(c, m, "spark") > 0
      BY <2>2, <2>3, <3>1, Products DEF Contribution
    <3>. QED  BY <2>1, <3>2
  <2>4. CASE c.override_irtemp_score > 0 /\ c.weight["irtemp"] > 0
    <3>1. Score(c, m, "irtemp") > 0
      BY <1>1, <2>2, <2>4 DEF cross_confirm
    <3>2. Contribution(c, m, "irtemp") > 0
      BY <2>2, <2>4, <3>1, Products DEF Contribution
    <3>. QED  BY <2>1, <3>2
  <2>. QED  BY <2>3, <2>4 DEF EvidenceCounts
<1>2. CASE Weighted(c, m) >= c.fire_score_threshold * Denominator(c, m)
  <2>1. Denominator(c, m) \in Nat /\ Denominator(c, m) > 0
    <3>1. Surviving(c, m) \in Int /\ c.min_valid_weight \in Int /\ c.min_valid_weight > 0
      BY SurvivingIsANumber DEF FireConfig, Percent, EvidenceCounts
    <3>. QED  BY <3>1 DEF Denominator
  <2>2. c.fire_score_threshold \in Int /\ c.fire_score_threshold > 0
    BY DEF FireConfig, Percent, EvidenceCounts
  <2>3. c.fire_score_threshold * Denominator(c, m) > 0
    BY <2>1, <2>2, Products
  <2>4. c.fire_score_threshold * Denominator(c, m) \in Int
    BY <2>1, <2>2, Products
  <2>5. \A ch \in Channel : Contribution(c, m, ch) \in Int
    BY ContributionFacts
  <2>6. Weighted(c, m) = Contribution(c, m, "gas") + Contribution(c, m, "spark")
                         + Contribution(c, m, "temp") + Contribution(c, m, "humi")
                         + Contribution(c, m, "irtemp")
    BY DEF Weighted, SumOver
  <2>7. {"gas", "spark", "temp", "humi", "irtemp"} = Channel
    BY DEF Channel
  <2>. QED  BY <1>2, <2>3, <2>4, <2>5, <2>6, <2>7
<1>. QED  BY <1>1, <1>2 DEF fire_condition

LEMMA CauseOfDanger ==
  ASSUME NEW c \in FireConfig, NEW m \in SensorMsg, EvidenceCounts(c), fire_condition(c, m)
  PROVE  SensorOf(dominant_cause(c, m)) \in m.valid
<1>1. PICK ch \in Channel : Contribution(c, m, ch) > 0
  BY DangerHasEvidence
<1>2. dominant_cause(c, m) \in Channel
  BY CauseIsAChannel
<1>3. /\ Contribution(c, m, dominant_cause(c, m)) >= Contribution(c, m, ch)
      /\ Contribution(c, m, dominant_cause(c, m)) \in Int /\ Contribution(c, m, ch) \in Int
  BY <1>2, DominantContributesMost, ContributionFacts
<1>. QED  BY <1>1, <1>2, <1>3, ContributionFacts

(* A cycle that confirms a fire is dangerous itself, and leaves its cause  *)
(* and its number behind.                                                  *)
LEMMA ConfirmingCycle ==
  ASSUME NEW d \in DecisionZone, NEW c \in FireConfig, NEW m \in SensorMsg, c.n_confirm > 0,
         d.state = "NORMAL", DECISION_FEED(d, c, m).state = "FIRE"
  PROVE  /\ fire_condition(c, m)
         /\ DECISION_FEED(d, c, m).last_cause = dominant_cause(c, m)
         /\ DECISION_FEED(d, c, m).last_trigger_seq = m.seq
<1>. DEFINE hits == IF fire_condition(c, m) THEN d.score_hits + 1 ELSE 0
<1>1. hits \in Nat /\ c.n_confirm \in Nat
  BY DEF DecisionZone, FireConfig
<1>2. DECISION_FEED(d, c, m) = IF hits < c.n_confirm
                                 THEN [d EXCEPT !.score_hits = hits, !.scored = TRUE]
                                 ELSE Confirmed(d, c, m)
  BY DEF DECISION_FEED, feed_normal
<1>3. ~ (hits < c.n_confirm)
  <2>. SUFFICES ASSUME hits < c.n_confirm
                PROVE  FALSE
    OBVIOUS
  <2>. HIDE DEF hits
  <2>. QED  BY <1>2 DEF DecisionZone
<1>4. DECISION_FEED(d, c, m) = Confirmed(d, c, m)
  BY <1>2, <1>3
<1>5. fire_condition(c, m)
  BY <1>1, <1>3
<1>. QED  BY <1>4, <1>5 DEF Confirmed, DecisionZone

(* Whoever confirms a fire blames a sensor that was alive in that cycle,   *)
(* and records that cycle, under every configuration that wants evidence   *)
(* (dominant_cause and feed_normal of decision.c).                         *)
THEOREM CauseWasAlive ==
  (\A c \in Configs \cup InitialConfigs : EvidenceCounts(c)) => (Spec => CauseIsAlive)
<1>. SUFFICES ASSUME \A c \in Configs \cup InitialConfigs : EvidenceCounts(c)
              PROVE  Spec => CauseIsAlive
  OBVIOUS
<1>1. IInv /\ [Next]_vars =>
        [\A z \in Zone : (~ IsFire(z) /\ IsFire(z)')
            => /\ SensorOf(zone'[z].last_cause) \in lastMsg'[z].valid
               /\ zone'[z].last_trigger_seq = lastMsg'[z].seq]_vars
  <2>. SUFFICES ASSUME IInv, Next, NEW z \in Zone, ~ IsFire(z), IsFire(z)'
                PROVE  /\ SensorOf(zone'[z].last_cause) \in lastMsg'[z].valid
                       /\ zone'[z].last_trigger_seq = lastMsg'[z].seq
    OBVIOUS
  <2>1. PICK m \in Readings : Feed(z, m)
    BY OnlyFeedingConfirms
  <2>2. zone[z] \in DecisionZone /\ m \in SensorMsg /\ zone[z].state = "NORMAL"
    BY ReadingsAssumption DEF IInv, TypeOK, DecisionZone, IsFire
  <2>3. cfg \in FireConfig /\ EvidenceCounts(cfg)
    BY ConfigsAssumption DEF IInv, TypeOK
  <2>4. /\ zone'[z] = DECISION_FEED(zone[z], cfg, m) /\ lastMsg'[z] = m
        /\ zone'[z].state = "FIRE" /\ cfg.n_confirm > 0
    BY <2>1, <2>3 DEF Feed, Observe, IInv, TypeOK, IsFire, EvidenceCounts
  <2>. QED  BY <2>2, <2>3, <2>4, ConfirmingCycle, CauseOfDanger
<1>. QED  BY <1>1, Invariance, PTL DEF Spec, CauseIsAlive

=============================================================================

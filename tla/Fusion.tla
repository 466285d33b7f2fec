------------------------------- MODULE Fusion -------------------------------
(***************************************************************************)
(* The sensor-fusion arithmetic of rpib_decision/app/src/decision.c: raw   *)
(* readings become 0..100 danger scores, the scores become one composite   *)
(* score, and the composite (or the cross confirmation of flame and        *)
(* surface temperature) decides whether a cycle is dangerous.              *)
(*                                                                         *)
(* Floating point is replaced by integers: scores and thresholds are       *)
(* percents, weights are hundredths, temperatures and humidity are in the  *)
(* x10 units of the RPi A drivers.  "total >= threshold" is evaluated      *)
(* exactly, as weighted >= threshold * denominator, so that no rounding    *)
(* enters the decision itself.                                             *)
(***************************************************************************)
EXTENDS Integers

Sensor  == {"gas", "spark", "temphum", "irtemp"}
Channel == {"gas", "spark", "temp", "humi", "irtemp"}

(* Temperature and humidity come from the same SHT30 and share its flag.   *)
SensorOf(ch) == IF ch \in {"temp", "humi"} THEN "temphum" ELSE ch

(* A sensor message.  "valid" is the set of sensors whose flag is true.    *)
SensorMsg == [seq : Nat, valid : SUBSET Sensor, raw : [Channel -> Int]]

(* fire_config_t.  from[ch] is the raw value that scores 0 and to[ch] the  *)
(* one that scores 100: min and max of an ascending channel, safe and      *)
(* danger of a descending one.                                             *)
Ascending  == {"gas", "temp", "irtemp"}
Descending == {"spark", "humi"}
Percent    == 0 .. 100

FireConfig ==
  [from : [Channel -> Int], to : [Channel -> Int], weight : [Channel -> Nat],
   fire_score_threshold : Percent, override_spark_score : Percent,
   override_irtemp_score : Percent, min_valid_weight : Percent,
   n_confirm : Nat, n_recover : Nat, freeze_relax_cycles : Nat]

(* The validity flag of a fusion channel.                                  *)
ch_valid(m, ch) == SensorOf(ch) \in m.valid

AllValid(m) == \A ch \in Channel : ch_valid(m, ch)

(* Linear fuzzification between the two ends, flat outside of them.        *)
fuzzify_asc(v, lo, hi) ==
  IF v <= lo THEN 0 ELSE IF v >= hi THEN 100 ELSE ((v - lo) * 100) \div (hi - lo)

fuzzify_desc(v, safe, danger) ==
  IF v >= safe THEN 0
  ELSE IF v <= danger THEN 100 ELSE ((safe - v) * 100) \div (safe - danger)

(* Slip: an invalid channel keeps its raw score.                           *)
ScoreUnmasked(c, m, ch) ==
  IF ch \in Ascending THEN fuzzify_asc(m.raw[ch], c.from[ch], c.to[ch])
  ELSE fuzzify_desc(m.raw[ch], c.from[ch], c.to[ch])

(* The score of one channel; an invalid channel is overwritten with 0.     *)
Score(c, m, ch) ==
  IF ~ ch_valid(m, ch) THEN 0
  ELSE IF ch \in Ascending THEN fuzzify_asc(m.raw[ch], c.from[ch], c.to[ch])
  ELSE fuzzify_desc(m.raw[ch], c.from[ch], c.to[ch])

(* What a channel adds to the weighted sum and to the sum of weights.      *)
Contribution(c, m, ch) == Score(c, m, ch) * c.weight[ch]
ValidWeight(c, m, ch)  == IF ch_valid(m, ch) THEN c.weight[ch] ELSE 0

SumOver(f(_)) == f("gas") + f("spark") + f("temp") + f("humi") + f("irtemp")

(* The summed weight of the channels that are alive, without the floor.    *)
Surviving(c, m) == SumOver(LAMBDA ch : ValidWeight(c, m, ch))

(* The two halves of composite_score: the weighted sum, and the sum of the *)
(* valid weights raised to the floor min_valid_weight.                     *)
Weighted(c, m)    == SumOver(LAMBDA ch : Contribution(c, m, ch))
Denominator(c, m) ==
  IF Surviving(c, m) < c.min_valid_weight THEN c.min_valid_weight ELSE Surviving(c, m)

(* Both kinds of direct evidence at once, whatever the composite score.    *)
cross_confirm(c, m) ==
  /\ Score(c, m, "spark")  >= c.override_spark_score
  /\ Score(c, m, "irtemp") >= c.override_irtemp_score

(* Is this cycle dangerous?  Used in both directions of the state machine. *)
fire_condition(c, m) ==
  \/ cross_confirm(c, m)
  \/ Weighted(c, m) >= c.fire_score_threshold * Denominator(c, m)

(* The channel that contributed most, the first of them on a tie.          *)
dominant_cause(c, m) ==
  LET Better(a, b) ==
        IF Contribution(c, m, b) > Contribution(c, m, a) THEN b ELSE a
  IN  Better(Better(Better(Better("gas", "spark"), "temp"), "humi"), "irtemp")

(* What threshold_loader.c requires of a row before it replaces the        *)
(* running configuration.                                                  *)
validate(c) ==
  /\ \A ch \in Ascending  : c.from[ch] < c.to[ch]
  /\ \A ch \in Descending : c.from[ch] > c.to[ch]
  /\ SumOver(LAMBDA ch : c.weight[ch]) \in 99 .. 101
  /\ c.n_confirm > 0
  /\ c.n_recover > 0
  /\ c.freeze_relax_cycles > 0
  /\ c.min_valid_weight > 0

(* The static initializer of cfg.  It names no freeze_relax_cycles, so     *)
(* that field is 0.                                                        *)
DefaultConfig ==
  [from |-> [ch \in Channel |-> CASE ch = "gas" -> 650 [] ch = "spark" -> 850
               [] ch = "temp" -> 350 [] ch = "humi" -> 500 [] ch = "irtemp" -> 400],
   to |-> [ch \in Channel |-> CASE ch = "gas" -> 800 [] ch = "spark" -> 30
             [] ch = "temp" -> 600 [] ch = "humi" -> 150 [] ch = "irtemp" -> 800],
   weight |-> [ch \in Channel |-> CASE ch = "gas" -> 20 [] ch = "spark" -> 35
                 [] ch = "temp" -> 15 [] ch = "humi" -> 5 [] ch = "irtemp" -> 25],
   fire_score_threshold |-> 65, override_spark_score |-> 70,
   override_irtemp_score |-> 70, min_valid_weight |-> 50,
   n_confirm |-> 3, n_recover |-> 10, freeze_relax_cycles |-> 0]
=============================================================================

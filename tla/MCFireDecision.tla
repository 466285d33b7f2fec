--------------------------- MODULE MCFireDecision ---------------------------
(* TLC instances of the decision machine: the sensor messages and the      *)
(* fire_threshold rows they enumerate.                                     *)
EXTENDS FireDecision

(* A message whose hot channels read past their danger end, and whose      *)
(* other channels read at their safe end, in the default configuration.    *)
Msg(n, valid, hot) ==
  [seq |-> n, valid |-> valid,
   raw |-> [ch \in Channel |-> IF ch \in hot THEN DefaultConfig.to[ch]
                                             ELSE DefaultConfig.from[ch]]]

Calm      == Msg(1, Sensor, {})
Flame     == Msg(2, Sensor, {"spark", "irtemp"})
Smoke     == Msg(3, Sensor, {"gas", "temp", "humi", "irtemp"})
Hot       == Msg(4, Sensor, {"gas", "temp", "spark"})
NoGas     == Msg(5, Sensor \ {"gas"}, {})
NoGasFire == Msg(6, Sensor \ {"gas"}, {"spark", "irtemp"})
Burnt     == Msg(7, {"gas", "temphum"}, {})
OnlySpark == Msg(8, {"spark"}, {"spark"})
OnlyIr    == Msg(9, {"irtemp"}, Channel)
OnlyAir   == Msg(10, {"temphum"}, Channel)
Dead      == Msg(11, {}, Channel)

AllReadings == {Calm, Flame, Smoke, Hot, NoGas, NoGasFire, Burnt, OnlySpark, OnlyIr, OnlyAir, Dead}
TinyReadings == {Calm, Flame, NoGas}

(* Rows of fire_threshold: the seeded one with short counts, a stricter    *)
(* one and a looser one.                                                   *)
Seeded == [DefaultConfig EXCEPT !.n_confirm = 3, !.n_recover = 3, !.freeze_relax_cycles = 3]
Quick  == [DefaultConfig EXCEPT !.n_confirm = 2, !.n_recover = 2, !.freeze_relax_cycles = 2]
Strict == [Seeded EXCEPT !.fire_score_threshold = 80, !.n_recover = 4]
Broken == [Seeded EXCEPT !.freeze_relax_cycles = 0]

MCConfigs      == {Seeded, Quick, Strict, Broken}
SeededOnly     == {Seeded}
SeededAndQuick == {Seeded, Quick}
CompiledIn     == {DefaultConfig}
NoRow          == {}

DEFAULT_FREEZE_RELAX_CYCLES == 60

(* decision.h:171: sensors that fail for less than a minute do not relax   *)
(* the judging.  TLC refutes it for the compiled-in configuration, whose   *)
(* freeze_relax_cycles is 0 (DefaultRelax.cfg).                            *)
RelaxWaitsForDefault ==
  \A z \in Zone : zone[z].relaxed => zone[z].freeze_cycles >= DEFAULT_FREEZE_RELAX_CYCLES
=============================================================================

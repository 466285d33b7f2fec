\* A fire that is cleared.
CONSTANTS
  Session = {s1, s2}
  NoSession = none
  Mishaps <- MCOrderly
  MaxCommands = 2
SPECIFICATION Spec
INVARIANTS SirenEndsWithFire
CHECK_DEADLOCK FALSE

\* An expiry against the next START.
CONSTANTS
  Session = {s1, s2}
  NoSession = none
  Mishaps <- MCExpiry
  MaxCommands = 2
SPECIFICATION Spec
PROPERTIES ReadyWhenHeld
CHECK_DEADLOCK FALSE

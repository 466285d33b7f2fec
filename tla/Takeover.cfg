\* An operator takes a running broadcast over.
CONSTANTS
  Session = {s1, s2}
  NoSession = none
  Mishaps <- MCOrderly
  MaxCommands = 2
SPECIFICATION Spec
PROPERTIES TakeoverHandsOver
CHECK_DEADLOCK FALSE

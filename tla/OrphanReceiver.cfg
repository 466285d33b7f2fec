\* An expiry during a START.
CONSTANTS
  Session = {s1, s2}
  NoSession = none
  Mishaps <- MCExpiry
  MaxCommands = 2
SPECIFICATION Spec
INVARIANTS ReceiverOnlyInBroadcast
CHECK_DEADLOCK FALSE

CONSTANTS
  a = a
  b = b
  a1 = a1
  a2 = a2
  b1 = b1
  VMS = {a, b}
  Session = {a1, a2, b1}
  NoSession = none
  Client <- MCClient
  Attempts <- MCAttempts
  Possible <- MCRestart
  MaxFaults = 1
SPECIFICATION FairSpec
PROPERTIES OnAirIsOwner
CHECK_DEADLOCK FALSE

CONSTANTS
  a = a
  b = b
  a1 = a1
  a2 = a2
  b1 = b1
  VMS = {a, b}
  Session = {a1, a2, b1}
  NoSession = none
  Client <- MCClient
  Attempts <- MCAttempts
  Possible <- MCAll
  MaxFaults = 1
SPECIFICATION FairSpec
INVARIANTS EndIsHeard DisplayIsOwner
PROPERTIES NobodyHoldsInSilence
CHECK_DEADLOCK FALSE

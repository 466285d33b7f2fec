CONSTANTS
  a = a
  b = b
  a1 = a1
  a2 = a2
  b1 = b1
  VMS = {a, b}
  Session = {a1, a2, b1}
  NoSession = none
  Client <- MCClient
  Attempts <- MCRetry
  Possible <- MCNone
  MaxFaults = 0
SPECIFICATION Spec
PROPERTIES NoSilentTakeover
CHECK_DEADLOCK FALSE

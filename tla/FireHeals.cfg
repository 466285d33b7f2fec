\* Liveness: the bitmap, with the commands left out.
CONSTANTS
  Zone = {1}
  FaultKinds = {"db", "decision_crash", "decision_link", "node_crash", "node_link", "dispatch_link"}
  MaxEvents = 2
  MaxClears = 1
  MaxFaults = 2
  MaxManual = 1
  MaxOut = 1
  Window = 2
  Followed = {}
SPECIFICATION FairSpec
PROPERTIES DisplayHeals
CHECK_DEADLOCK FALSE

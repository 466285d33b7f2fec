\* The database fails when the operator clears the zone.
CONSTANTS
  Zone = {1}
  FaultKinds = {"db"}
  MaxEvents = 2
  MaxClears = 2
  MaxFaults = 1
  MaxManual = 0
  MaxOut = 1
  Window = 1
  Followed = {"water_pump"}
SPECIFICATION FairSpec
PROPERTIES ClearStopsPump
CHECK_DEADLOCK FALSE

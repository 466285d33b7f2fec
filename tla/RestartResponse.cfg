\* The decision process restarts in a fire.
CONSTANTS
  Zone = {1}
  FaultKinds = {"decision_crash"}
  MaxEvents = 1
  MaxClears = 0
  MaxFaults = 1
  MaxManual = 0
  MaxOut = 1
  Window = 1
  Followed = {"water_pump"}
SPECIFICATION Spec
PROPERTIES RestartKeepsResponse
CHECK_DEADLOCK FALSE

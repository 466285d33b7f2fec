\* A node that loses its link in a fire.
CONSTANTS
  Zone = {1}
  FaultKinds = {"node_link"}
  MaxEvents = 1
  MaxClears = 0
  MaxFaults = 1
  MaxManual = 0
  MaxOut = 1
  Window = 1
  Followed = {"water_pump"}
SPECIFICATION FairSpec
PROPERTIES CommandsAreReissued
CHECK_DEADLOCK FALSE

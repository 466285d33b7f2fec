\* One zone, two transitions, every kind of failure.
CONSTANTS
  Zone = {1}
  FaultKinds <- AllFaults
  MaxEvents = 2
  MaxClears = 1
  MaxFaults = 1
  MaxManual = 1
  MaxOut = 1
  Window = 1
  Followed = {"shutter", "water_pump"}
SPECIFICATION Spec
INVARIANTS CommandsHaveEvents AuditIsComplete FieldFollowsDecision
CHECK_DEADLOCK FALSE

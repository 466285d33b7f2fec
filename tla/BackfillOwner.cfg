\* The PostgreSQL backend with its fallback file.
CONSTANTS
  Rec <- DbRecord
  Blank <- MCBlank
  Scenario <- OneCommand
  SensorCap = 2
  EventCap = 4
  MaxDropped = 6
  MaxRecords = 4
  MaxFailures = 1
SPECIFICATION SpecWriter
INVARIANTS BackfillFindsOwner
CHECK_DEADLOCK FALSE

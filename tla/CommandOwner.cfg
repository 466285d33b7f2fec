\* An event ring of two records, as a stalled database fills the real one.
CONSTANTS
  Rec <- DbRecord
  Blank <- MCBlank
  Scenario <- OneCommand
  SensorCap = 2
  EventCap = 3
  MaxDropped = 6
  MaxRecords = 4
  MaxFailures = 1
SPECIFICATION SpecWriter
INVARIANTS CommandsAlwaysJoinTheirEvent
CHECK_DEADLOCK FALSE

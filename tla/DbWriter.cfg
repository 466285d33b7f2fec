\* Four records over an event ring of two and a sensor ring of one, both
\* backends, every failure of the database and one failed append.  The worker
\* leaves after the flush.
CONSTANTS
  Rec <- DbRecord
  Blank <- MCBlank
  Scenario <- OneCommand
  SensorCap = 2
  EventCap = 3
  MaxDropped = 6
  MaxRecords = 4
  MaxFailures = 1
SPECIFICATION SpecWriter
INVARIANTS
  NeverAsleepOnWork LeavesNothingBehind
  EveryRecordAccounted CommandsJoinTheirEvent BackfillKeepsOwner
PROPERTIES IsRecordQueue CloseReturns
CHECK_DEADLOCK FALSE

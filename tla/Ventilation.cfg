SPECIFICATION Spec
CONSTANTS
  Zone = {z1, z2}
  ManualDuty <- MCManualDuty
  MaxFaults = 1
INVARIANTS LedgerLiesOnlyAtRest FireStopsFan ShownIsTrue LevelIsIncident
PROPERTIES IsFanOwner FanFollows

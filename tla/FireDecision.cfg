\* One zone, every kind of reading, reloads between four rows.
CONSTANTS
  Zone = {1}
  Readings <- AllReadings
  Configs <- MCConfigs
  InitialConfigs <- SeededOnly
  MaxFreeze = 5
  MaxRun = 5
SPECIFICATION Spec
INVARIANTS ReadyEarned
PROPERTIES ConfirmedByRun WeakSurvivorsNeverAdvise CauseIsAlive

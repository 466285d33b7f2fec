\* The compiled-in configuration, as after a boot without the database.
CONSTANTS
  Zone = {1}
  Readings <- TinyReadings
  Configs <- NoRow
  InitialConfigs <- CompiledIn
  MaxFreeze = 5
  MaxRun = 10
SPECIFICATION Spec
INVARIANT RelaxWaitsForDefault

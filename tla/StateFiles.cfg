SPECIFICATION Spec
CONSTANTS
  Keys <- MCKeys
  NoKey = NoKey
  InitialConfigs <- MCInitialConfigs
  InitialKeys <- MCInitialKeys
  Requests <- MCRequests
  k1 = k1
  k2 = k2
CHECK_DEADLOCK FALSE
INVARIANTS SecretsStored SetupRepairs
PROPERTIES MigrationSafe

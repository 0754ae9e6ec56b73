SPECIFICATION Spec
CONSTANTS
  Loads <- MCLoads
  MaxTicks = 2
INVARIANTS MirrorsEngineWorker
CHECK_DEADLOCK FALSE

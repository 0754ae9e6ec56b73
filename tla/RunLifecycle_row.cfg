SPECIFICATION FairSpec
CONSTANTS
  Aborters = {a1, a2}
  MaxTicks = 3
  OverTick = 2
  MaxLost = 1
  MaxFinalizeLost = 1
  MaxDbErrors = 1
  MaxRestarts = 1
INVARIANTS TypeOK FinalsCarryOutcome OneAbortAccepted FleetStopHasCause CostCeilingHolds
PROPERTIES RowSpec RunEnds

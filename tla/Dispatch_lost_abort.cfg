SPECIFICATION Spec
CONSTANTS
  Workers = {w1}
  MaxTicks = 1
  Counts <- MCCounts
  Yield <- MCYield
  MaxFaults = 0
  MaxAborts = 1
INVARIANT AbortReachesWorkers

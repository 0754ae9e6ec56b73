SPECIFICATION FairSpec
CONSTANTS
  Workers = {w1, w2}
  Beaters = {w1}
  DeadAfter = 2
  ScanEvery = 1
  ReregisterEvery = 4
  RpcTimeout = 1
  BeatEvery = 1
  FirstDelay = 1
  MaxDelay = 2
  MaxAttempts = 2
  MaxLosses = 1
  MaxMisses = 2
  MaxRestarts = 1
INVARIANTS TypeOK DeadIsForgotten FleetIsRelearned
PROPERTIES EvictionMeansMisses LiveIsKnownAgain

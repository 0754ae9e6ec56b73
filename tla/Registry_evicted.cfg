SPECIFICATION Spec
CONSTANTS
  Workers = {w1}
  Beaters = {}
  DeadAfter = 3
  ScanEvery = 1
  ReregisterEvery = 10
  RpcTimeout = 5
  BeatEvery = 1
  FirstDelay = 1
  MaxDelay = 5
  MaxAttempts = 30
  MaxLosses = 0
  MaxMisses = 0
  MaxRestarts = 0
INVARIANT LiveStaysRegistered

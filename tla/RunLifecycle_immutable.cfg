SPECIFICATION Spec
CONSTANTS
  Aborters = {a1}
  MaxTicks = 1
  OverTick = 2
  MaxLost = 0
  MaxFinalizeLost = 0
  MaxDbErrors = 0
  MaxRestarts = 0
PROPERTY TerminalImmutable

SPECIFICATION Spec
CONSTANTS
  Conns = {c1, c2}
  None = None
  Duration = 2
  SampleEvery = 2
  Policies = {"continue"}
  RecordOnset = FALSE
  Answers = {"pass", "rate_limited"}
  RetryAfters = {0}
  MaxBackoff = 1
  MaxRequests = 3
SYMMETRY ConnSymmetry
INVARIANTS TicksAreHonest NthSampledOnce

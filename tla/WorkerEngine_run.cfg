SPECIFICATION FairSpec
CONSTANTS
  Conns = {c1, c2}
  None = None
  Duration = 1
  SampleEvery = 2
  Policies = {"backoff", "abort"}
  RecordOnset = TRUE
  Answers = {"pass", "fail", "rate_limited"}
  RetryAfters = {0, 2}
  MaxBackoff = 1
  MaxRequests = 2
INVARIANTS ReportIsExact AbortDrains
PROPERTIES RunReturns LoadRunSpec

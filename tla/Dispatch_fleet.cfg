SPECIFICATION FairSpec
CONSTANTS
  Workers = {w1, w2}
  MaxTicks = 2
  Counts <- MCCounts
  Yield <- MCYield
  MaxFaults = 1
  MaxAborts = 1
INVARIANTS TypeOK FeedAgreesWithSummary AbortFreezesFeed SummaryIsHonest LossIsReal RunningIsAbortable NoSpontaneousAbort
PROPERTIES TickFeedSpec DispatchReturns

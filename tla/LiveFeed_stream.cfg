SPECIFICATION FairSpec
CONSTANTS
  Watchers = {w1, w2}
  None = None
  Duration = 3
  Total <- MCTotal
  Buffer = 1
  MaxFaults = 1
INVARIANTS NoSendOnClosed WatcherView ReplayMatchesFeed
PROPERTIES PublishEnds

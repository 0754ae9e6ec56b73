SPECIFICATION Spec
CONSTANTS
  Schedules <- MCSchedules
  Offsets = {0, 2}
  Deadline = 18
  Latencies = {1, 7}
  Backoffs = {3}
  Oversleeps = {0, 1}
INVARIANTS TypeOK NeverEarly SlotsAreOriginal LatenessIsEarned CatchUpIsPaced NeverIdles

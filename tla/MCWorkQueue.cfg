SPECIFICATION LifeSpec
CONSTANTS
  i1 = i1
  i2 = i2
  Item = {i1, i2}
  Nobody = Nobody
  Interval <- MCInterval
  Period = {1}
  Delay = {0, 2}
  Timeout = 1
  MaxLate = 2
  Infinite = 3
INVARIANTS
  AttachedHasWorker
PROPERTIES
  ImplementsRunQueue
  NeverAfterStop
  RateLimited
  DetachReturns
  ShutdownReturns
  NoLostSchedule
  PeriodicRuns

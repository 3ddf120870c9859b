\* A live worker may be silent past its lease, and two may run one job.
CONSTANTS
  w1 = w1
  w2 = w2
  apr = apr
  may = may
  Workers <- TwoWorkers
  Periods <- OneMonth
  JobBound = 2
  MaxAttempts = 2
  SlowWorkers = TRUE
  ClaimBound = 2
  CrashBound = 0
  ApiRunBound = 1
SPECIFICATION Spec
INVARIANTS
  OneActivePerPeriod
  RunHistoryIsAChain
  JobPointsAtItsNewestRun
PROPERTIES
  KeepsTheLedger
SYMMETRY WorkersAreAlike
CHECK_DEADLOCK FALSE

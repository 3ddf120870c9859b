\* Leases outlive every silence of a live worker.
CONSTANTS
  w1 = w1
  w2 = w2
  apr = apr
  may = may
  Workers <- TwoWorkers
  Periods <- TwoMonths
  JobBound = 2
  MaxAttempts = 2
  SlowWorkers = FALSE
  ClaimBound = 3
  CrashBound = 1
  ApiRunBound = 0
SPECIFICATION FairSpec
INVARIANTS
  RunsOnlyFromSuccess
  OneHolder
PROPERTIES
  TerminalIsFinal
  EveryJobEnds
CHECK_DEADLOCK FALSE

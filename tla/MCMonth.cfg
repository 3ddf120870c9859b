\* Imports of two employees by one worker, and of one by two; one request at a time on the sign-off of a
\* month that changes under it; the other bounds are in the module.
CONSTANTS
  Workers = {w1, w2}
  Employees = {ann, bob}
  PeriodLength = 3
  PaidDays = 2
  EsicCeiling = 4
  EsicRows <- SixRows
  EsicMonths = 4
  Reuploads = 1
  People = {"ann", "bob"}
  Requests = {"q"}
  Inputs = {"these", "those"}
  RunBound = 2
  EventBound = 4
SYMMETRY AllAlike
SPECIFICATION MonthSpec
INVARIANTS
  WhatIsOwedIsReported
  PassedMeansChecked
  TrailIsAChain
  SnapshotIsNoOlderThanItsReadiness
PROPERTIES
  SyncsLoseNothing
CHECK_DEADLOCK FALSE

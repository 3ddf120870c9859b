\* A register of the period, two months back, is uploaded again.
CONSTANTS
  PeriodLength = 3
  MonthDays = 2
  Ceiling = 4
  Rows <- FullMonths
  MonthBound = 3
  ReuploadBound = 1
SPECIFICATION Spec
INVARIANT CurrentRunsStand
CHECK_DEADLOCK FALSE

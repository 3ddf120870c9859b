\* A month validated for the first time after a later one: one finding, one session.
CONSTANTS
  Fingerprints = {f1}
  Periods = {1, 2, 3}
  Sessions = {s1}
  MonthLength = 2
  WaiverDefault = 1
  WaiverMax = 2
  DayBound = 4
  CountBound = 4
  EventBound = 2
SPECIFICATION Spec
INVARIANT SignersSeeWhatTheRunFound
CHECK_DEADLOCK FALSE

\* With runs of the synchronous endpoint, which takes the digests after it has read.
CONSTANTS
  Writers = {w1, w2}
  Sessions = {s1, s2}
  Purposes = {"worker", "endpoint", "page"}
  TokenBound = 2
SPECIFICATION Spec
INVARIANT
  NeverCallsAStaleRunCurrent
CHECK_DEADLOCK FALSE

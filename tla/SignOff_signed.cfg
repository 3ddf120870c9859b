\* Submitting a month that is signed: two people, one request at a time.
CONSTANTS
  People = {ann, bob}
  Requests = {q1}
  Inputs = {these, those}
  RunBound = 2
  EventBound = 4
SPECIFICATION Spec
INVARIANT SignedSnapshotsStay
CHECK_DEADLOCK FALSE

\* One register, one worker, one cancel.
CONSTANTS
  Workers = {w1}
  Kinds = {"register"}
  Modes = {"replace"}
  Employees = {ann}
  RunBound = 1
  ChangeBound = 1
  MaxAttempts = 2
  ClaimBound = 2
SPECIFICATION Spec
INVARIANT CancelledKeepsNothing
CHECK_DEADLOCK FALSE

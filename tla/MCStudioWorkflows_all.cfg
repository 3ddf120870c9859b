\* One run of three steps, two workers, and children that may never end.
CONSTANTS
  w1 = w1
  w2 = w2
  Workers <- TwoWorkers
  Actions <- SyncThenNotifyThenValidate
  Retries = 1
  MaxAttempts = 2
  RunBound = 1
  ChildBound = 2
  CrashBound = 1
SPECIFICATION Spec
INVARIANTS
  EachStepTakesEffectOnce
  NoOrphanChild
PROPERTIES
  EveryRunEnds
CHECK_DEADLOCK FALSE

\* Two transactions and one session after another, of runs of the worker and of pages; one finding over two months; two
\* requests for a costing, each ingredient of which changes once while a version comes and goes; and two months to be kept,
\* with three things that happen besides. The bounds of pages are in the module, and the slabs.
CONSTANTS
  Writers = {w1, w2}
  Sessions = {s1}
  Purposes = {"worker", "page"}
  TokenBound = 3
  Fingerprints = {"f"}
  FindingMonths = {1, 2}
  MonthLength = 2
  WaiverDefault = 1
  WaiverMax = 2
  DayBound = 4
  CountBound = 4
  EventBound = 2
  Requests = {r1, r2}
  ChangeBound = 1
  TurnBound = 2
  RequestBound = 2
  LastMonth = 2
  RetentionPeriods = {1, 2}
  ArrivalBound = 3
  SlabDrafts <- FiveSlabs
  SlabDefaults <- TwoOfTheProduct
  SlabSeeds <- TwoOfReference
  SlabWages = {0, 3, 5}
  SlabMonths = {1, 2, 3}
  SlabHalfYear = 2
  SlabDue = {2}
  SlabTolerance = 1
SYMMETRY AllAlike
SPECIFICATION AfterwardsSpec
INVARIANTS
  DigestsAreOfTheirTime
  NeverCallsAStaleRunCurrent
  NothingGoesUncounted
  BooksAreOfTheirTime
  PagesAgree
PROPERTIES
  WaivedIsOnRecord
  RunsResolveOnlyWhatStopped
  DataIsKeptAsAgreed
  DuesFollowTheirSchedule
CHECK_DEADLOCK FALSE

\* The components, one at a time: two workers, three requests under one key (any two of
\* anything else overlap); two reports, claimed three times, and one crash; three events and two flows that set each other
\* off; two deliveries of two attempts, two administrators, two calls about one event; three versions of a mapping and a
\* release that is rolled back; two months of three rules for two keys; two edits
\* of a base with two financial years that overlap, and three versions of it over three months.
CONSTANTS
  Workers = {w1, w2}
  Requests = {"first", "second", "third"}
  Bodies = {"a", "b"}
  ReportAttempts = 2
  JobBound = 2
  ReportClaims = 3
  ReportCrashes = 1
  DueBound = 1
  Flows = {"ready", "after"}
  FlowTrigger <- ReadyAndAfter
  Syncing = {"after"}
  MaxDepth = 2
  InputBound = 2
  OutsideBound = 2
  EventBound = 3
  Deaths = 1
  DeliveryAttempts = 2
  Admins = {"one", "other"}
  Calls = {"one", "other"}
  Incoming = {"event"}
  DeliveryBound = 2
  SecretBound = 3
  CallBound = 3
  DeliveryCrashes = 1
  Specs = {"a", "b"}
  MappingVersions = 3
  CreateBound = 1
  ReleaseRollbacks = 1
  RuleKeys = {"k", "l"}
  Demands = {"low", "high"}
  RuleMonths = 2
  RuleDrafts = 3
  Editors = {"one", "other"}
  FinancialYears = {1, 2}
  BaseEdits = 2
  ConfigMonths = 3
  ConfigDrafts = 3
SPECIFICATION ServicesSpec
INVARIANTS
  ChainsEndAndFireOnce
  HeardAtLeastOnceAndNotForEver
  AtMostOncePerKey
PROPERTIES
  GeneratedFilesStay
  NothingWaitsForEver
  RollbackRestores
  MonthsKeepOneRule
  DecidedStaysDecided
  AffectedAreWhatChanges
CHECK_DEADLOCK FALSE

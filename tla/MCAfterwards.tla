------------------------------- MODULE MCAfterwards ------------------------------
(***************************************************************************)
(* What a month leaves behind: whether its run is still current, the       *)
(* findings that are carried from month to month, the costings that are    *)
(* stored, the pages that are read from the registers, the taxes of the    *)
(* states, and what is kept of it all and for how long.  They share no     *)
(* state: a behaviour of this module is a behaviour of one of them,        *)
(* `part`, while the others stand still.                                   *)
(***************************************************************************)
EXTENDS InputDigests, TLC

CONSTANTS
  Fingerprints, FindingMonths, MonthLength, WaiverDefault, WaiverMax, DayBound, CountBound, EventBound,  \* FindingLifecycle
  Requests, ChangeBound, TurnBound, RequestBound,    \* CostBooks
  LastMonth, RetentionPeriods, ArrivalBound,         \* DataProtection
  SlabDrafts, SlabDefaults, SlabSeeds, SlabWages, SlabMonths, SlabHalfYear, SlabDue, SlabTolerance  \* StateSlabs

\* The part of a behaviour, and places for the variables of all parts but the first,
\* whose own names InputDigests declares: each part names what it keeps in them.
VARIABLES part, p1, p2, p3, p4, p5, p6, p7, p8, p9, p10, p11

AllAlike == Permutations(Writers) \cup Permutations(Sessions) \cup Permutations(Requests)

\* One session at a time.
F == INSTANCE FindingLifecycle WITH
  Periods <- FindingMonths, Sessions <- {"s"},
  row <- p1, events <- p2, observed <- p3, current <- p4, today <- p5, ses <- p6

B == INSTANCE CostBooks WITH
  made <- p1, published <- p2, turns <- p3, book <- p4, req <- p5, worked <- p6

\* Rows with a bonus, with days that are unknown, and with a share the register states,
\* in two departments; February to April, over the end of the financial year.
Pay(regular, arrears, days, group, employer) ==
  [regular |-> regular, arrears |-> arrears, days |-> days, group |-> group, employer |-> employer]
Pays == {Pay(4, 0, 2, "works", -1), Pay(6, 2, 1, "office", 5), Pay(3, 1, -1, "works", -1)}

A == INSTANCE PayAnalytics WITH
  Employees <- {1, 2}, Months <- 2..4, Capped <- {1}, Ceiling <- 3, Unit <- 2, UploadBound <- 2,
  register <- p1, uploads <- p2

P == INSTANCE DataProtection WITH
  Periods <- RetentionPeriods, EventBound <- ArrivalBound,
  holds <- p1, job <- p2, import <- p3, report <- p4, erasure <- p5, excused <- p6, policy <- p7, pass <- p8,
  since <- p9, today <- p10, happened <- p11

\* Slabs for all, for one gender, for one month; for two months at once, dated from the
\* third month; and dated from within the second month to within the third.
Slab(lo, hi, amount, per, gender, months, from, to) ==
  [lo |-> lo, hi |-> hi, amount |-> amount, per |-> per, gender |-> gender, months |-> months, from |-> from, to |-> to]
Put(place, s) ==
  [lo |-> s.lo, hi |-> s.hi, amount |-> s.amount, per |-> s.per, gender |-> s.gender, months |-> s.months,
   from |-> s.from, to |-> s.to, place |-> place]
FiveSlabs ==
  {Slab(0, 9, 2, 1, "ALL", {}, 0, 0), Slab(0, 9, 1, 1, "FEMALE", {}, 0, 0), Slab(0, 9, 5, 1, "ALL", {2}, 0, 0),
   Slab(6, 20, 7, 2, "ALL", {}, 5, 0), Slab(0, 9, 4, 1, "MALE", {}, 4, 6)}
TwoOfTheProduct == {Put(0, Slab(0, 3, 0, 1, "ALL", {}, 0, 0)), Put(1, Slab(4, 9, 3, 1, "ALL", {}, 0, 0))}
TwoOfReference == {Put(0, Slab(0, 3, 1, 1, "ALL", {}, 0, 3)), Put(0, Slab(0, 9, 2, 1, "ALL", {}, 4, 0))}

L == INSTANCE StateSlabs WITH
  Drafts <- SlabDrafts, Defaults <- SlabDefaults, Seeds <- SlabSeeds,
  Wages <- SlabWages, Months <- SlabMonths, HalfYear <- SlabHalfYear, JuneAndDecember <- SlabDue,
  Tolerance <- SlabTolerance,
  scheme <- p1, rows <- p2, listed <- p3

ASSUME AfterwardsAssumption ==
  F!LifecycleAssumption /\ A!AnalyticsAssumption /\ P!ProtectionAssumption /\ L!SlabAssumption

digests == <<content, token, drawn, tx, cache, ss, runs>>
places == <<p1, p2, p3, p4, p5, p6, p7, p8, p9, p10, p11>>

allVars == <<part, digests, places>>

AfterwardsInit ==
  /\ Init
  /\ \/ part = "digests" /\ p1 = 0 /\ p2 = 0 /\ p3 = 0 /\ p4 = 0 /\ p5 = 0 /\ p6 = 0 /\ p7 = 0 /\ p8 = 0 /\ p9 = 0 /\ p10 = 0 /\ p11 = 0
     \/ part = "findings" /\ F!Init /\ p7 = 0 /\ p8 = 0 /\ p9 = 0 /\ p10 = 0 /\ p11 = 0
     \/ part = "books" /\ B!Init /\ p7 = 0 /\ p8 = 0 /\ p9 = 0 /\ p10 = 0 /\ p11 = 0
     \/ part = "pages" /\ A!Init /\ p3 = 0 /\ p4 = 0 /\ p5 = 0 /\ p6 = 0 /\ p7 = 0 /\ p8 = 0 /\ p9 = 0 /\ p10 = 0 /\ p11 = 0
     \/ part = "protection" /\ P!Init
     \/ part = "slabs" /\ L!Init /\ p4 = 0 /\ p5 = 0 /\ p6 = 0 /\ p7 = 0 /\ p8 = 0 /\ p9 = 0 /\ p10 = 0 /\ p11 = 0

AfterwardsNext ==
  /\ UNCHANGED part
  /\ \/ part = "digests" /\ Next /\ UNCHANGED places
     \/ part = "findings" /\ F!Next /\ UNCHANGED <<digests, p7, p8, p9, p10, p11>>
     \/ part = "books" /\ B!Next /\ UNCHANGED <<digests, p7, p8, p9, p10, p11>>
     \/ part = "pages" /\ A!Next /\ UNCHANGED <<digests, p3, p4, p5, p6, p7, p8, p9, p10, p11>>
     \/ part = "protection" /\ P!Next /\ UNCHANGED digests
     \/ part = "slabs" /\ L!Next /\ UNCHANGED <<digests, p4, p5, p6, p7, p8, p9, p10, p11>>

AfterwardsSpec == AfterwardsInit /\ [][AfterwardsNext]_allVars

--------------------------------------------------------------------------------
\* What each part says of itself; its module states it in full. The properties of
\* InputDigests are asked by their own names.

\* No month a finding was reported in is lost to its row (models/findings.py:258).
NothingGoesUncounted == part = "findings" => F!NothingGoesUncounted

\* Waived is what the audit trail says it is, and always ends (finding_store.py:396);
\* and what a run reports as waived was waived, by a waiver in force (issues.py:8).
WaivedIsOnRecord ==
  [](part = "findings" => F!WaivedIsOnRecord) /\ [][part = "findings" => F!ReportsWaivedInForce]_allVars

\* A run that resolves a finding is right to (finding_store.py:373).
RunsResolveOnlyWhatStopped == [][part = "findings" => F!ResolvesOnlyWhatStopped]_allVars

\* A stored costing shows nothing older than its request (models/derived_cache.py:18).
BooksAreOfTheirTime == part = "books" => B!BooksAreOfTheirTime

\* The pages of a company's cost tell one story (analytics.py:13).
PagesAgree == part = "pages" => A!PagesAgree

\* An erased person does not come back by herself, and a pass deletes what is older than
\* its period and nothing else (data_protection.py:496, models/data_protection.py:38).
DataIsKeptAsAgreed ==
  [](part = "protection" => P!ErasedStaysErased /\ P!KeptNoLonger)
    /\ [][part = "protection" => P!KeptAsLong]_allVars

\* No deduction goes unexamined, a month's cost is what its validation asks for, and new
\* slabs leave old months alone (validation.py:986, cost_model.py:378, validation.py:940).
DuesFollowTheirSchedule ==
  [](part = "slabs" => L!DeductionsAreExamined /\ L!CostIsWhatIsAsked)
    /\ [][part = "slabs" => L!OldMonthsKeepTheirDues]_allVars
================================================================================

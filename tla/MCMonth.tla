--------------------------------- MODULE MCMonth ---------------------------------
(***************************************************************************)
(* A month from its data to its signature: records come in by imports and  *)
(* syncs, a validation checks them, and the month is signed.  The imports, *)
(* four checks of one employee, and the sign-off are checked side by side, *)
(* each with what it takes from the others left open: a behaviour of this  *)
(* module is a behaviour of one of them, `part`, while the others stand    *)
(* still.                                                                  *)
(***************************************************************************)
EXTENDS SignOff, CheckRegistry, TLC

CONSTANTS
  Workers, Employees,                                                \* StudioImports
  PeriodLength, PaidDays, EsicCeiling, EsicRows, EsicMonths, Reuploads  \* EsicPeriods

\* The part of a behaviour, and places for the variables of all parts but the sign-off,
\* whose own names SignOff declares: each part names what it keeps in them.
VARIABLES part, p1, p2, p3, p4, p5, p6, p7, p8, p9, p10, p11

\* Workers and employees of the imports are alike; the other parts have neither.
AllAlike == Permutations(Workers) \cup Permutations(Employees)

\* Two runs of any kind about all employees, by one worker; and an import or a sync and
\* what comes after it about one employee, by workers that may both hold a run.
I == INSTANCE StudioImportsProofs WITH
  Workers <- {"w"},
  Kinds <- {"import", "sync", "register"}, Modes <- {"replace"}, RunBound <- 2, ChangeBound <- 2,
  MaxAttempts <- 2, ClaimBound <- 2,
  run <- p1, wk <- p2, asked <- p3, source <- p4, watermark <- p5, stored <- p6,
  landed <- p7, keepers <- p8, rejected <- p9, slipped <- p10, announced <- p11
T == INSTANCE StudioImportsProofs WITH
  Employees <- {"e"},
  Kinds <- {"import", "sync"}, Modes <- {"replace"}, RunBound <- 2, ChangeBound <- 2,
  MaxAttempts <- 2, ClaimBound <- 2,
  run <- p1, wk <- p2, asked <- p3, source <- p4, watermark <- p5, stored <- p6,
  landed <- p7, keepers <- p8, rejected <- p9, slipped <- p10, announced <- p11

\* Two revisions in three months of two days.
Y == INSTANCE PayRevisions WITH
  MonthDays <- 2, Rates <- {2, 3, 4}, MonthBound <- 3, RevisionBound <- 2,
  ctc <- p1, register <- p2, run <- p3

\* The ceiling changes in the middle of the second month; a company's own is
\* below, between or above.
F == INSTANCE ProvidentFund WITH
  MonthDays <- 2, ChangeDay <- 3, OldCeiling <- 4, NewCeiling <- 8, OwnCeilings <- {0, 6, 10}, Wages <- {3, 5, 9},
  MonthBound <- 4,
  settings <- p1, register <- p2, found <- p3

\* A full month within the ceiling and above it, half a month, an unpaid one;
\* deducted, not deducted, or no such column.
EsicRow(rate, paid, stated) == [rate |-> rate, paid |-> paid, stated |-> stated]
SixRows == {EsicRow(1, 2, 2), EsicRow(1, 2, 0), EsicRow(3, 1, 0), EsicRow(3, 2, 6), EsicRow(1, 0, 0), EsicRow(1, 1, -1)}

P == INSTANCE EsicPeriods WITH
  MonthDays <- PaidDays, Ceiling <- EsicCeiling, Rows <- EsicRows, MonthBound <- EsicMonths,
  ReuploadBound <- Reuploads,
  register <- p1, newest <- p2, run <- p3, again <- p4

O == INSTANCE CheckCoverage WITH
  rule <- p1, off <- p2, seen <- p3, facts <- p4, emitted <- p5, outcome <- p6

ASSUME MonthAssumption ==
  /\ I!ImportsAssumption /\ T!ImportsAssumption
  /\ Y!PayAssumption /\ F!PfAssumption /\ P!EsicAssumption /\ RegistryAssumption

signoff == <<inputs, run, finding, policy, row, events, req>>
places == <<p1, p2, p3, p4, p5, p6, p7, p8, p9, p10, p11>>

allVars == <<part, signoff, places>>

\* The month to be signed stands still at a first state while another part moves.
MonthInit ==
  \/ part = "signoff" /\ Init
       /\ p1 = 0 /\ p2 = 0 /\ p3 = 0 /\ p4 = 0 /\ p5 = 0 /\ p6 = 0 /\ p7 = 0 /\ p8 = 0 /\ p9 = 0 /\ p10 = 0 /\ p11 = 0
  \/ /\ Init /\ policy /\ inputs = CHOOSE i \in Inputs : TRUE
     /\ \/ part = "imports" /\ I!Init
        \/ part = "takeovers" /\ T!Init
        \/ part = "revisions" /\ Y!Init /\ p4 = 0 /\ p5 = 0 /\ p6 = 0 /\ p7 = 0 /\ p8 = 0 /\ p9 = 0 /\ p10 = 0 /\ p11 = 0
        \/ part = "fund" /\ F!Init /\ p4 = 0 /\ p5 = 0 /\ p6 = 0 /\ p7 = 0 /\ p8 = 0 /\ p9 = 0 /\ p10 = 0 /\ p11 = 0
        \/ part = "periods" /\ P!Init /\ p5 = 0 /\ p6 = 0 /\ p7 = 0 /\ p8 = 0 /\ p9 = 0 /\ p10 = 0 /\ p11 = 0
        \/ part = "outcomes" /\ O!Init /\ p7 = 0 /\ p8 = 0 /\ p9 = 0 /\ p10 = 0 /\ p11 = 0

MonthNext ==
  /\ UNCHANGED part
  /\ \/ part = "signoff" /\ Next /\ UNCHANGED places
     \/ part = "imports" /\ I!Next /\ UNCHANGED signoff
     \/ part = "takeovers" /\ T!Next /\ UNCHANGED signoff
     \/ part = "revisions" /\ Y!Next /\ UNCHANGED <<signoff, p4, p5, p6, p7, p8, p9, p10, p11>>
     \/ part = "fund" /\ F!Next /\ UNCHANGED <<signoff, p4, p5, p6, p7, p8, p9, p10, p11>>
     \/ part = "periods" /\ P!Next /\ UNCHANGED <<signoff, p5, p6, p7, p8, p9, p10, p11>>
     \/ part = "outcomes" /\ O!Next /\ UNCHANGED <<signoff, p7, p8, p9, p10, p11>>

MonthSpec == MonthInit /\ [][MonthNext]_allVars

--------------------------------------------------------------------------------
\* What each part says of itself; its module states it in full. The properties of SignOff
\* are asked by their own names.

\* The checkpoint of a sync stays behind the data but for what slipped between two pages,
\* every end of a run is announced, and a retry of what was rejected removes nobody
\* (services/studio/sync.py, runs.py, imports.py, connections.py).
SyncsLoseNothing ==
  /\ [](part = "imports" => I!CheckpointBehindData /\ I!EndedRunsAreAnnounced)
  /\ [](part = "takeovers" => T!CheckpointBehindData /\ T!EndedRunsAreAnnounced)
  /\ [][part = "imports" => I!RemovesNoOneOnRetry]_allVars
  /\ [][part = "takeovers" => T!RemovesNoOneOnRetry]_allVars

\* Who was paid less than the rates in force is in a finding (increments.py); so is who
\* had less PF deducted than was due, once the month of the ceiling change is past
\* (validation.py, _change_month_shortfall); and months without a finding deduct ESIC
\* from whoever the contribution period covers, and from no one else (validation.py,
\* _esic_covered_in_period).
WhatIsOwedIsReported ==
  /\ part = "revisions" => Y!UnderpaymentIsReported
  /\ part = "fund" => F!ShortfallIsReported
  /\ part = "periods" => P!CleanMeansCovered

\* A check that passed was made (services/coverage.py, employee_outcomes).
PassedMeansChecked == part = "outcomes" => O!PassedMeansChecked
================================================================================

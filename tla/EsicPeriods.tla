------------------------------ MODULE EsicPeriods -------------------------------
(***************************************************************************)
(* ESIC of one employee over contribution periods: who is covered by the   *)
(* wage of a month stays covered to the end of the period, which a run     *)
(* tells by what the earlier registers of the period deducted.             *)
(*                                                                         *)
(*   services/esic_engine.py    compute_esic                               *)
(*   services/validation.py     esic_contribution_period_start,            *)
(*                              _esic_covered_in_period, and their use     *)
(*   services/rule_engine_v2.py build_findings: STAT-006                   *)
(*   services/run_inputs.py     input_digests: which registers of the past *)
(*                                                                         *)
(* The contribution on a wage is the wage itself: rates and rounding are   *)
(* left out.  The employee is of no exempt type and is paid no arrear.     *)
(***************************************************************************)
EXTENDS Integers

CONSTANTS
  PeriodLength,  \* months of a contribution period (six)
  MonthDays,     \* days of a month
  Ceiling,       \* ESIC wage ceiling, of a full month
  Rows,          \* what a register may say of the employee in a month
  MonthBound,    \* bound: months
  ReuploadBound  \* bound: registers uploaded again

\* A row: pay for a day, days paid, and the ESIC deducted, or no such column.
Absent == -1

EsicAssumption ==
  /\ {PeriodLength, MonthDays, MonthBound} \subseteq Nat \ {0}
  /\ {Ceiling, ReuploadBound} \subseteq Nat
  /\ Rows \subseteq [rate : Nat, paid : 0..MonthDays, stated : Nat \cup {Absent}]

Months == 1..MonthBound
NoRow == [rate |-> 0, paid |-> 0, stated |-> Absent]
NoRun == [known |-> FALSE, found |-> {}, own |-> NoRow, prior |-> NoRow]

VARIABLES
  register,  \* the employee's row of each month: a register arrives after that of the month before
  newest,    \* the newest month with a register
  run,       \* the current run of each month: its findings and the rows its digests are of
  again      \* how many registers were uploaded again

vars == <<register, newest, run, again>>

Init ==
  /\ register = [m \in Months |-> NoRow]
  /\ newest = 0
  /\ run = [m \in Months |-> NoRun]
  /\ again = 0

--------------------------------------------------------------------------------

Earned(row) == row.rate * row.paid

\* Coverage is by the rate of wages: a part month is scaled back up first.
RateWage(row) == IF row.paid > 0 THEN row.rate * MonthDays ELSE 0

\* compute_esic, elig_cfg.expression.
Eligible(row) == 0 < RateWage(row) /\ RateWage(row) <= Ceiling

\* esic_contribution_period_start.
PeriodStart(m) == ((m - 1) \div PeriodLength) * PeriodLength + 1

\* Mutant of CoveredEarlier: the month before alone is asked, as for other checks.
CoveredEarlierLastMonth(m) == m > PeriodStart(m) /\ register[m - 1].stated > 0

\* _esic_covered_in_period.
CoveredEarlier(m) == \E k \in PeriodStart(m)..(m - 1) : register[k].stated > 0

Covered(m) ==
  \/ Eligible(register[m])
  \/ Earned(register[m]) > 0 /\ CoveredEarlier(m)

Expected(m) == IF Covered(m) THEN Earned(register[m]) ELSE 0

\* STAT-006: a failure, or the information that there is no such column.
Findings(m) ==
  IF register[m].stated # Absent
  THEN IF register[m].stated # Expected(m) THEN {"STAT-006"} ELSE {}
  ELSE IF Expected(m) > 0 THEN {"absent"} ELSE {}

Prior(m) == IF m = 1 THEN NoRow ELSE register[m - 1]

--------------------------------------------------------------------------------

\* A register is stored in place of the month's earlier one.
Upload ==
  /\ newest < MonthBound
  /\ \E row \in Rows : register' = [register EXCEPT ![newest + 1] = row]
  /\ newest' = newest + 1
  /\ UNCHANGED <<run, again>>

UploadAgain(m) ==
  /\ m <= newest /\ again < ReuploadBound
  /\ \E row \in Rows \ {register[m]} : register' = [register EXCEPT ![m] = row]
  /\ again' = again + 1
  /\ UNCHANGED <<newest, run>>

\* A month is validated; digests of its register and of the one before it are
\* recorded with the run (input_digests).
Validate(m) ==
  /\ m <= newest
  /\ run' = [run EXCEPT ![m] = [known |-> TRUE, found |-> Findings(m), own |-> register[m], prior |-> Prior(m)]]
  /\ UNCHANGED <<register, newest, again>>

Next ==
  \/ Upload
  \/ \E m \in Months : UploadAgain(m) \/ Validate(m)

Spec == Init /\ [][Next]_vars

--------------------------------------------------------------------------------
(* What the code says of itself.                                           *)

TypeOK ==
  /\ register \in [Months -> Rows \cup {NoRow}]
  /\ newest \in 0..MonthBound
  /\ \A m \in Months : run[m].found \subseteq {"STAT-006", "absent"}
  /\ again \in 0..ReuploadBound

\* run_freshness.
IsCurrent(m) == run[m].known /\ run[m].own = register[m] /\ run[m].prior = Prior(m)

\* Every month of the period so far has a run of the registers there are now, and
\* nothing was found.
CleanUpTo(m) ==
  \A k \in PeriodStart(m)..m : run[k].known /\ run[k].found = {} /\ Findings(k) = {}

\* Where every month of a period so far is validated and clean, ESIC is deducted
\* of the employee exactly from the first month their wage is within the ceiling,
\* to the end of the period (docs/CLIENT_USER_MANUAL.md:184): an unpaid month
\* between does not end it, and a new period decides afresh.
CleanMeansCovered ==
  \A m \in Months :
    m <= newest /\ CleanUpTo(m) =>
      (register[m].stated > 0
         <=> Earned(register[m]) > 0 /\ \E k \in PeriodStart(m)..m : Eligible(register[k]))

\* A run that the product calls current found what validating the month now would
\* find: to call a stale run current is the one answer this product must never
\* give (services/input_revisions.py:18).
CurrentRunsStand ==
  \A m \in Months : IsCurrent(m) => run[m].found = Findings(m)
================================================================================

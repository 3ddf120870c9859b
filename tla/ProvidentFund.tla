----------------------------- MODULE ProvidentFund ------------------------------
(***************************************************************************)
(* The employee share of PF over the months around the day the statute     *)
(* raised the wage ceiling: the month of the change is held to a ceiling   *)
(* weighted by days, and what it was short by is recovered in the next.    *)
(*                                                                         *)
(*   services/pf_engine.py      statutory_ceiling_on, ceiling_for_month,   *)
(*                              compute_pf                                 *)
(*   services/validation.py     _change_month_shortfall, and the PF of     *)
(*                              validate_employees                         *)
(*   services/rule_engine_v2.py build_findings: PF-012, PF-013, STAT-001,  *)
(*                              PF-009                                     *)
(*                                                                         *)
(* One employee on one basis, with no voluntary PF and no arrear of pay.   *)
(* The contribution on a wage is the wage itself, and the tolerance of one *)
(* rupee is none.  Registers come in order, each is validated once.        *)
(***************************************************************************)
EXTENDS Integers, Sequences, FiniteSetsExt

CONSTANTS
  MonthDays,    \* days of a month
  ChangeDay,    \* the day of the change: the first month begins on day 0
  OldCeiling,   \* the statute's ceiling before it
  NewCeiling,   \* and from it on
  OwnCeilings,  \* what a company may have configured
  Wages,        \* PF wages of a month
  MonthBound    \* bound: months

PfAssumption ==
  /\ {MonthDays, MonthBound} \subseteq Nat \ {0}
  /\ {ChangeDay, OldCeiling, NewCeiling} \subseteq Nat
  /\ OldCeiling < NewCeiling
  /\ OwnCeilings \subseteq Nat /\ Wages \subseteq Nat \ {0}

\* No such column, or no such row.
Absent == -1
NoRow == [wage |-> 0, pf |-> Absent, arrear |-> 0]

VARIABLES
  settings,  \* the ceiling the company configured, and whether PF is restricted to it
  register,  \* the row of each month: PF wage, PF deducted, and the PF arrear line
  found      \* what the validation of each month found

vars == <<settings, register, found>>

Init ==
  /\ settings \in [own : OwnCeilings, restricted : BOOLEAN]
  /\ register = <<>>
  /\ found = <<>>

--------------------------------------------------------------------------------
(* The ceiling of a month.                                                 *)

FirstDay(m) == (m - 1) * MonthDays

StatutoryOn(day) == IF day < ChangeDay THEN OldCeiling ELSE NewCeiling

\* A company's own can raise it and never lower it.
Old(m, own) == Max({own, StatutoryOn(FirstDay(m))})
New(m, own) == Max({own, StatutoryOn(FirstDay(m + 1) - 1)})

Transition(m, own) == Old(m, own) # New(m, own)

\* ceiling_for_month.
CeilingOf(m, own) ==
  IF Transition(m, own)
  THEN (Old(m, own) * (ChangeDay - FirstDay(m)) + New(m, own) * (FirstDay(m + 1) - ChangeDay)) \div MonthDays
  ELSE New(m, own)

\* compute_pf.
Share(wage, ceiling) == IF settings.restricted THEN Min({wage, ceiling}) ELSE wage

\* The share on the other basis, where it differs (_alternate_basis_match).
OtherBasis(wage, ceiling) == IF settings.restricted THEN wage ELSE Min({wage, ceiling})

Expected(m, row) == Share(row.wage, CeilingOf(m, settings.own))

Prior(m) == IF m = 1 THEN NoRow ELSE register[m - 1]

\* Mutant of RecoveryDue: the change month is asked for its old ceiling only.
RecoveryDueAtOld(m) ==
  LET short == Share(Prior(m).wage, Old(m - 1, 0)) - Prior(m).pf
  IN IF m > 1 /\ Transition(m - 1, 0) /\ Prior(m).pf # Absent /\ short > 0 THEN short ELSE 0

\* _change_month_shortfall: what the month of the change was short by, on the
\* statute's ceilings alone.
RecoveryDue(m) ==
  LET short == Share(Prior(m).wage, CeilingOf(m - 1, 0)) - Prior(m).pf
  IN IF m > 1 /\ Transition(m - 1, 0) /\ Prior(m).pf # Absent /\ short > 0 THEN short ELSE 0

--------------------------------------------------------------------------------
(* What the validation of a month finds.                                   *)

\* The month of the change, on the old ceiling: to be recovered in the next.
ShortOnOld(m, row) ==
  /\ Transition(m, settings.own)
  /\ row.pf = Share(row.wage, Old(m, settings.own))
  /\ row.pf < Expected(m, row)

\* Anything between the two ceilings is accepted in it.
AcceptedBetween(m, row) ==
  /\ Transition(m, settings.own)
  /\ Share(row.wage, Old(m, settings.own)) <= row.pf
  /\ row.pf <= Share(row.wage, New(m, settings.own))

RecoveredInLine(m, row) == RecoveryDue(m) > 0 /\ row.pf = Expected(m, row) + RecoveryDue(m)

RecoveryFindings(m, row) ==
  IF RecoveryDue(m) > 0
  THEN IF RecoveredInLine(m, row)
       THEN IF row.arrear > 0 THEN {"PF-012 twice"} ELSE {}
       ELSE IF row.arrear = 0 THEN {"PF-012 missing"}
       ELSE IF row.arrear # RecoveryDue(m) THEN {"PF-012 wrong"} ELSE {}
  ELSE IF row.arrear > 0 /\ Prior(m).arrear > 0 THEN {"PF-013"} ELSE {}

ShareFindings(m, row) ==
  IF \/ row.pf = Expected(m, row)
     \/ AcceptedBetween(m, row)
     \/ RecoveredInLine(m, row)
  THEN {}
  ELSE IF row.pf = OtherBasis(row.wage, CeilingOf(m, settings.own)) THEN {"PF-009"} ELSE {"STAT-001"}

\* Findings that tell, and fail nobody.
Informative == {"PF-012 info", "STAT-001 absent"}

Findings(m, row) ==
  IF row = NoRow THEN {}
  ELSE IF row.pf = Absent THEN {"STAT-001 absent"}
  ELSE (IF ShortOnOld(m, row) THEN {"PF-012 info"} ELSE {})
         \cup ShareFindings(m, row) \cup RecoveryFindings(m, row)

--------------------------------------------------------------------------------

\* PF on either ceiling or the weighted one, on either basis, with the recovery in
\* it, or no column; a separate arrear line for the recovery, for another amount,
\* or none; or no row.
Rows(m) ==
  {NoRow}
    \cup UNION {
      LET shares == {Share(wage, c) : c \in {Old(m, settings.own), CeilingOf(m, settings.own), New(m, settings.own)}}
                      \cup {wage, Share(wage, CeilingOf(m, settings.own)) + RecoveryDue(m)}
      IN [wage : {wage}, pf : shares \cup {Absent}, arrear : {0, 1, RecoveryDue(m)}] : wage \in Wages}

Pay ==
  LET m == Len(register) + 1
  IN /\ m <= MonthBound
     /\ \E row \in Rows(m) :
          /\ register' = Append(register, row)
          /\ found' = Append(found, Findings(m, row))
     /\ UNCHANGED settings

Next == Pay

Spec == Init /\ [][Next]_vars

--------------------------------------------------------------------------------
(* What the code says of itself.                                           *)

TypeOK ==
  /\ settings \in [own : OwnCeilings, restricted : BOOLEAN]
  /\ register \in Seq([wage : Wages \cup {0}, pf : Nat \cup {Absent}, arrear : Nat])
  /\ Len(found) = Len(register)

Deducted(n) == MapThenSumSet(LAMBDA m : register[m].pf + register[m].arrear, 1..n)
Due(n) == MapThenSumSet(LAMBDA m : Expected(m, register[m]), 1..n)

\* Once the month of the change is past, an employee with less PF deducted than
\* was due so far is in a finding that fails (docs/CLIENT_USER_MANUAL.md:170):
\* of registers that have the employee and the column every month, in a company
\* whose own ceiling is not between the statute's two.
ShortfallIsReported ==
  LET n == Len(register)
  IN /\ n > 0
     /\ FirstDay(n) > ChangeDay
     /\ \A m \in 1..n : register[m].pf # Absent
     /\ ~(OldCeiling < settings.own /\ settings.own < NewCeiling)
     /\ Deducted(n) < Due(n)
     => \E m \in 1..n : found[m] \ Informative # {}
================================================================================

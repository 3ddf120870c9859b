------------------------------ MODULE PayRevisions ------------------------------
(***************************************************************************)
(* An employee's pay over the months, the revisions of their pay, and what *)
(* the validation of each month says of them: pay at the rate in force,    *)
(* blended where a revision starts inside the month, and the arrear of the *)
(* months before.                                                          *)
(*                                                                         *)
(*   services/increments.py     structure_for_month, expected_arrears,     *)
(*                              classify_pay_mismatches                    *)
(*   services/validation.py     _latest_ctcs, _lop_proration_check,        *)
(*                              _increment_arrears, _arrears_paid_before   *)
(*   services/rule_engine_v2.py build_findings: P5, MOM-006                *)
(*   services/month_checks.py   an arrear paid once only                   *)
(*                                                                         *)
(* One component.  A month's full pay at a rate is that rate times         *)
(* MonthDays squared, so that every share of it is whole, and the          *)
(* tolerance of one rupee is none.  Registers come in order, each is       *)
(* validated once, and no row states the months its arrear is for.  Moves  *)
(* from one month to the next within a threshold, and beyond it, are left  *)
(* out: nothing here rests on what is said of them.                        *)
(***************************************************************************)
EXTENDS Integers, Sequences, FiniteSets, FiniteSetsExt

CONSTANTS
  MonthDays,     \* days of a month
  Rates,         \* the rates of pay; employment begins at the lowest
  MonthBound,    \* bound: months
  RevisionBound  \* bound: revisions after the first rate

PayAssumption == /\ {MonthDays, MonthBound, RevisionBound} \subseteq Nat \ {0}
                 /\ Rates \subseteq Nat \ {0}
                 /\ Rates # {}

VARIABLES
  ctc,       \* the CTC records: from which day, at which rate
  register,  \* the month's row: what was paid, the arrear paid, the days paid
  run        \* the month's validation: what it found, and the records it had

vars == <<ctc, register, run>>

FirstDay(m) == (m - 1) * MonthDays
MonthOf(d) == d \div MonthDays + 1
Days == 0..(MonthBound * MonthDays - 1)

Init ==
  /\ ctc = {[from |-> 0, rate |-> Min(Rates)]}
  /\ register = <<>>
  /\ run = <<>>

--------------------------------------------------------------------------------
(* The two newest records, and the month they make.                        *)

Newest(records) == CHOOSE r \in records : \A other \in records : other.from <= r.from

\* In force by the end of the month, so that a revision inside it is seen.
Known(m) == {r \in ctc : r.from < FirstDay(m + 1)}
Latest(m) == Newest(Known(m))
Revised(m) == Cardinality(Known(m)) > 1
Previous(m) == IF Revised(m) THEN Newest(Known(m) \ {Latest(m)}) ELSE Latest(m)

MidMonth(m) == Revised(m) /\ Latest(m).from > FirstDay(m)

\* structure_for_month: the days of the month at the new rate.
DaysAtNew(m) == IF MidMonth(m) THEN FirstDay(m + 1) - Latest(m).from ELSE MonthDays

AtRate(rate, paid) == rate * MonthDays * paid

\* The month's structure, less the days lost.
Expected(m, paid) ==
  (Previous(m).rate * (MonthDays - DaysAtNew(m)) + Latest(m).rate * DaysAtNew(m)) * paid

\* Mutant of ExpectedArrear: the month the revision starts in is left out.
ExpectedArrearWhole(m) ==
  LET from == FirstDay(MonthOf(Latest(m).from) + 1)
  IN IF Revised(m) /\ from < FirstDay(m)
     THEN (Latest(m).rate - Previous(m).rate) * MonthDays * (FirstDay(m) - from) ELSE 0

\* expected_arrears: the difference, from the day of the revision to the end of
\* the month before this one; whatever those months were paid.
ExpectedArrear(m) ==
  IF Revised(m) /\ Latest(m).from < FirstDay(m)
  THEN (Latest(m).rate - Previous(m).rate) * MonthDays * (FirstDay(m) - Latest(m).from) ELSE 0

--------------------------------------------------------------------------------
(* What the validation of a month finds.                                   *)

\* classify_pay_mismatches: pay at one of the two rates, where the days say
\* otherwise, is about the revision; any other difference is about proration.
PayFindings(m, row) ==
  LET old == AtRate(Previous(m).rate, row.paid)
      new == AtRate(Latest(m).rate, row.paid)
  IN IF row.pay = Expected(m, row.paid) THEN {}
     ELSE IF MidMonth(m) /\ row.pay \in {old, new} /\ old # new THEN {"INC-002"}
     ELSE IF ~ MidMonth(m) /\ row.pay = old /\ old # new THEN {"INC-001"}
     ELSE {"LOP-002"}

PaidBefore(m) ==
  \E k \in 1..(m - 1) : k >= MonthOf(Latest(m).from) /\ register[k].arrear > 0

\* _increment_arrears, INC-003, and the arrear paid twice.
ArrearFindings(m, row) ==
  (IF ExpectedArrear(m) # 0 /\ row.arrear # ExpectedArrear(m) THEN {"MOM-006"} ELSE {})
    \cup (IF row.arrear > 0 /\ ExpectedArrear(m) = 0 THEN {"INC-003"} ELSE {})
    \cup (IF row.arrear > 0 /\ Revised(m) /\ PaidBefore(m) THEN {"ARR-005"} ELSE {})

Findings(m, row) == PayFindings(m, row) \cup ArrearFindings(m, row)

--------------------------------------------------------------------------------

\* A CTC report is committed: one record for a day, for the past or not.
Revise ==
  /\ Cardinality(ctc) <= RevisionBound
  /\ \E d \in Days, rate \in Rates :
       /\ \A r \in ctc : r.from # d
       /\ rate > Newest(ctc).rate
       /\ ctc' = ctc \cup {[from |-> d, rate |-> rate]}
  /\ UNCHANGED <<register, run>>

\* Pay at the rate in force, or at one of the two; an arrear as expected, a day
\* short, or none; a day's pay lost, or none.
Rows(m) ==
  {row \in [pay : UNION {{Expected(m, p), AtRate(Latest(m).rate, p), AtRate(Previous(m).rate, p)} :
                         p \in {MonthDays - 1, MonthDays}},
            arrear : {a \in {0, ExpectedArrear(m), ExpectedArrear(m) - MonthDays} : a >= 0},
            paid : {MonthDays - 1, MonthDays}] :
     row.pay \in {Expected(m, row.paid), AtRate(Latest(m).rate, row.paid), AtRate(Previous(m).rate, row.paid)}}

\* The next month's register is stored and validated.
Pay ==
  LET m == Len(register) + 1
  IN /\ m <= MonthBound
     /\ \E row \in Rows(m) :
          /\ register' = Append(register, row)
          /\ run' = Append(run, [found |-> Findings(m, row), ctc |-> ctc])
     /\ UNCHANGED ctc

Next == Revise \/ Pay

Spec == Init /\ [][Next]_vars

--------------------------------------------------------------------------------
(* What the code says of itself.                                           *)

TypeOK ==
  /\ ctc \subseteq [from : Days, rate : Rates]
  /\ register \in Seq([pay : Nat, arrear : Nat, paid : 1..MonthDays])
  /\ Len(run) = Len(register)

Sum(S, Op(_)) == MapThenSumSet(Op, S)

RateOn(records, d) == Newest({r \in records : r.from <= d}).rate

\* What the months so far are worth: each day at the rate in force on it, less
\* the days lost.
Owed(records, n) ==
  LET perDay(m) == Sum(FirstDay(m)..(FirstDay(m + 1) - 1), LAMBDA d : RateOn(records, d))
  IN Sum(1..n, LAMBDA m : perDay(m) * register[m].paid)

Paid(n) == Sum(1..n, LAMBDA m : register[m].pay + register[m].arrear)

\* An employee who is owed more than they were paid is in a finding of some
\* month so far (docs/CLIENT_USER_MANUAL.md:314): of one revision, however late
\* it was recorded. Of two at once, only the newer is compared.
UnderpaymentIsReported ==
  Len(run) > 0 /\ Cardinality(run[Len(run)].ctc) <= 2 /\ Paid(Len(run)) < Owed(run[Len(run)].ctc, Len(run)) =>
    \E m \in DOMAIN run : run[m].found # {}
================================================================================

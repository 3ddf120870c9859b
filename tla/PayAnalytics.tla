------------------------------ MODULE PayAnalytics ------------------------------
(***************************************************************************)
(* What the cost pages say of the registers of a company: the bridge       *)
(* between two months, the trend, the analysis by department over months,  *)
(* quarters and years, the comparison of two months, and the movement of   *)
(* the headcount (services/analytics.py, cost_model.py,                    *)
(* workforce_analytics.py).                                                *)
(*                                                                         *)
(* Each page reads the same register rows in a way of its own: the bridge  *)
(* and the trend keep one row per employee, the others every row.          *)
(* Registers arrive month by month, in any order and more than once, so a  *)
(* page may find a month missing, a department that is closed, or somebody *)
(* listed twice.  Amounts are small whole numbers; a day's pay need not be *)
(* whole, so the bridge is taken in units of 1/Unit.  Rounding is left     *)
(* out, and so are the names of the measures: earnings, arrears and what   *)
(* the employer adds stand for their layers.                               *)
(***************************************************************************)
EXTENDS Integers, FiniteSets, FiniteSetsExt

CONSTANTS
  Employees,
  Months,        \* consecutive months of the calendar, 1 for January of the first year
  Pays,          \* what a row may say: regular, arrears, days (NoDays if not stated), group, employer (Unstated)
  Capped,        \* those whose PF is restricted to the ceiling
  Ceiling,
  Unit,          \* a multiple of every number of days
  UploadBound    \* how many registers are uploaded

NoDays == -1
Unstated == -1

AnalyticsAssumption ==
  /\ Months \subseteq Nat
  /\ Unit \in Nat \ {0}
  /\ \A p \in Pays : p.days > 0 => Unit % p.days = 0

VARIABLES
  register,   \* the rows of each month: {} if there is no register
  uploads     \* how many were uploaded

vars == <<register, uploads>>

Sum(S, Op(_)) == FoldSet(LAMBDA x, acc : Op(x) + acc, 0, S)

\* A row by its employee, its place among the employee's rows and what it says.
Row(e, n, p) == [employee |-> e, place |-> n, pay |-> p]

\* At most one employee is listed twice, which is a finding but no obstacle.
Registers ==
  {{Row(e, 1, pays[e]) : e \in present} : present \in (SUBSET Employees) \ {{}}, pays \in [Employees -> Pays]}
  \cup {{Row(e, 1, pays[e]) : e \in Employees} \cup {Row(d, 2, pays[d])} : d \in Employees, pays \in [Employees -> Pays]}

Present == {m \in Months : register[m] # {}}

People(rows) == {r.employee : r \in rows}

--------------------------------------------------------------------------------
\* The months of the pages of the bridge and of the trend: one row per employee, the
\* last of them.
LoadMonth(m) == {r \in register[m] : \A q \in register[m] : q.employee = r.employee => q.place <= r.place}

Total(r) == r.pay.regular + r.pay.arrears

Of(rows, e) == (CHOOSE r \in rows : r.employee = e).pay

\* In units: who came and who went count whole, with the sign of the change.
Whole(then, now) ==
  Unit * (Sum({r \in now : r.employee \notin People(then)}, Total)
        - Sum({r \in then : r.employee \notin People(now)}, Total))

\* Mutant: those who went are left out.
WholeJoiners(then, now) == Unit * Sum({r \in now : r.employee \notin People(then)}, Total)

\* The change of days at the daily rate of the month before, where there is one.
AttendanceDelta(was, now) ==
  IF was.days > 0 /\ now.days # NoDays
  THEN was.regular * (Unit \div was.days) * (now.days - was.days)
  ELSE 0

\* What is left of the change in pay is a pay change.
PayDelta(was, now) == Unit * (now.regular - was.regular) - AttendanceDelta(was, now)

Both(then, now) == People(then) \cap People(now)

Bridge(a, b) ==
  LET then == LoadMonth(a)
      now == LoadMonth(b)
      arrears == Sum(Both(then, now), LAMBDA e : Unit * (Of(now, e).arrears - Of(then, e).arrears))
      attendance == Sum(Both(then, now), LAMBDA e : AttendanceDelta(Of(then, e), Of(now, e)))
      change == Sum(Both(then, now), LAMBDA e : PayDelta(Of(then, e), Of(now, e)))
  IN [opening |-> Sum(then, Total), closing |-> Sum(now, Total),
      explained |-> Whole(then, now) + arrears + attendance + change]

\* The trend: the newest months that have a register, with their cost.
Trend(n) ==
  LET newest == {m \in Present : Cardinality({k \in Present : k > m}) < n}
  IN {[month |-> m, cost |-> Sum(LoadMonth(m), Total), heads |-> Cardinality(People(LoadMonth(m)))] : m \in newest}

--------------------------------------------------------------------------------
\* A row, costed: what the register states of the employer's share wins over what the
\* configuration gives, which is of the whole wage or of the wage up to the ceiling.
Employer(r) ==
  IF r.pay.employer # Unstated THEN r.pay.employer
  ELSE IF r.employee \in Capped /\ r.pay.regular > Ceiling THEN Ceiling ELSE r.pay.regular

CostRow(r) == [gross |-> Total(r), ctc |-> Total(r) + Employer(r)]

Gross(r) == CostRow(r).gross
Ctc(r) == CostRow(r).ctc

\* Months, quarters of the financial year (which begins in April), or its years by the calendar.
Bucket(m, granularity) ==
  CASE granularity = "month" -> m
    [] granularity = "quarter" -> (m - 4) \div 3
    [] granularity = "year" -> (m - 1) \div 12

Granularities == {"month", "quarter", "year"}

Groups == {p.group : p \in Pays}

\* The rows of a bucket and a group, over the months and the groups asked for.
Cell(granularity, wanted, b, groups) ==
  UNION {{[month |-> m, row |-> r] : r \in {q \in register[m] : q.pay.group \in groups \cap wanted}} :
           m \in {k \in Present : Bucket(k, granularity) = b}}

Cost(cell) == Sum(cell, LAMBDA c : Ctc(c.row))

\* An employee counts once for each month on a register, in each of their groups.
PersonMonths(cell) == Cardinality({<<c.month, c.row.employee>> : c \in cell})

Buckets(granularity) == {Bucket(m, granularity) : m \in Present}

\* The analysis by group over time: a cell for each bucket and group, and the totals.
CostAnalysis(granularity, wanted) ==
  [matrix |-> [c \in Buckets(granularity) \X Groups |-> Cost(Cell(granularity, wanted, c[1], {c[2]}))],
   periods |-> [b \in Buckets(granularity) |-> Cost(Cell(granularity, wanted, b, Groups))],
   months |-> [b \in Buckets(granularity) |-> PersonMonths(Cell(granularity, wanted, b, Groups))],
   gross |-> Sum(Buckets(granularity), LAMBDA b : Sum(Cell(granularity, wanted, b, Groups), LAMBDA c : Gross(c.row)))]

\* Mutant: the groups of the earlier month.
ComparedToEarlier(a, b, wanted) == {r.pay.group : r \in register[a]} \cap wanted

\* Two months side by side: every group that is in one of them.
Compared(a, b, wanted) == {r.pay.group : r \in register[a] \cup register[b]} \cap wanted

CostCompare(a, b, wanted) ==
  LET rows(m, groups) == {r \in register[m] : r.pay.group \in groups \cap wanted}
  IN [totals |-> Sum(rows(b, wanted), Ctc) - Sum(rows(a, wanted), Ctc),
      groups |-> Sum(Compared(a, b, wanted), LAMBDA g : Sum(rows(b, {g}), Ctc) - Sum(rows(a, {g}), Ctc))]

\* The headcount from one register to the next, over the months that are missing. The
\* first has no month before it, and so neither joiners nor exits.
Before(m) == {k \in Present : k < m}

Movement ==
  [m \in Present |->
     LET now == People(register[m])
         then == IF Before(m) = {} THEN now ELSE People(register[Max(Before(m))])
     IN [opening |-> Cardinality(then), joiners |-> Cardinality(now \ then),
         exits |-> Cardinality(then \ now), closing |-> Cardinality(now)]]

--------------------------------------------------------------------------------
Init == register = [m \in Months |-> {}] /\ uploads = 0

\* A register replaces the one of its month.
Upload(m) ==
  /\ uploads < UploadBound
  /\ register' \in {[register EXCEPT ![m] = rows] : rows \in Registers}
  /\ uploads' = uploads + 1

Next == \E m \in Months : Upload(m)

Spec == Init /\ [][Next]_vars

--------------------------------------------------------------------------------
Once(m) == Cardinality(register[m]) = Cardinality(People(register[m]))

\* Every bridge closes (analytics.py:13: "its components sum exactly to the observed
\* change"), over missing months, new and closed departments and unknown days; the
\* groups of a comparison sum to its change (analytics.py:789), the cells of an analysis to
\* its periods, whatever their length; the headcount rolls forward; and all of them tell the
\* same cost of a month, as long as nobody is listed twice: the bridge and the trend take
\* one of the rows, the others both.
PagesAgree ==
  /\ \A a, b \in Months :
       LET bridge == Bridge(a, b) IN
       /\ bridge.explained = Unit * (bridge.closing - bridge.opening)
       /\ \A wanted \in SUBSET Groups : CostCompare(a, b, wanted).totals = CostCompare(a, b, wanted).groups
  /\ \A granularity \in Granularities, wanted \in SUBSET Groups :
       LET analysis == CostAnalysis(granularity, wanted) IN
       \A b \in Buckets(granularity) :
         /\ analysis.periods[b] = Sum(Groups, LAMBDA g : analysis.matrix[<<b, g>>])
         /\ analysis.months[b] = Sum({m \in Present : Bucket(m, granularity) = b},
                                     LAMBDA m : CostAnalysis("month", wanted).months[m])
  /\ \A m \in Present : Movement[m].opening + Movement[m].joiners - Movement[m].exits = Movement[m].closing
  /\ (\A m \in Present : Once(m)) =>
       \A granularity \in Granularities :
         CostAnalysis(granularity, Groups).gross = Sum(Trend(Cardinality(Months)), LAMBDA t : t.cost)
================================================================================

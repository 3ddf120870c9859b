------------------------------- MODULE StateSlabs -------------------------------
(***************************************************************************)
(* Professional tax and labour welfare fund: the slabs a company keeps for *)
(* one state (routers/rule_engine.py), what a month owes by them           *)
(* (services/validation.py, lookup_pt and lookup_lwf), the deductions a    *)
(* validation examines, and what the cost of the month is taken to be      *)
(* (services/cost_model.py).                                               *)
(*                                                                         *)
(* A month has two days, its first and its last.  Wages and amounts are    *)
(* whole.  A slab that applies for several months is compared with the     *)
(* wage of as many, and its amount is shared out among them.  An amount    *)
(* that two slabs of one rank could give is left open: the order of such   *)
(* rows is not stated.  An employee's state is the same wherever it is     *)
(* asked for: that a validation goes by the master first and takes any     *)
(* spelling, and the cost by the register's own row, is left out.          *)
(***************************************************************************)
EXTENDS Integers, Sequences, FiniteSets

CONSTANTS
  Drafts,      \* slabs a company may save
  Defaults,    \* the product's slabs for this state, undated and in order
  Seeds,       \* the reference slabs, used where a company has none
  Wages,
  Months,
  HalfYear,    \* the months of half a year
  JuneAndDecember,   \* when a half-yearly contribution is due that names no months
  Tolerance

None == 0    \* an undated slab
Genders == {"ALL", "MALE", "FEMALE"}

\* From and to are days, or None. No amount is below zero: the code refuses none, and
\* no state levies one.
Draft ==
  [lo : Int, hi : Int, amount : Nat, per : Nat \ {0}, gender : Genders, months : SUBSET Nat, from : Nat, to : Nat]
Row ==
  [lo : Int, hi : Int, amount : Nat, per : Nat \ {0}, gender : Genders, months : SUBSET Nat, from : Nat, to : Nat,
   place : Nat]

SlabAssumption ==
  /\ HalfYear \in Nat \ {0} /\ Tolerance \in Nat
  /\ Months \subseteq Nat \ {0}
  /\ Drafts \subseteq Draft /\ IsFiniteSet(Drafts)
  /\ Defaults \subseteq Row /\ Seeds \subseteq Row
  /\ \A r \in Drafts \cup Defaults \cup Seeds : r.lo <= r.hi /\ (r.to # 0 => r.from <= r.to)

FirstDay(m) == 2 * m - 1
LastDay(m) == 2 * m

VARIABLES
  scheme,    \* "PT" or "LWF"
  rows,      \* the company's slabs for the state, each with its place in the order
  listed     \* the states the settings name, in order: this one, "here", and another

vars == <<scheme, rows, listed>>

Lists == {<<>>, <<"here">>, <<"there">>, <<"here", "there">>, <<"there", "here">>}
Listed == {listed[i] : i \in DOMAIN listed}

Init ==
  /\ scheme \in {"PT", "LWF"}
  /\ rows = {}
  /\ listed \in Lists

Placed(r, place) ==
  [lo |-> r.lo, hi |-> r.hi, amount |-> r.amount, per |-> r.per, gender |-> r.gender, months |-> r.months,
   from |-> r.from, to |-> r.to, place |-> place]

--------------------------------------------------------------------------------
\* Saving replaces all slabs of the state. Two that apply to the same people in the
\* same months from and to the same days must not overlap.
Bucket(r) == <<r.gender, r.months, r.from, r.to>>

Accepted(s) ==
  \A r, q \in s : r # q /\ Bucket(r) = Bucket(q) => r.hi < q.lo \/ q.hi < r.lo

GenderRank == [ALL |-> 0, MALE |-> 1, FEMALE |-> 2]

\* By gender, then those for every month, then by date, then by wage.
Before(q, r) ==
  LET key(x) == <<GenderRank[x.gender], IF x.months = {} THEN 0 ELSE 1, x.from, x.lo>>
      a == key(q)
      b == key(r)
  IN \E i \in 1..4 : a[i] < b[i] /\ \A j \in 1..(i - 1) : a[j] = b[j]

Save(s) ==
  /\ Accepted(s)
  /\ rows' = {Placed(r, Cardinality({q \in s : Before(q, r)})) : r \in s}
  /\ UNCHANGED <<scheme, listed>>

\* The product's slabs replace the company's, or are put beside them.
ImportDefaults(overwrite) ==
  /\ rows' = (IF overwrite THEN {} ELSE rows) \cup Defaults
  /\ UNCHANGED <<scheme, listed>>

\* For all states at once: where a company has its own they stay.
ImportAllDefaults ==
  /\ rows' = IF rows = {} THEN Defaults ELSE rows
  /\ UNCHANGED <<scheme, listed>>

\* An owner names the states the scheme is run in.
SetStates(s) == listed' = s /\ UNCHANGED <<scheme, rows>>

Next ==
  \/ \E s \in SUBSET Drafts : Save(s)
  \/ \E overwrite \in BOOLEAN : ImportDefaults(overwrite)
  \/ ImportAllDefaults
  \/ \E s \in Lists : SetStates(s)

Spec == Init /\ [][Next]_vars

--------------------------------------------------------------------------------
\* The slabs of one schedule: those in force on a day that came in force last.
InForce(r, day) == (r.from = None \/ r.from <= day) /\ (r.to = None \/ r.to >= day)

Cohort(day) ==
  {r \in rows : InForce(r, day) /\ \A q \in rows : InForce(q, day) => q.from <= r.from}

GoesBefore(r, q) == r.place < q.place \/ (r.place = q.place /\ r.lo <= q.lo)
First(s) == {r \in s : \A q \in s : GoesBefore(r, q)}

Reaches(r, wage) == r.lo <= wage * r.per /\ wage * r.per <= r.hi

\* Shared out among the months of the period, rounded half up.
PerMonth(amount, per) == (2 * amount + per) \div (2 * per)

\* A man's slabs apply to whoever's gender is not known.
MatchGenders(g) == IF g = "ALL" THEN {"ALL", "MALE"} ELSE {"ALL", g}

\* A slab for certain months goes before one for all, then one for a gender.
Score(r, g) ==
  (IF r.months # {} THEN 2 ELSE 0) + (IF r.gender = g /\ g # "ALL" THEN 1 ELSE 0)

SeedAmounts(day, wage) ==
  LET fits == {s \in Seeds : InForce(s, day) /\ s.lo <= wage /\ wage <= s.hi}
  IN IF fits = {} THEN {0} ELSE {s.amount : s \in First(fits)}

\* lookup_pt: a company that has slabs and none that fits owes nothing.
PtAmounts(day, month, wage, g) ==
  LET fits == {r \in Cohort(day) : /\ Reaches(r, wage) /\ r.gender \in MatchGenders(g)
                                   /\ r.months = {} \/ month \in r.months}
      best == {r \in fits : \A q \in fits : Score(q, g) <= Score(r, g)}
  IN IF rows = {} THEN SeedAmounts(day, wage)
     ELSE IF fits = {} THEN {0}
     ELSE {PerMonth(r.amount, r.per) : r \in First(best)}

\* lookup_lwf: in full in the months that are named, or shared out.
DueIn(r) == IF r.months = {} /\ r.per = HalfYear THEN JuneAndDecember ELSE r.months

LwfAmounts(day, month, wage) ==
  LET fits == {r \in Cohort(day) : Reaches(r, wage)}
      due(r) == IF DueIn(r) = {} THEN PerMonth(r.amount, r.per)
                ELSE IF month \in DueIn(r) THEN r.amount ELSE 0
  IN IF wage = 0 THEN {0}
     ELSE IF rows = {} THEN SeedAmounts(day, wage)
     ELSE IF fits = {} THEN {0}
     ELSE {due(r) : r \in First(fits)}

Amounts(day, month, wage, g) ==
  IF scheme = "PT" THEN PtAmounts(day, month, wage, g) ELSE LwfAmounts(day, month, wage)

\* A validation takes the schedule of the month's last day, and the gender it knows.
Asked(m, wage, g) == Amounts(LastDay(m), m, wage, g)

--------------------------------------------------------------------------------
\* The states the scheme is run in: those listed, and one whose slabs are saved.
Configured == Listed \cup (IF rows = {} THEN {} ELSE {"here"})

OnlyOne(s) == IF Cardinality(s) = 1 THEN s ELSE {}

\* The state a row is worked out for. One that names none is taken to be in the only
\* state there is, those listed first.
Selected(where) ==
  IF where # "none" THEN Configured \cap {where}
  ELSE IF OnlyOne(Listed) # {} THEN Listed ELSE OnlyOne(Configured)

\* _state_for: the cost knows the list and not the slabs. Where it does not name the
\* state, it takes the first it does name.
CostState(where) ==
  IF where # "none" /\ (listed = <<>> \/ where \in Listed) THEN {where}
  ELSE IF listed = <<>> THEN {} ELSE {Head(listed)}

\* What the cost of a month takes: the schedule of its first day, of no gender. Of the
\* other state nothing is known.
Costed(m, where, wage) == IF "here" \in CostState(where) THEN Amounts(FirstDay(m), m, wage, "ALL") ELSE {0}

\* Slabs are saved, and none is in force when the month begins.
Gap(m) == rows # {} /\ Cohort(FirstDay(m)) = {}

Off(a, b) == IF a < b THEN b - a > Tolerance ELSE a - b > Tolerance

\* What a validation says of one employee's deduction, when it expects `due`.
StateFinding(where, deducted) ==
  Configured # {} /\ Selected(where) = {} /\ (where # "none" => deducted > 0)

RateFinding(m, where) == "here" \in Selected(where) /\ Gap(m)

\* Mutant: a deduction where nothing is due is let be.
MismatchIfDue(m, where, due, deducted) == due > 0 /\ Off(deducted, due)

Mismatch(m, where, due, deducted) ==
  \/ due > 0 /\ Off(deducted, due)
  \/ due = 0 /\ Selected(where) # {} /\ ~RateFinding(m, where) /\ deducted > Tolerance

\* What is expected of an employee: of the other state nothing is known.
Expected(m, where, wage, g) == IF "here" \in Selected(where) THEN Asked(m, wage, g) ELSE {0}

--------------------------------------------------------------------------------
\* No deduction goes unexamined where the scheme is run at all: it is what the slabs
\* ask, or it is in a finding (validation.py:986, "is a silent pass").
DeductionsAreExamined ==
  Configured # {} =>
    \A m \in Months, where \in {"here", "there", "nowhere", "none"}, wage \in Wages, g \in Genders :
      \A due \in Expected(m, where, wage, g), deducted \in {Tolerance + 1, 2 * Tolerance + 2} :
        \/ due > 0 /\ ~Off(deducted, due)
        \/ Mismatch(m, where, due, deducted)
        \/ StateFinding(where, deducted)
        \/ RateFinding(m, where)

\* A state that is run and that the list, if there is one, names; or none is named and
\* the list is of one state, or the scheme is run nowhere.
PlainlySet(where) ==
  IF where = "none" THEN Len(listed) = 1 \/ Configured = {}
  ELSE where \in Configured /\ (listed = <<>> \/ where \in Listed)

\* The cost of a month is what its validation asks for, where the state is plainly set,
\* no schedule begins or ends within the month and the gender makes no difference
\* (cost_model.py:378). Elsewhere they part: an employee of a state that the list leaves
\* out, of one that is not run, or of none, is costed as one of the first listed.
CostIsWhatIsAsked ==
  \A m \in Months, where \in {"here", "there", "nowhere", "none"}, wage \in Wages, g \in Genders :
    /\ PlainlySet(where)
    /\ Cohort(FirstDay(m)) = Cohort(LastDay(m))
    /\ \A r \in rows : r.gender = "ALL"
    /\ rows = {} => \A s \in Seeds : InForce(s, FirstDay(m)) <=> InForce(s, LastDay(m))
    => Costed(m, where, wage) = Expected(m, where, wage, g)

Content(r) == [r EXCEPT !.place = 0]
Contents(s) == {Content(r) : r \in s}

\* The slabs that stay are found in the order they were in. Saved anew they are sorted,
\* so that two of one schedule that overlap, which the check of a save misses where one
\* ends earlier, and an import beside them, may change places.
OrderStays ==
  \A r, q \in rows, s, t \in rows' :
    Content(r) = Content(s) /\ Content(q) = Content(t) => (GoesBefore(r, q) <=> GoesBefore(s, t))

\* Slabs that come in force after a month do not change what it owes, unless the
\* company had none and the month is now in a finding (validation.py:940).
OldMonthsKeepTheirDues ==
  \A m \in Months :
    LET changed == (Contents(rows) \cup Contents(rows')) \ (Contents(rows) \cap Contents(rows'))
    IN OrderStays /\ (\A r \in changed : r.from > LastDay(m)) =>
         (rows = {} /\ Gap(m)') \/ (rows' = {} /\ Gap(m))
           \/ \A wage \in Wages, g \in Genders : Asked(m, wage, g)' = Asked(m, wage, g)
================================================================================

----------------------------- MODULE RuleEvaluation -----------------------------
(***************************************************************************)
(* What a company's own rule concludes for one employee, in three-valued   *)
(* logic: an input that is missing is unknown, never false.                *)
(*                                                                         *)
(*   services/validation_matrix.py  _resolve, _compare, condition_result,  *)
(*                                  _dimension, applicability, outcome     *)
(*                                                                         *)
(* One rule and one employee, whose inputs are recorded one at a time.  An *)
(* operand is a field of the row (components, deductions and last month's  *)
(* row are read alike) or an expression over two of them; the right side   *)
(* is the number 0 and the tolerance none.                                 *)
(***************************************************************************)
EXTENDS Sequences

CONSTANTS
  Rules \* the rules tried

VARIABLES
  rule,  \* the rule, once one is tried
  row    \* the employee's row, with what the master says of them

vars == <<rule, row>>

Missing == "missing"
Text == "text"
Numbers == {"0", "1"}

Values == [x |-> Numbers \cup {Text}, y |-> Numbers, state |-> {"KA", "MH"},
           department |-> {"Sales", "Unassigned"}, master |-> {"Sales", "Ops"}]

Fields == DOMAIN Values

NoRule == [onMissing |-> "none"]

\* Nothing is recorded of the employee.
Init == rule = NoRule /\ row = [f \in Fields |-> Missing]

--------------------------------------------------------------------------------
(* Comparisons and conditions.                                             *)

IsNumber(v) == v \in Numbers

\* _resolve: a ratio is unknown without both its numbers, and over zero; over
\* one it is the number itself.
Resolve(operand) ==
  IF operand # "x / y" THEN row[operand]
  ELSE IF IsNumber(row.x) /\ row.y = "1" THEN row.x
  ELSE Missing

Truth(b) == IF b THEN "true" ELSE "false"

\* A text is compared with the number as a text, for equality and no more.
Compare(c) ==
  LET left == Resolve(c.left)
  IN CASE left = Missing -> "unknown"
       [] left # Missing /\ c.op = "present" -> "true"
       [] left = Text /\ c.op = "eq" -> "false"
       [] left = Text /\ c.op = "gt" -> "unknown"
       [] IsNumber(left) /\ c.op = "eq" -> Truth(left = "0")
       [] IsNumber(left) /\ c.op = "gt" -> Truth(left = "1")

Not(t) == CASE t = "true" -> "false" [] t = "false" -> "true" [] OTHER -> t

\* Mutant of Joined: a group of all its parts is false while one is unknown.
JoinedAsFalse(mode, parts) ==
  CASE mode = "any" /\ "true" \in parts -> "true"
    [] mode = "all" /\ parts # {"true"} -> "false"
    [] OTHER -> IF "unknown" \in parts THEN "unknown" ELSE Truth(mode = "all")

\* all is false if any part is, any is true if any part is; else unknown if
\* any part is.
Joined(mode, parts) ==
  CASE mode = "any" /\ "true" \in parts -> "true"
    [] mode = "all" /\ "false" \in parts -> "false"
    [] OTHER -> IF "unknown" \in parts THEN "unknown" ELSE Truth(mode = "all")

\* condition_result: a rule without a condition always applies. A condition is its nodes,
\* a group before its items, which it names by their places.
ConditionResult(condition) ==
  LET result[n \in DOMAIN condition] ==
        LET node == condition[n] IN
        IF node.kind = "comparison" THEN Compare(node)
        ELSE LET joined == Joined(node.mode, {result[i] : i \in node.items})
             IN IF node.negate THEN Not(joined) ELSE joined
  IN IF condition = <<>> THEN "true" ELSE result[1]

--------------------------------------------------------------------------------
(* Applicability and the outcome.                                          *)

\* The row's department, then the master's; the placeholder is no department.
Department == IF row.department \in {Missing, "Unassigned"} THEN row.master ELSE row.department

\* The state is asked first: what is missing there hides what follows.
Applies ==
  CASE rule.state # "any" /\ row.state = Missing -> "unknown"
    [] rule.state # "any" /\ row.state \notin {Missing, rule.state} -> "false"
    [] OTHER -> IF rule.departments = {} THEN "true"
                ELSE IF Department = Missing THEN "unknown"
                ELSE Truth(Department \in rule.departments)

WhenMissing ==
  CASE rule.onMissing = "skip" -> "skipped"
    [] rule.onMissing = "fail" -> "failed"
    [] OTHER -> "cannot_validate"

Outcome ==
  LET when == ConditionResult(rule.condition)
      passed == Compare(rule.assertion)
  IN CASE Applies = "false" \/ (Applies = "true" /\ when = "false") -> "out_of_scope"
       [] "unknown" \in {Applies, when} -> WhenMissing
       [] OTHER -> CASE passed = "true" -> "passed" [] passed = "false" -> "failed" [] OTHER -> WhenMissing

--------------------------------------------------------------------------------

Try ==
  /\ rule = NoRule
  /\ rule' \in Rules
  /\ UNCHANGED row

\* An input that was not recorded is.
Record(f) ==
  /\ rule # NoRule
  /\ row[f] = Missing
  /\ \E v \in Values[f] : row' = [row EXCEPT ![f] = v]
  /\ UNCHANGED rule

Next == Try \/ \E f \in Fields : Record(f)

Spec == Init /\ [][Next]_vars

--------------------------------------------------------------------------------
(* What the code says of itself.                                           *)

TypeOK ==
  /\ rule \in Rules \cup {NoRule}
  /\ \A f \in Fields : row[f] \in Values[f] \cup {Missing}
  /\ rule # NoRule => Outcome \in {"passed", "failed", "out_of_scope", "cannot_validate", "skipped"}

\* A missing input is unknown, never false, and a rule never passes silently
\* (validation_matrix.py:14): a verdict reached without an input is the verdict
\* with it, whatever it turns out to be. Not so where the rule asks for missing
\* inputs to fail, nor where the row overrides the department of the master.
DecidedStaysDecided ==
  [][\/ rule = NoRule
     \/ Department # Missing /\ Department' # Department
     \/ Outcome \notin {"passed", "out_of_scope"}
          /\ (Outcome # "failed" \/ rule.onMissing = "fail")
     \/ Outcome' = Outcome]_vars
================================================================================

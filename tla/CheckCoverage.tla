----------------------------- MODULE CheckCoverage ------------------------------
(***************************************************************************)
(* Of each check and each employee of a run, whether the check passed,     *)
(* failed, could not be made, or does not apply: derived after the         *)
(* validation, from its findings and from a registry that declares for     *)
(* each check what the engine is thought to need.                          *)
(*                                                                         *)
(*   services/coverage.py   Context, employee_outcomes, annotate_run       *)
(*   services/validation.py validate_employees, of one check               *)
(*                                                                         *)
(* One check of one employee, by the tables of CheckRegistry.  What a      *)
(* check compares is left out: only whether it is reached.  Checks of a    *)
(* company's own are RuleEvaluation.                                       *)
(***************************************************************************)
EXTENDS CheckRegistry

VARIABLES
  rule,     \* the check
  off,      \* the company switched it off
  seen,     \* the facts the validation read
  facts,    \* the facts there are
  emitted,  \* what the engine said: statuses of its findings
  outcome   \* what the run records

vars == <<rule, off, seen, facts, emitted, outcome>>

--------------------------------------------------------------------------------
(* What facts there can be.                                                *)

Holds(condition, known) == \E alternative \in condition : alternative \subseteq known

Opposites ==
  {<<"pf", "no pf">>, <<"esic", "no esic">>, <<"pt", "no pt">>, <<"pan", "no pan">>, <<"pt state", "no pt state">>,
   <<"prior", "no prior">>, <<"arrear", "no arrear">>, <<"arrear months", "no arrear months">>,
   <<"arrear expected", "no arrear expected">>, <<"joining date", "no joining date">>, <<"full month", "no full month">>,
   <<"wage rate", "no wage rate">>, <<"ctc", "no ctc">>, <<"recovery due", "no recovery due">>,
   <<"revision in month", "no revision in month">>}

Implied ==
  {<<"continuing", "prior">>, <<"master record", "master">>, <<"attendance row", "attendance">>,
   <<"pt due", "pt state">>, <<"pt known", "pt state">>, <<"lwf due", "lwf state">>, <<"lwf known", "lwf state">>,
   <<"pt deducted", "pt">>, <<"pf deducted", "pf">>, <<"no pan", "no valid pan">>, <<"days paid for", "paid days">>,
   <<"lop", "lop days">>, <<"ctc components", "ctc">>, <<"two ctc records", "ctc">>, <<"revision", "ctc">>,
   <<"two ctc records", "revision">>, <<"revision in month", "two ctc records">>, <<"revision in month", "ctc">>,
   <<"minimum wage applies", "minimum wage not excluded">>, <<"joined in the month", "joining date">>,
   <<"dob read", "dob">>, <<"doj read", "doj">>, <<"dol read", "dol">>}

Mentioned(r) ==
  UNION (Registry[r].applies \cup Engine[r] \cup SaysItCannot[r] \cup {Registry[r].requires})

Consistent(known, r) ==
  /\ \A p \in Opposites : {p[1], p[2]} \subseteq Mentioned(r) => Cardinality(known \cap {p[1], p[2]}) = 1
  /\ \A p \in Implied : p[1] \in known /\ p[2] \in Mentioned(r) => p[2] \in known
  \* A proration is checked where there are a CTC and days (lop_check).
  /\ "proration checked" \in Mentioned(r) => ("proration checked" \in known <=> Holds(Prorated, known))

Known(r) == {known \in SUBSET Mentioned(r) : Consistent(known, r)}

\* What annotate_run reads of the database itself, after the validation did.
ReadAgain ==
  {"master", "master record", "attendance", "attendance row", "prior", "no prior", "pt states", "lwf states"}

Init ==
  /\ rule \in Rules
  /\ off \in BOOLEAN
  /\ facts \in Known(rule)
  /\ seen = {} /\ emitted = {} /\ outcome = "none"

Ready == outcome = "none" /\ seen # {}

\* The employee is validated: the check says that it cannot, or is reached and
\* finds fault or none, or is passed over.
Validate ==
  /\ outcome = "none" /\ seen = {}
  /\ seen' = facts \cup {"validated"}
  /\ emitted' \in IF Holds(SaysItCannot[rule], facts) THEN {{StatusWhenItCannot(rule)}}
                 ELSE IF Holds(Engine[rule], facts) /\ rule \notin AnyFindingMeansCannot
                 THEN {{}, {"FAIL"}, {"PASS"}}
                 ELSE {{}}
  /\ UNCHANGED <<rule, off, facts, outcome>>

\* A master, an attendance or an earlier register is uploaded, or a setting saved,
\* before the outcomes are derived.
Arrive ==
  /\ Ready
  /\ \E known \in Known(rule) :
       /\ facts # known /\ facts \ known \subseteq ReadAgain /\ known \ facts \subseteq ReadAgain
       /\ facts' = known
  /\ UNCHANGED <<rule, off, seen, emitted, outcome>>

\* Mutant of MissingInputs: a check needs only what it applies to.
MissingInputsNone == {}

MissingInputs == Registry[rule].requires \ facts

MeansCannot ==
  \/ rule \in AnyFindingMeansCannot
  \/ rule \in MissingMeansCannot /\ "FAIL" \notin emitted

\* employee_outcomes, in its order; annotate_run.
Annotate ==
  /\ Ready
  /\ outcome' = CASE off -> "disabled"
                  [] rule \in OnUploadOnly -> "not applicable"
                  [] {"FAIL", "CANNOT"} \cap emitted # {} -> IF MeansCannot THEN "cannot validate" ELSE "failed"
                  [] "PASS" \in emitted -> "passed"
                  [] ~ Holds(Registry[rule].applies, facts) -> "not applicable"
                  [] MissingInputs # {} -> "cannot validate"
                  [] OTHER -> "passed"
  /\ UNCHANGED <<rule, off, seen, facts, emitted>>

Next == Validate \/ Arrive \/ Annotate

Spec == Init /\ [][Next]_vars

--------------------------------------------------------------------------------
(* What the code says of itself.                                           *)

TypeOK ==
  /\ rule \in Rules /\ off \in BOOLEAN
  /\ facts \in Known(rule)
  /\ emitted \subseteq {"FAIL", "PASS", "CANNOT", "INFO"}
  /\ outcome \in {"none", "passed", "failed", "cannot validate", "not applicable", "disabled"}

\* The engine came to a verdict on the check, with what it had.
Checked == Holds(Engine[rule], seen) /\ {"CANNOT", "INFO"} \cap emitted = {}

\* The checks whose entry in the registry asks for everything the engine goes by.
\* Every other check of a validation, 69 of 118, passes on some employee it was never
\* made of.
Complete ==
  {"DATA-001", "DATA-003", "DATA-005", "DATA-010", "DATA-PT-STATE", "DATA-PT-RATE", "DATA-LWF-STATE", "DATA-LWF-RATE",
   "COMP-001", "COMP-002", "AGG-001", "AGG-002", "AGG-004", "STAT-001", "STAT-002", "STAT-006", "STAT-007",
   "STAT-008", "STAT-009", "STAT-010", "STAT-011", "STAT-014", "PF-004", "PF-008", "PF-014", "ESI-006", "ESI-009",
   "PT-002", "PT-003", "BON-001", "LOP-001", "LOP-002", "LOP-003", "LOP-004", "ATT-003", "ATT-015", "MST-001",
   "MST-003", "ID-001", "ID-002", "ID-003", "ID-004", "ID-005", "MOM-001", "MOM-006", "ARR-001", "INC-003",
   "MW-004", "HC-002"}

\* Of these, a check that a run records as passed was made, of what the validation
\* read, where what annotate_run reads a second time has not changed. A material check
\* that passed was made even where it has changed (coverage.py: a missing input is
\* `cannot validate`).
PassedMeansChecked ==
  outcome = "passed" /\ rule \in Complete /\ (facts \subseteq seen \/ rule \in Material) => Checked

\* A material check keeps a month from being ready until it could be made
\* (coverage.py, `material`). It does not: a company that decided its minimum wage
\* applies, of an employee without a CTC or a place without a rate, is told so under
\* another rule, and MW-001 reads `passed`.
MaterialPassesAreChecked == outcome = "passed" /\ rule \in Material => Checked
================================================================================

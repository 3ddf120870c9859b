------------------------------ MODULE CheckRegistry ------------------------------
(***************************************************************************)
(* The checks of a validation, twice: what the registry declares of each,  *)
(* and what the engine goes by.                                            *)
(*                                                                         *)
(*   services/coverage.py         the registry                             *)
(*   services/rule_engine_v2.py   build_findings, batch_findings           *)
(*   services/month_checks.py     employee_month_checks                    *)
(*   services/workforce_rules.py  _master_rules, _attendance_rules         *)
(*   services/attendance_rules.py check_pay_against_attendance             *)
(*   services/minimum_wage.py     check_employee                           *)
(*   services/validation.py       states, minimum wage, headcount          *)
(*                                                                         *)
(* A fact is something the register, the master, the attendance or the     *)
(* settings say of an employee; a condition is a set of alternatives, each *)
(* a set of facts that must all hold.                                      *)
(***************************************************************************)
EXTENDS FiniteSets, TLC

Always == {{}}
Never == {}

--------------------------------------------------------------------------------
(* The registry: when a check applies, and the inputs it requires.         *)

Declared(rules, applies, requires) == [r \in rules |-> [applies |-> applies, requires |-> requires]]

ImportRegistry ==
  Declared({"DATA-001", "DATA-002", "DATA-003", "DATA-004", "COMP-001", "COMP-002"}, Always, {})
    @@ Declared({"DATA-005"}, {{"deduction"}}, {})
    @@ Declared({"DATA-006"}, {{"pan"}}, {}) @@ Declared({"DATA-007"}, {{"uan"}}, {})
    @@ Declared({"DATA-008"}, {{"aadhaar"}}, {}) @@ Declared({"DATA-009"}, {{"account"}}, {})
    @@ Declared({"DATA-010"}, {{"pt deducted"}, {"lwf deducted"}}, {})
    @@ Declared({"DATA-011", "DATA-012"}, {{"paid by bank"}}, {})
    @@ Declared({"DATA-PT-STATE"}, {{"pt states"}}, {}) @@ Declared({"DATA-PT-RATE"}, {{"pt state"}}, {})
    @@ Declared({"DATA-LWF-STATE"}, {{"lwf states"}}, {}) @@ Declared({"DATA-LWF-RATE"}, {{"lwf state"}}, {})

StructureRegistry ==
  Declared({"STRUCT-001", "STRUCT-002"}, {{"gross pay", "pf wage"}}, {})
    @@ Declared({"LC-001"}, {{"codes in force", "gross pay"}}, {"wage basis", "ctc"})
    @@ Declared({"AGG-001"}, Always, {"gross"})
    @@ Declared({"AGG-002"}, Always, {"net", "gross", "total deductions"})
    @@ Declared({"AGG-003"}, Always, {"net", "paid days"}) @@ Declared({"AGG-004"}, Always, {"net"})

StatutoryRegistry ==
  Declared({"STAT-001"}, {{"pf due"}, {"pf"}}, {"pf"}) @@ Declared({"PF-009"}, {{"pf"}}, {})
    @@ Declared({"STAT-002"}, {{"pf due"}, {"pf employer"}}, {"pf employer"})
    @@ Declared({"STAT-003", "STAT-004"}, {{"uncapped"}}, {})
    @@ Declared({"STAT-005"}, {{"esic wage"}}, {})
    @@ Declared({"STAT-006"}, {{"esic eligible"}, {"esic"}}, {"esic"})
    @@ Declared({"STAT-007"}, {{"esic eligible"}, {"esic employer"}}, {"esic employer"})
    @@ Declared({"STAT-008"}, {{"pt due"}, {"pt states", "no pt state"}}, {"pt state", "pt"})
    @@ Declared({"STAT-009"}, {{"lwf due"}}, {"lwf"}) @@ Declared({"STAT-010"}, {{"lwf employer due"}}, {"lwf employer"})

DeepStatutoryRegistry ==
  Declared({"STAT-011"}, Always, {}) @@ Declared({"STAT-014"}, {{"gratuity"}}, {})
    @@ Declared({"PF-004"}, {{"pf due"}}, {"eps"}) @@ Declared({"PF-008"}, {{"international"}}, {})
    @@ Declared({"ESI-005"}, {{"disability"}}, {}) @@ Declared({"ESI-006"}, {{"esic deducted"}}, {})
    @@ Declared({"PT-002"}, {{"pt"}}, {}) @@ Declared({"PT-003"}, {{"pt deducted"}}, {"state"})
    @@ Declared({"BON-001", "BON-002"}, {{"bonus"}}, {})
    @@ Declared({"GRAT-002", "GRAT-003"}, {{"gratuity"}}, {"doj", "dol"})
    @@ Declared({"TDS-001"}, {{"no pan"}}, {"tds"}) @@ Declared({"TDS-002"}, {{"tds"}}, {})

AttendanceRegistry ==
  Declared({"LOP-001"}, Always, {"paid days", "lop days"}) @@ Declared({"LOP-003"}, Always, {"paid days"})
    @@ Declared({"LOP-002"}, {{"lop"}}, {"proration checked"})
    @@ Declared({"ATT-001", "ATT-002", "ATT-004"}, {{"attendance"}}, {"attendance row"})
    @@ Declared({"ATT-003", "ATT-015"}, {{"attendance"}}, {})
    @@ Declared({"ATT-010", "ATT-011", "ATT-012", "ATT-013", "ATT-014"}, Always, {})
    @@ Declared({"ATT-020", "ATT-021", "ATT-022", "ATT-023", "ATT-024"}, {{"attendance row"}}, {})

LifecycleRegistry ==
  Declared({"MST-001"}, Always, {"master"})
    @@ Declared({"MST-002", "MST-003", "MST-006"}, Always, {"master", "master record"})
    @@ Declared({"MST-004"}, {{"pf deducted"}}, {"master"}) @@ Declared({"MST-005"}, {{"esic deducted"}}, {"master"})
    @@ Declared({"GRAT-004"}, {{"gratuity"}}, {}) @@ Declared({"GRAT-005"}, {{"gratuity"}}, {"master"})
    @@ Declared({"ID-001"}, Always, {"pan"}) @@ Declared({"ID-002"}, Always, {"aadhaar"})
    @@ Declared({"ID-003"}, {{"pf deducted"}, {"uan"}}, {}) @@ Declared({"ID-004"}, {{"esic deducted"}, {"esi number"}}, {})
    @@ Declared({"ID-005"}, {{"ifsc"}}, {}) @@ Declared({"ID-006"}, Always, {"dob"})
    @@ Declared({"ID-007"}, Always, {"doj"}) @@ Declared({"ID-008"}, {{"dol"}}, {})

ComparisonRegistry ==
  Declared({"MOM-001"}, Always, {"prior"})
    @@ Declared({"MOM-002", "MOM-003", "MOM-004", "MOM-005", "ADV-001", "ADV-002", "ADV-003"},
                {{"continuing"}, {"no prior"}}, {"prior"})
    @@ Declared({"ARR-001", "ARR-002", "ARR-003", "ARR-004", "ARR-005", "INC-003"}, {{"arrear"}}, {})
    @@ Declared({"MOM-006"}, {{"increment arrear"}}, {"arrear expected"})
    @@ Declared({"INC-001"}, {{"revision"}}, {"revision"}) @@ Declared({"INC-002"}, {{"revision in month"}}, {})

\* What the registry was given last: minimum wage, the ceiling change, the master
\* and the inputs of the month.
MonthRegistry ==
  Declared({"MW-001"}, {{"minimum wage not excluded"}}, {"minimum wage applies"})
    @@ Declared({"MW-003", "MW-004"}, {{"minimum wage applies"}}, {})
    @@ Declared({"MW-005"}, {{"minimum wage applies", "ctc"}}, {})
    @@ Declared({"PF-010"}, {{"master record", "pf due"}}, {})
    @@ Declared({"PF-012"}, {{"ceiling changed"}, {"recovery due"}}, {}) @@ Declared({"PF-013"}, {{"pf arrear"}}, {})
    @@ Declared({"PF-014"}, {{"vpf"}}, {}) @@ Declared({"ESI-009", "MST-008"}, {{"esic eligible"}}, {})
    @@ Declared({"MST-007"}, {{"pf due"}}, {}) @@ Declared({"MST-009", "DATA-013"}, {{"master record"}}, {})
    @@ Declared({"DATA-014"}, {{"master record", "account"}}, {})
    @@ Declared({"OTI-001", "HC-001"}, Always, {}) @@ Declared({"OTI-002"}, {{"one-time month"}}, {})
    @@ Declared({"HC-002"}, {{"prior"}}, {}) @@ Declared({"ADV-004"}, {{"continuing"}}, {})
    @@ Declared({"LOP-004"}, {{"reversal days"}}, {}) @@ Declared({"LOP-005"}, {{"reversal amount"}}, {})
    @@ Declared({"LOP-006"}, {{"ctc"}}, {})

Registry ==
  ImportRegistry @@ StructureRegistry @@ StatutoryRegistry @@ DeepStatutoryRegistry @@ AttendanceRegistry
    @@ LifecycleRegistry @@ ComparisonRegistry @@ MonthRegistry

Rules == DOMAIN Registry

\* runs_in_validation, material, cannot_marker.
OnUploadOnly == {"ATT-010", "ATT-011", "ATT-012", "ATT-013", "ATT-014"}

Material ==
  {"STAT-001", "STAT-002", "STAT-006", "STAT-007", "STAT-008", "STAT-009", "STAT-010", "MW-001"}

AnyFindingMeansCannot == {"ATT-024", "GRAT-004", "ARR-001", "INC-003", "MW-003", "MW-004"}
MissingMeansCannot == {"STAT-001", "STAT-006", "STAT-008"}

--------------------------------------------------------------------------------
(* The engine: the facts without which a check is passed over in silence.  *)
(*                                                                         *)
(* A fact is a condition on anything but what the check judges: that one   *)
(* is the comparison itself.  A check that looks at each component of an   *)
(* employee is made of one who has none.                                   *)

Reads(rules, condition) == [r \in rules |-> condition]

Given(condition, known) == {alternative \cup known : alternative \in condition}

\* build_findings, P1.
DataGates ==
  Reads({"DATA-001", "DATA-003"}, Always) @@ Reads({"DATA-004"}, {{"components"}})
    @@ Reads({"DATA-010"}, {{"pt deducted"}, {"lwf deducted"}})
    @@ Reads({"DATA-011", "DATA-012"}, {{"paid by bank", "net"}})

\* What is checked of a row last, and of all rows together (batch_findings).
QualityGates ==
  Reads({"DATA-002"}, {{"employee id"}}) @@ Reads({"DATA-005"}, {{"deduction"}})
    @@ Reads({"DATA-006"}, {{"employee id", "pan"}}) @@ Reads({"DATA-007"}, {{"employee id", "uan"}})
    @@ Reads({"DATA-008"}, {{"employee id", "aadhaar"}}) @@ Reads({"DATA-009"}, {{"employee id", "account"}})
    @@ Reads({"AGG-003"}, {{"net", "paid days", "days paid for"}}) @@ Reads({"AGG-004"}, {{"net"}})
    @@ Reads({"LOP-003"}, {{"paid days"}})

\* P2 and P3. Of the components' own flags, where the registry goes by the wage of
\* the configuration.
StructureGates ==
  Reads({"COMP-001", "COMP-002"}, Always)
    @@ Reads({"STRUCT-001", "STRUCT-002"}, {{"wage components paid", "pf components paid"}})
    @@ Reads({"LC-001"}, {{"codes in force", "ctc components", "wage basis", "remuneration"}})
    @@ Reads({"AGG-001"}, {{"gross"}}) @@ Reads({"AGG-002"}, {{"net", "gross", "total deductions"}})

\* P4. Up to the ceiling both bases of PF give the same amount. The recovery of PF is
\* looked at where the PF column is stated.
FundGates ==
  Reads({"STAT-001"}, {{"pf"}}) @@ Reads({"PF-009"}, {{"pf", "wage above ceiling"}})
    @@ Reads({"STAT-002"}, {{"pf employer"}})
    @@ Reads({"PF-012"}, {{"pf", "ceiling changed"}, {"pf", "recovery due"}})
    @@ Reads({"PF-013"}, {{"pf", "pf arrear", "no recovery due", "continuing"}})
    @@ Reads({"STAT-003"}, {{"uncapped", "wage above capped"}})
    @@ Reads({"STAT-004"}, {{"uncapped", "wage above capped", "wage above ceiling", "pf components"}})

StateGates ==
  Reads({"STAT-005"}, {{"esic components paid"}})
    @@ Reads({"STAT-006"}, {{"esic"}}) @@ Reads({"STAT-007"}, {{"esic employer"}})
    @@ Reads({"STAT-008"}, {{"pt", "pt due"}, {"pt", "pt known"}})
    @@ Reads({"STAT-009"}, {{"lwf", "lwf due"}, {"lwf", "lwf known"}})
    @@ Reads({"STAT-010"}, {{"lwf employer", "lwf employer due"}})
    @@ Reads({"STAT-011"}, Always) @@ Reads({"STAT-014"}, {{"gratuity"}})

\* P5: the proration of a month is worked on its days, and what an increment should
\* have changed is sorted out of what the proration finds.
Prorated == {{"ctc", "paid days"}, {"ctc", "lop days"}}

ProrationGates ==
  Reads({"LOP-001"}, {{"paid days", "lop days"}}) @@ Reads({"LOP-002"}, Prorated)
    @@ Reads({"INC-001"}, Given(Prorated, {"two ctc records", "no revision in month"}))
    @@ Reads({"INC-002"}, Given(Prorated, {"two ctc records", "revision in month"}))
    @@ Reads({"INC-003"}, {{"arrear"}})

\* P6: whoever was not on last month's register, or had none, is called a joiner. A
\* revision of this month or the last explains every movement, an arrear some.
MovementGates ==
  Reads({"MOM-001"}, Always) @@ Reads({"MOM-006"}, {{"arrear expected"}})
    @@ Reads({"MOM-002", "MOM-003"}, {{"continuing", "no recent revision", "no arrear"}})
    @@ Reads({"MOM-004", "MOM-005"}, {{"continuing", "no recent revision"}})
    @@ Reads({"ARR-001"}, {{"arrear"}}) @@ Reads({"ARR-002"}, {{"arrear", "arrear months"}})
    @@ Reads({"ARR-003"}, {{"arrear", "arrear months", "months above zero"}})
    @@ Reads({"ARR-004"}, {{"arrear", "arrear of a component", "ceiling", "restricted"}})

\* P7: a date that cannot be read is no date.
AnomalyGates ==
  Reads({"ADV-001"}, {{"continuing", "paid last month"}})
    @@ Reads({"ADV-002", "ADV-003"}, {{"continuing", "paid last month", "gross pay"}})

IdentityGates ==
  Reads({"ID-001"}, {{"pan"}}) @@ Reads({"ID-002"}, {{"aadhaar"}})
    @@ Reads({"ID-003"}, {{"pf deducted"}, {"uan"}}) @@ Reads({"ID-004"}, {{"esic deducted"}, {"esi number"}})
    @@ Reads({"ID-005"}, {{"ifsc"}}) @@ Reads({"ID-006"}, {{"dob read"}})
    @@ Reads({"ID-007"}, {{"doj read"}}) @@ Reads({"ID-008"}, {{"dol read", "gross pay", "no arrear"}})

\* P8.
DeepStatutoryGates ==
  Reads({"PF-004"}, {{"eps"}}) @@ Reads({"PF-008"}, {{"international"}}) @@ Reads({"PT-002"}, Always)
    @@ Reads({"PT-003"}, {{"pt deducted", "state"}})
    @@ Reads({"ESI-005"}, {{"disability", "wage between the ceilings"}}) @@ Reads({"ESI-006"}, {{"esic deducted"}})

\* A bonus above the ceiling is no statutory one; TDS is projected where there is
\* taxable pay and a tax year (validate_employees).
BenefitGates ==
  Reads({"BON-001"}, {{"bonus"}}) @@ Reads({"BON-002"}, {{"bonus", "within bonus ceiling"}})
    @@ Reads({"TDS-001"}, {{"tds", "no valid pan", "taxable pay"}}) @@ Reads({"TDS-002"}, {{"tds", "tds projected"}})
    @@ Reads({"GRAT-002"}, {{"gratuity", "doj read", "dol read"}})
    @@ Reads({"GRAT-003"}, {{"gratuity", "doj read", "dol read", "served or waived", "gratuity by formula"}})

\* employee_month_checks: what the master says, and what the month adds.
EnrolmentGates ==
  Reads({"PF-010"}, {{"master record", "pf due", "eps change in force", "wage within ceiling", "of eps age"}})
    @@ Reads({"MST-007"}, {{"pf due", "no pf paid"}}) @@ Reads({"MST-008"}, {{"esic eligible", "esic due", "no esic paid"}})
    @@ Reads({"MST-009"}, {{"master record", "pay"}}) @@ Reads({"DATA-013"}, {{"master record", "account changed"}})
    @@ Reads({"PF-014"}, {{"vpf"}}) @@ Reads({"DATA-014"}, {{"master record", "account", "account in master"}})

MonthGates ==
  Reads({"OTI-001"}, {{"one-time input"}}) @@ Reads({"OTI-002"}, {{"one-time input", "one-time month"}})
    @@ Reads({"LOP-004"}, {{"reversal days"}}) @@ Reads({"LOP-005"}, {{"reversal days", "reversal amount", "ctc"}})
    @@ Reads({"ESI-009"}, {{"esic eligible"}}) @@ Reads({"ARR-005"}, {{"arrear", "two ctc records"}})
    @@ Reads({"LOP-006"}, {{"ctc", "paid days", "no revision in month", "two components paid"}})
    @@ Reads({"ADV-004"}, {{"continuing", "net", "net last month", "no recent revision", "same days", "no arrear"}})

\* _master_rules: someone who is not in the master is told so, and no more. PF and
\* ESIC are those the validation worked out, gratuity that of the components.
MasterGates ==
  Reads({"MST-001"}, {{"master"}}) @@ Reads({"MST-003"}, {{"master record"}})
    @@ Reads({"MST-004"}, {{"master record", "pf due"}}) @@ Reads({"MST-005"}, {{"master record", "esic due"}})
    @@ Reads({"MST-002"}, {{"master record", "joining date"}})
    @@ Reads({"MST-006"}, {{"master record", "joined in the month", "paid days"}})
    @@ Reads({"GRAT-004"}, {{"master record", "gratuity component"}})
    @@ Reads({"GRAT-005"}, {{"master record", "gratuity component", "joining date"}})

\* _attendance_rules.
AttendanceGates ==
  Reads({"ATT-003"}, {{"attendance"}})
    @@ Reads({"ATT-001"}, {{"attendance row", "paid days", "attended days"}})
    @@ Reads({"ATT-002"}, {{"attendance row", "lop days", "absent days"}})
    @@ Reads({"ATT-004"}, {{"attendance row", "paid days", "calendar days"}})

\* check_pay_against_attendance, which ends where pay without a day is found, and may
\* have a full month's pay to compare with; check_worked_but_unpaid.
PaidAsAttendedGates ==
  Reads({"ATT-015"}, {{"attendance"}}) @@ Reads({"ATT-021"}, {{"attendance row", "attended days"}})
    @@ Reads({"ATT-020"}, {{"attendance row", "days to pay", "lop recorded", "full month"}})
    @@ Reads({"ATT-024"}, {{"attendance row", "days to pay", "lop recorded"}})
    @@ Reads({"ATT-022"}, {{"attendance row", "days to pay", "overtime"}})
    @@ Reads({"ATT-023"}, {{"attendance row", "days to pay", "overtime", "overtime paid", "full month"}})

\* validate_employees: the states, minimum wage, headcount.
MappingGates ==
  Reads({"DATA-PT-STATE"}, {{"pt states"}}) @@ Reads({"DATA-PT-RATE"}, {{"pt state"}})
    @@ Reads({"DATA-LWF-STATE"}, {{"lwf states"}}) @@ Reads({"DATA-LWF-RATE"}, {{"lwf state"}})

MinimumWageGates ==
  Reads({"MW-004"}, {{"minimum wage applies"}}) @@ Reads({"MW-003"}, {{"minimum wage applies", "ctc"}})
    @@ Reads({"MW-001"}, {{"minimum wage applies", "ctc", "wage rate"}})
    @@ Reads({"MW-005"}, {{"minimum wage applies", "ctc", "wage rate", "codes in force", "wage basis", "remuneration"}})

HeadcountGates == Reads({"HC-001", "HC-002"}, {{"prior"}})

\* On upload, and in no validation.
UploadGates == Reads(OnUploadOnly, Never)

Engine ==
  DataGates @@ StructureGates @@ FundGates @@ StateGates @@ ProrationGates @@ MovementGates @@ AnomalyGates
    @@ IdentityGates @@ DeepStatutoryGates @@ BenefitGates @@ QualityGates @@ EnrolmentGates @@ MonthGates
    @@ MasterGates @@ AttendanceGates @@ PaidAsAttendedGates @@ MappingGates @@ MinimumWageGates @@ HeadcountGates
    @@ UploadGates

\* Where the engine says of itself that it could not check.
SaysItCannot ==
  Reads({"STAT-001"}, {{"no pf", "pf due"}}) @@ Reads({"STAT-006"}, {{"no esic", "esic eligible", "esic due"}})
    @@ Reads({"STAT-008"}, {{"no pt", "pt due"}})
    @@ Reads({"ARR-001"}, {{"arrear", "no arrear months"}}) @@ Reads({"INC-003"}, {{"arrear", "no arrear expected"}})
    @@ Reads({"GRAT-004"}, {{"master record", "gratuity component", "no joining date"}})
    @@ Reads({"ATT-024"}, {{"attendance row", "days to pay", "lop recorded", "no full month"}})
    @@ Reads({"MW-003"}, {{"minimum wage applies", "ctc", "no wage rate"}})
    @@ Reads({"MW-004"}, {{"minimum wage applies", "no ctc"}})
    @@ Reads(Rules \ (AnyFindingMeansCannot \cup MissingMeansCannot), Never)

\* Every finding is a failure by its status, but for one.
StatusWhenItCannot(r) == IF r = "ATT-024" THEN "INFO" ELSE "CANNOT"

\* Every check of the registry is one of the engine, and the other way about.
RegistryAssumption == Rules = DOMAIN Engine /\ Rules = DOMAIN SaysItCannot
================================================================================

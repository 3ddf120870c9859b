----------------------------- MODULE ConfigVersions -----------------------------
(***************************************************************************)
(* A company's statutory configuration.                                    *)
(*                                                                         *)
(* Its base is edited in place, by requests that read the row, work out    *)
(* what moved, and write the columns that differ from what they read; the  *)
(* record of a change is in the same transaction.  Dated versions of it    *)
(* are drafted, published and withdrawn: which one a month is validated    *)
(* under, and which validated months a publication or a withdrawal says it *)
(* makes stale.                                                            *)
(*                                                                         *)
(*   routers/statutory_config.py  save_statutory_config, save_pf_config    *)
(*                                and its like, reset_to_defaults, the tax *)
(*                                years, _keep_stored_form, _changes,      *)
(*                                create_version ... withdraw_version      *)
(*   services/config_service.py   ConfigService, version_in_force          *)
(*                                                                         *)
(* One company; the requests for the base overlap, those for its versions  *)
(* do not.  Every version holds a configuration of its own.  A value is a  *)
(* number and how it is written.  Who may publish is left out.             *)
(***************************************************************************)
EXTENDS Integers, Sequences, FiniteSets

CONSTANTS
  Sessions,     \* requests for the base under way at one time
  Years,        \* financial years, in their order
  MonthBound,   \* bound: months
  VersionBound, \* bound: versions
  SaveBound     \* bound: requests that edit the base

ConfigAssumption ==
  /\ {MonthBound, VersionBound, SaveBound} \subseteq Nat
  /\ Years \subseteq Nat \ {0} /\ IsFiniteSet(Years) /\ Years # {}

VARIABLES
  base,      \* the row statutory_config: rates and ceilings, and the tax years
  rq,        \* requests between reading the base and their commit
  saves,     \* requests for the base, so far
  onRecord,  \* the numbers, by the records of their changes
  oddly,     \* what happened to the base besides single whole saves and resets
  version,   \* the versions, by number
  validated, \* the months with a current run
  told       \* the months the last publication or withdrawal named

dated == <<version, validated, told>>
vars == <<base, rq, saves, onRecord, oddly, dated>>

Months == 1..MonthBound
Base == 0     \* the configuration of the months no published version covers

\* Two columns of the row, one of two fields and one of one.
Columns == [pf |-> {"pf rate", "pf ceiling"}, esic |-> {"esic rate"}]
Fields == UNION {Columns[c] : c \in DOMAIN Columns}
Values == [number : {0, 1}, form : {"0.50", "0.5"}]
Rates == [Fields -> Values]
Defaults == [f \in Fields |-> [number |-> 0, form |-> "0.50"]]

\* The tax years, and the one that counts where none is asked for.
None == 0
TaxYears == [years : SUBSET Years, preferred : Years \cup {None}]
Newest(years) == CHOOSE y \in years : \A z \in years : z <= y
SeededYears == [years |-> Years, preferred |-> Newest(Years)]

Idle == [op |-> "idle"]

Init ==
  /\ base = [rates |-> Defaults, tax |-> SeededYears]
  /\ rq = [s \in Sessions |-> Idle]
  /\ saves = 0
  /\ onRecord = [f \in Fields |-> Defaults[f].number]
  /\ oddly = {}
  /\ version = <<>>
  /\ validated = {}
  /\ told = {}

--------------------------------------------------------------------------------
(* The base.                                                               *)

Reads(s, what) ==
  /\ rq[s] = Idle /\ saves < SaveBound
  /\ rq' = [rq EXCEPT ![s] = what]
  /\ saves' = saves + 1
  /\ UNCHANGED <<base, onRecord, oddly, dated>>

\* _changes: the fields whose number is another.
Moved(before, after) == {f \in Fields : before[f].number # after[f].number}

\* _keep_stored_form: what is submitted, but the same number as it is stored.
KeepStoredForm(before, after) ==
  [f \in Fields |-> IF f \in Moved(before, after) THEN after[f] ELSE before[f]]

\* save_statutory_config: where nothing moved, nothing is written.
SaveReads(s) ==
  \E body \in Rates :
    LET after == KeepStoredForm(base.rates, body)
        moved == Moved(base.rates, after) IN
    /\ moved # {}
    /\ Reads(s, [op |-> "save", seen |-> base.rates, after |-> after, moved |-> moved])

ResetReads(s) ==
  Reads(s, [op |-> "reset", seen |-> base.rates, after |-> Defaults, moved |-> Moved(base.rates, Defaults)])

\* save_pf_config, save_esic_config: one column, as submitted; nothing is recorded.
SectionReads(s) ==
  \E c \in DOMAIN Columns, body \in Rates :
    Reads(s, [op |-> "section", seen |-> base.rates, moved |-> {},
              after |-> [f \in Fields |-> IF f \in Columns[c] THEN body[f] ELSE base.rates[f]]])

\* The columns a commit writes: those that differ from what was read.
Written(seen, after) ==
  UNION {Columns[c] : c \in {d \in DOMAIN Columns : \E f \in Columns[d] : seen[f] # after[f]}}

Writes(s) ==
  LET seen == rq[s].seen
      after == rq[s].after
      written == Written(seen, after) IN
  /\ rq[s].op \in {"save", "reset", "section"}
  /\ base' = [base EXCEPT !.rates = [f \in Fields |-> IF f \in written THEN after[f] ELSE @[f]]]
  /\ onRecord' = [f \in Fields |-> IF f \in rq[s].moved THEN after[f].number ELSE onRecord[f]]
  /\ oddly' = oddly \cup (IF rq[s].op = "section" THEN {"section"} ELSE {})
                   \cup (IF \E f \in written : base.rates[f] # seen[f] THEN {"overlap"} ELSE {})
  /\ rq' = [rq EXCEPT ![s] = Idle]
  /\ UNCHANGED <<saves, dated>>

--------------------------------------------------------------------------------
(* Its tax years: one column, of all of them.                              *)

\* save_income_tax_config, by its two requests that bring the whole column.
TaxSaveReads(s) ==
  \E tax \in TaxYears :
    /\ tax.preferred # None => tax.preferred \in tax.years
    /\ Reads(s, [op |-> "tax", of |-> Years, seen |-> base.tax, after |-> tax])

\* upsert_tax_year
UpsertReads(s, y) ==
  LET tax == base.tax IN
  \E preferred \in IF tax.preferred = None THEN {y} ELSE {tax.preferred, y} :
    Reads(s, [op |-> "tax", of |-> {y}, seen |-> tax,
              after |-> [years |-> tax.years \cup {y}, preferred |-> preferred]])

\* The year that counts once one is gone.
Repointed(tax, y) == IF tax.preferred = y THEN Newest(tax.years \ {y}) ELSE tax.preferred

\* delete_tax_year: not the only one.
DeleteReads(s, y) ==
  LET tax == base.tax IN
  /\ y \in tax.years /\ tax.years # {y}
  /\ Reads(s, [op |-> "tax", of |-> {y}, seen |-> tax,
               after |-> [years |-> tax.years \ {y}, preferred |-> Repointed(tax, y)]])

TaxWrites(s) ==
  /\ rq[s].op = "tax"
  /\ base' = IF rq[s].after # rq[s].seen THEN [base EXCEPT !.tax = rq[s].after] ELSE base
  /\ oddly' = IF base.tax # rq[s].seen THEN oddly \cup {"overlap"} ELSE oddly
  /\ rq' = [rq EXCEPT ![s] = Idle]
  /\ UNCHANGED <<saves, onRecord, dated>>

EditsBase(s) ==
  \/ SaveReads(s) \/ ResetReads(s) \/ SectionReads(s) \/ Writes(s)
  \/ TaxSaveReads(s) \/ TaxWrites(s)
  \/ \E y \in Years : UpsertReads(s, y) \/ DeleteReads(s, y)

--------------------------------------------------------------------------------
(* Its dated versions.                                                     *)

Versions == DOMAIN version

Published == {v \in Versions : version[v].status = "published"}

\* version_in_force: the last published version to have started.
InForce(m) ==
  LET started == {v \in Published : version[v].from <= m}
      last == {v \in started : \A u \in started : version[u].from <= version[v].from}
  IN IF last = {} THEN Base ELSE CHOOSE v \in last : TRUE

\* Mutant of Later: drafts cut a version short too.
LaterDrafted(v) ==
  {u \in Versions : version[u].status \in {"draft", "published"} /\ version[u].from > version[v].from}

\* _covered_until: the published versions that take over from this one.
Later(v) == {u \in Published : version[u].from > version[v].from}

\* _affected: the validated months from this version's to the next one's.
Affected(v) ==
  {m \in validated : m >= version[v].from /\ \A u \in Later(v) : m < version[u].from}

Moves(v, from, to) ==
  /\ version[v].status = from
  /\ version' = [version EXCEPT ![v].status = to]
  /\ UNCHANGED validated

Create ==
  /\ Len(version) < VersionBound
  /\ \E m \in Months : version' = Append(version, [from |-> m, status |-> "draft"])
  /\ told' = {}
  /\ UNCHANGED validated

Update(v) ==
  /\ version[v].status = "draft"
  /\ \E m \in Months : version' = [version EXCEPT ![v].from = m]
  /\ told' = {}
  /\ UNCHANGED validated

Discard(v) == Moves(v, "draft", "discarded") /\ told' = {}

\* The months are worked out once the version counts as published.
Publish(v) ==
  /\ ~ \E u \in Published : version[u].from = version[v].from
  /\ Moves(v, "draft", "published")
  /\ told' = Affected(v)'

Withdraw(v) == Moves(v, "published", "withdrawn") /\ told' = Affected(v)

\* A month gets its first run.
Validate(m) ==
  /\ m \notin validated
  /\ validated' = validated \cup {m}
  /\ told' = {}
  /\ UNCHANGED version

EditsVersions ==
  /\ \/ Create
     \/ \E v \in Versions : Update(v) \/ Discard(v) \/ Publish(v) \/ Withdraw(v)
     \/ \E m \in Months : Validate(m)
  /\ UNCHANGED <<base, rq, saves, onRecord, oddly>>

Next == EditsVersions \/ \E s \in Sessions : EditsBase(s)

Spec == Init /\ [][Next]_vars

--------------------------------------------------------------------------------
(* What the code says of itself.                                           *)

TypeOK ==
  /\ base \in [rates : Rates, tax : TaxYears]
  /\ onRecord \in [Fields -> {0, 1}]
  /\ oddly \subseteq {"section", "overlap"}
  /\ saves \in 0..SaveBound
  /\ version \in Seq([from : Months, status : {"draft", "published", "withdrawn", "discarded"}])
  /\ Len(version) <= VersionBound
  /\ validated \subseteq Months
  /\ told \subseteq Months

\* Publishing a version marks exactly the validated months it covers
\* (models/statutory_config.py:60, withdraw_version): the months named are
\* those whose configuration changes, of those that were validated.
AffectedAreWhatChanges ==
  [][\A v \in Versions :
       version'[v].status # version[v].status /\ "published" \in {version[v].status, version'[v].status} =>
         told' = {m \in validated : InForce(m)' # InForce(m)}]_vars

\* "A change to them is recorded - who, when, and each field before and after"
\* (_record_change): who applies the recorded changes in turn arrives at the numbers in
\* force, as long as no section was saved by itself, which records nothing, and no two
\* saves of one column overlapped.
RecordsAddUp == oddly = {} => \A f \in Fields : onRecord[f] = base.rates[f].number

\* A save of the whole leaves every field nobody touched as it was written, since runs are
\* fingerprinted on the text (_keep_stored_form); with the same two exceptions.
UntouchedStaysAsWritten ==
  [][\A s \in Sessions : rq[s].op = "save" /\ rq'[s] = Idle /\ "overlap" \notin oddly' =>
       \A f \in Fields : base'.rates[f] # base.rates[f] => base'.rates[f].number # base.rates[f].number]_vars

\* The preferred tax year is one that is there, however the edits overlap.
PreferredYearIsThere == base.tax.preferred # None => base.tax.preferred \in base.tax.years

\* An edit of one tax year leaves the others, unless two edits overlapped.
OtherYearsStay ==
  [][\A s \in Sessions : rq[s].op = "tax" /\ rq'[s] = Idle /\ "overlap" \notin oddly' =>
       \A y \in Years \ rq[s].of : y \in base.tax.years <=> y \in base'.tax.years]_vars
================================================================================

----------------------------- MODULE DataProtection -----------------------------
(***************************************************************************)
(* How long a company's payroll data is kept, and the erasure of one       *)
(* person (services/data_protection.py), beside what goes on writing it:   *)
(* registers that are uploaded, validations, signatures, imports through   *)
(* Integration Studio and generated reports.                               *)
(*                                                                         *)
(* A place is a store, or a store and a month; what matters is whether it  *)
(* holds anything and whether that names the person.  An erasure is one    *)
(* transaction, seen at three moments: when it looks for a validation in   *)
(* progress, when it has found and rewritten the person, and when it       *)
(* commits.  Until then what it rewrote is locked, and the others see the  *)
(* person still.  A retention pass reads the policy, and deletes later.    *)
(*                                                                         *)
(* The day is a month here: what the day counts is that a pass is made     *)
(* once.  Only one person and one erasure, and the master of leavers,      *)
(* which goes by the date of exit, is left out.                            *)
(***************************************************************************)
EXTENDS Integers, FiniteSets

CONSTANTS
  LastMonth,    \* of payroll; the first is 1
  Periods,      \* the retention periods an owner may set, in months
  EventBound    \* how many registers, imports and reports arrive and policies are set

ProtectionAssumption == LastMonth \in Nat /\ Periods \subseteq Nat \ {0}

Months == 1..LastMonth

None == 0       \* no month, no period, and no day

Monthly == {"register", "results", "signed"} \X Months

Master == <<"master", None>>
Copy == <<"copy", None>>     \* the records of an import
File == <<"file", None>>     \* a generated report
Trail == <<"trail", None>>   \* the audit trail

Places == Monthly \cup {Master, Copy, File, Trail}

VARIABLES
  holds,     \* what each place holds: "nothing", "clean", or "named"
  job,       \* the validation of each month, whether it reads the person, and whether it is late
  import,    \* is an import active
  report,    \* what the report that is being built has read
  erasure,   \* how far the erasure is, what it found, and what it could not rewrite
  excused,   \* places the erasure named, or where the name came in late
  policy,    \* the period in force and the day it was last applied
  pass,      \* a retention pass: the period it has read, or none, and the period last applied
  since,     \* the places written since the last pass deleted
  today,
  happened   \* how many files arrived and policies were set

work == <<job, import, report>>
keeping == <<policy, pass, today>>
vars == <<holds, erasure, excused, since, work, keeping, happened>>

\* The erasure has looked, or is over: what arrives from now on is late.
Late == erasure.at # "none"

Held(p) == holds[p] # "nothing"
Named(p) == holds[p] = "named"

\* Somebody writes a place, which must not be one that the erasure has locked.
Write(p, named, late) ==
  /\ erasure.at = "rewritten" => p \notin erasure.found
  /\ holds' = [holds EXCEPT ![p] = IF named THEN "named" ELSE "clean"]
  /\ excused' = IF named /\ late THEN excused \cup {p} ELSE excused \ {p}
  /\ since' = since \cup {p}

NoJob == [at |-> "none", named |-> FALSE, late |-> FALSE]

Init ==
  /\ holds = [p \in Places |-> IF p = Master THEN "named" ELSE "nothing"]
  /\ job = [m \in Months |-> NoJob]
  /\ import = FALSE
  /\ report = "none"
  /\ erasure = [at |-> "none", found |-> {}, kept |-> {}]
  /\ excused = {}
  /\ policy = [months |-> None, applied |-> None]
  /\ pass = [months |-> None, last |-> None]
  /\ since = {}
  /\ today = 1
  /\ happened = 0

--------------------------------------------------------------------------------
\* What goes on beside. A register that names the person is uploaded, again or for the
\* first time.
Upload(m) ==
  /\ happened < EventBound
  /\ m <= today
  /\ happened' = happened + 1
  /\ Write(<<"register", m>>, TRUE, Late)
  /\ UNCHANGED <<job, import, report, erasure, keeping>>

\* A validation is asked for, reads the register, and records what it read.
Enqueue(m) ==
  /\ job[m].at = "none" /\ Held(<<"register", m>>)
  /\ job' = [job EXCEPT ![m] = [at |-> "queued", named |-> FALSE, late |-> Late]]
  /\ UNCHANGED <<holds, erasure, excused, since, import, report, keeping, happened>>

Load(m) ==
  /\ job[m].at = "queued" /\ Held(<<"register", m>>)
  /\ job' = [job EXCEPT ![m] = [@ EXCEPT !.at = "running", !.named = Named(<<"register", m>>)]]
  /\ UNCHANGED <<holds, erasure, excused, since, import, report, keeping, happened>>

Record(m) ==
  /\ job[m].at = "running"
  /\ job' = [job EXCEPT ![m] = NoJob]
  /\ Write(<<"results", m>>, job[m].named, job[m].late)
  /\ UNCHANGED <<import, report, erasure, keeping, happened>>

\* A month is signed, with what its run found.
Sign(m) ==
  /\ Held(<<"results", m>>)
  /\ Write(<<"signed", m>>, Named(<<"results", m>>), Late)
  /\ UNCHANGED <<work, erasure, keeping, happened>>

\* An import is queued with a copy of its records, and stores them when it runs.
Import ==
  /\ happened < EventBound /\ ~import
  /\ happened' = happened + 1
  /\ import' = TRUE
  /\ Write(Copy, TRUE, Late)
  /\ UNCHANGED <<job, report, erasure, keeping>>

Imported ==
  /\ import
  /\ import' = FALSE
  /\ Write(Master, Named(Copy), Late)
  /\ UNCHANGED <<job, report, erasure, keeping, happened>>

\* A report reads the master, and its file is stored when it is built.
Build ==
  /\ report = "none" /\ happened < EventBound
  /\ happened' = happened + 1
  /\ report' = holds[Master]
  /\ UNCHANGED <<holds, erasure, excused, since, job, import, keeping>>

Built ==
  /\ report # "none"
  /\ report' = "none"
  /\ Write(File, report = "named", Late)
  /\ UNCHANGED <<job, import, erasure, keeping, happened>>

--------------------------------------------------------------------------------
\* Mutant: a validation that is queued is let be.
InProgressRunning == \E m \in Months : job[m].at = "running"

\* erase_employee is refused while a validation is in progress.
InProgress == \E m \in Months : job[m].at \in {"queued", "running"}

EraseLook ==
  /\ erasure.at = "none"
  /\ ~InProgress
  /\ erasure' = [erasure EXCEPT !.at = "looked"]
  /\ UNCHANGED <<holds, excused, since, work, keeping, happened>>

\* Signed decisions and the trail are not rewritten, nor is the copy of an import that
\* is still active; they are named.
Retained == {p \in Places : Named(p) /\ (p[1] = "signed" \/ p = Trail \/ (p = Copy /\ import))}

EraseRewrite ==
  /\ erasure.at = "looked"
  /\ \E p \in Places : Named(p)
  /\ erasure' = [at |-> "rewritten", found |-> {p \in Places : Named(p)} \ Retained, kept |-> Retained]
  /\ UNCHANGED <<holds, excused, since, work, keeping, happened>>

\* Records about the person are deleted, files expire, and elsewhere a token stands for
\* them. The trail names whom it was about.
Erased(p) ==
  IF p = Trail THEN "named"
  ELSE IF p \notin erasure.found \/ ~Held(p) THEN holds[p]
  ELSE IF p \in Monthly THEN "clean" ELSE "nothing"

EraseCommit ==
  /\ erasure.at = "rewritten"
  /\ holds' = [p \in Places |-> Erased(p)]
  /\ excused' = (excused \ erasure.found) \cup erasure.kept \cup {Trail}
  /\ erasure' = [at |-> "done", found |-> {}, kept |-> {}]
  /\ UNCHANGED <<since, work, keeping, happened>>

--------------------------------------------------------------------------------
\* An owner sets the period, or none; it is to be applied afresh.
SetPolicy(n) ==
  /\ happened < EventBound
  /\ happened' = happened + 1
  /\ policy' = [months |-> n, applied |-> None]
  /\ UNCHANGED <<holds, erasure, excused, since, work, pass, today>>

\* Mutant: the current month does not count.
CutoffOfWhole(n) == today - n

\* The first month kept: months back from the current one, which counts.
Cutoff(n) == today - (n - 1)

\* apply_due, once a day; or an owner applies the period now.
ReadPolicy ==
  /\ pass.months = None
  /\ policy.months # None
  /\ pass' = [pass EXCEPT !.months = policy.months]
  /\ UNCHANGED <<holds, erasure, excused, since, work, policy, today, happened>>

\* apply_retention: what is older goes, everywhere, the jobs and what was signed too,
\* and the copies of imports that are over. The pass writes the day, not the period.
Apply ==
  /\ pass.months # None
  /\ LET older == {p \in Monthly : p[2] < Cutoff(pass.months)} IN
     /\ erasure.at = "rewritten" => older \cap erasure.found = {}
     /\ holds' = [p \in Places |-> IF p \in older THEN "nothing" ELSE holds[p]]
     /\ excused' = excused \ older
     /\ job' = [m \in Months |-> IF m < Cutoff(pass.months) THEN NoJob ELSE job[m]]
  /\ policy' = [policy EXCEPT !.applied = today]
  /\ pass' = [months |-> None, last |-> pass.months]
  /\ since' = {}
  /\ UNCHANGED <<erasure, import, report, today, happened>>

NextDay ==
  /\ today < LastMonth
  /\ pass.months = None
  /\ today' = today + 1
  /\ UNCHANGED <<holds, erasure, excused, since, work, policy, pass, happened>>

Next ==
  \/ \E m \in Months : Upload(m) \/ Enqueue(m) \/ Load(m) \/ Record(m) \/ Sign(m)
  \/ Import \/ Imported \/ Build \/ Built
  \/ EraseLook \/ EraseRewrite \/ EraseCommit
  \/ \E n \in Periods \cup {None} : SetPolicy(n)
  \/ ReadPolicy \/ Apply \/ NextDay

Spec == Init /\ [][Next]_vars

--------------------------------------------------------------------------------
\* After an erasure nothing names the person but what the erasure itself listed, and
\* where the name came in again, or was still on its way in, after it had looked
\* (data_protection.py:496, "so it cannot write the person back"). A validation that was in
\* progress is no excuse: the erasure would have been refused.
ErasedStaysErased ==
  erasure.at = "done" => \A p \in Places : Named(p) => p \in excused

\* On a day the period in force was applied, nothing older is left but what was written
\* since. A period that is set while a pass is under way counts as applied that day
\* although it was not.
KeptNoLonger ==
  policy.applied = today /\ pass.last = policy.months =>
    \A p \in Monthly : Held(p) /\ p[2] + policy.months <= today => p \in since

\* No pass takes a month that the period it read keeps, the current month counting as
\* the first (models/data_protection.py:38).
KeptAsLong == \A p \in Monthly : Held(p) /\ ~Held(p)' => p[2] + pass.months <= today

RetentionIsExact == []KeptNoLonger /\ [][KeptAsLong]_vars
================================================================================

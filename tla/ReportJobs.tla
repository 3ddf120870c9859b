------------------------------- MODULE ReportJobs -------------------------------
(***************************************************************************)
(* The queue of report files: requests, schedules, workers, cancelling,    *)
(* retrying and expiry.                                                    *)
(*                                                                         *)
(*   services/report_jobs.py      enqueue, _claim, run_once, schedule_due, *)
(*                                cleanup_expired                          *)
(*   routers/report_builder.py    queue_report, cancel_job, retry_job      *)
(*   models/report_job.py         ReportJob, ReportSchedule                *)
(*                                                                         *)
(* One person and one report definition: the unique index keeps what is    *)
(* asked for by others apart.  A file is the claim that built it.          *)
(***************************************************************************)
EXTENDS Integers

CONSTANTS
  Workers,      \* report worker threads, of every process
  MaxAttempts,  \* MAX_ATTEMPTS
  Prompt,       \* whether no live worker outlasts the fifteen minutes of its lease
  JobBound,     \* bound: jobs
  ClaimBound,   \* bound: claims of one job
  CrashBound,   \* bound: worker deaths
  DueBound      \* bound: times the schedule falls due

ReportAssumption ==
  /\ Prompt \in BOOLEAN
  /\ MaxAttempts \in Nat \ {0}
  /\ {JobBound, ClaimBound, CrashBound, DueBound} \subseteq Nat

Jobs == 1..JobBound
None == 0
Live == {"queued", "running"}
Ended == {"succeeded", "failed", "cancelled"}

VARIABLES
  job,       \* the rows of report_jobs
  wk,        \* what each worker is doing
  asked,     \* cancel requests between their read and their write: the state they read
  access,    \* whether the person may still run the report
  schedule,  \* the person's schedule of it
  crashes    \* worker deaths so far

vars == <<job, wk, asked, access, schedule, crashes>>

\* `claims` is the attempt column, `cancel` cancel_requested.
Absent == [state |-> "absent", claims |-> 0, cancel |-> FALSE, file |-> None, expired |-> FALSE]

\* `told` is the cancel_requested its session holds.
Idle == [pc |-> "idle", job |-> None, claim |-> 0, told |-> FALSE]

NotScheduled == [enabled |-> FALSE, due |-> FALSE, fell |-> 0]

Init ==
  /\ job = [j \in Jobs |-> Absent]
  /\ wk = [w \in Workers |-> Idle]
  /\ asked = [j \in Jobs |-> "none"]
  /\ access = TRUE
  /\ schedule = NotScheduled
  /\ crashes = 0

--------------------------------------------------------------------------------
(* Asking for a file.                                                      *)

LiveJobs == {j \in Jobs : job[j].state \in Live}
NextJob == {j \in Jobs : job[j].state = "absent"
                         /\ \A i \in 1..(j - 1) : job[i].state # "absent"}

\* enqueue: the live job if there is one, or a new one.  Two requests that both
\* see none meet the unique index, and the second gets the job of the first.
Enqueue ==
  \/ LiveJobs # {} /\ UNCHANGED job
  \/ LiveJobs = {} /\ \E j \in NextJob : job' = [job EXCEPT ![j].state = "queued"]

Queue ==
  /\ access
  /\ LiveJobs = {}
  /\ Enqueue
  /\ UNCHANGED <<wk, asked, access, schedule, crashes>>

\* retry_job: a failed job is left as it is, and another is asked for.
Retry ==
  /\ access
  /\ \E j \in Jobs : job[j].state = "failed"
  /\ LiveJobs = {}
  /\ Enqueue
  /\ UNCHANGED <<wk, asked, access, schedule, crashes>>

Schedule ==
  /\ ~schedule.enabled /\ access
  /\ schedule' = [schedule EXCEPT !.enabled = TRUE]
  /\ UNCHANGED <<job, wk, asked, access, crashes>>

FallsDue ==
  /\ schedule.enabled /\ ~schedule.due /\ schedule.fell < DueBound
  /\ schedule' = [schedule EXCEPT !.due = TRUE, !.fell = @ + 1]
  /\ UNCHANGED <<job, wk, asked, access, crashes>>

\* schedule_due: the schedule moves on and its job is queued in one commit, or
\* the schedule stops because its owner may not run the report.
ScheduleDue ==
  /\ schedule.enabled /\ schedule.due
  /\ \/ access /\ Enqueue /\ schedule' = [schedule EXCEPT !.due = FALSE]
     \/ ~access /\ schedule' = [schedule EXCEPT !.due = FALSE, !.enabled = FALSE] /\ UNCHANGED job
  /\ UNCHANGED <<wk, asked, access, crashes>>

\* The role, the definition's status or its visibility changes.
AccessChanges ==
  /\ access' = ~access
  /\ UNCHANGED <<job, wk, asked, schedule, crashes>>

\* cancel_job reads the state, and then writes what that state called for with
\* no guard on the state it overwrites.
CancelReads(j) ==
  /\ access
  /\ asked[j] = "none" /\ job[j].state \in Live /\ ~job[j].cancel
  /\ asked' = [asked EXCEPT ![j] = job[j].state]
  /\ UNCHANGED <<job, wk, access, schedule, crashes>>

CancelWrites(j) ==
  /\ asked[j] # "none"
  /\ job' = [job EXCEPT ![j] = IF asked[j] = "queued" THEN [@ EXCEPT !.state = "cancelled"]
                                                      ELSE [@ EXCEPT !.cancel = TRUE]]
  /\ asked' = [asked EXCEPT ![j] = "none"]
  /\ UNCHANGED <<wk, access, schedule, crashes>>

--------------------------------------------------------------------------------
(* The workers.                                                            *)

Held(j) == \E w \in Workers : wk[w].job = j

\* Mutant of Claimable: the age of the heartbeat is not looked at.
ClaimableAnytime(j) == job[j].state \in Live

\* Queued, or running with a heartbeat older than the lease: its worker died or,
\* unless Prompt, is only slow.
Claimable(j) ==
  \/ job[j].state = "queued"
  \/ job[j].state = "running" /\ (Prompt => ~Held(j))

\* _claim: the attempt is counted, and nothing else is looked at.
Claim(w) ==
  /\ wk[w].pc = "idle"
  /\ \E j \in Jobs :
       /\ Claimable(j) /\ job[j].claims < ClaimBound
       /\ job' = [job EXCEPT ![j].state = "running", ![j].claims = @ + 1]
       /\ wk' = [wk EXCEPT ![w] = [pc |-> "claimed", job |-> j, claim |-> job[j].claims + 1, told |-> FALSE]]
  /\ UNCHANGED <<asked, access, schedule, crashes>>

Release(w) == wk' = [wk EXCEPT ![w] = Idle]

\* The job is cancelled, refused, or goes on to its build with the row as the
\* session reads it then; what is written to the row later, it does not see.
Begin(w) ==
  LET j == wk[w].job IN
  /\ wk[w].pc = "claimed"
  /\ \/ job[j].cancel /\ job' = [job EXCEPT ![j].state = "cancelled"] /\ Release(w)
     \/ ~job[j].cancel /\ ~access /\ job' = [job EXCEPT ![j].state = "failed"] /\ Release(w)
     \/ /\ ~job[j].cancel /\ access
        /\ wk' = [wk EXCEPT ![w].pc = "permitted"]
        /\ UNCHANGED job
  /\ UNCHANGED <<asked, access, schedule, crashes>>

\* The commit of the stage expires the row, and the format is read from it again:
\* the one time a cancel request is seen.
Builds(w) ==
  /\ wk[w].pc = "permitted"
  /\ wk' = [wk EXCEPT ![w].pc = "building", ![w].told = job[wk[w].job].cancel]
  /\ UNCHANGED <<job, asked, access, schedule, crashes>>

\* The build is over: cancelled if it had been told, and otherwise its file is stored.
Built(j, claim, told) ==
  IF told THEN [job EXCEPT ![j].state = "cancelled"]
          ELSE [job EXCEPT ![j].state = "succeeded", ![j].file = claim, ![j].expired = FALSE]

Finish(w) ==
  /\ wk[w].pc = "building"
  /\ job' = Built(wk[w].job, wk[w].claim, wk[w].told)
  /\ Release(w)
  /\ UNCHANGED <<asked, access, schedule, crashes>>

\* The file is larger than report_artifact_max_mb, or the build refuses its
\* specification: for good.
Refuse(w) ==
  /\ wk[w].pc = "building"
  /\ job' = [job EXCEPT ![wk[w].job].state = IF wk[w].told THEN "cancelled" ELSE "failed"]
  /\ Release(w)
  /\ UNCHANGED <<asked, access, schedule, crashes>>

\* Mutant of TriesAgain: every failure is tried again.
TriesAlways(j) == ~job[j].cancel
TriesAgain(j) == job[j].claims < MaxAttempts /\ ~job[j].cancel

\* Anything else that is raised: the row is read again, and goes back to the
\* queue while attempts are left.  The unique index may refuse that; the worker's
\* loop goes on and the row stays as it is.
Raise(w) ==
  LET j == wk[w].job IN
  /\ wk[w].pc \in {"permitted", "building"}
  /\ \/ TriesAgain(j) /\ LiveJobs \subseteq {j} /\ job' = [job EXCEPT ![j].state = "queued"]
     \/ TriesAgain(j) /\ ~(LiveJobs \subseteq {j}) /\ UNCHANGED job
     \/ ~TriesAgain(j) /\ job' = [job EXCEPT ![j].state = "failed"]
  /\ Release(w)
  /\ UNCHANGED <<asked, access, schedule, crashes>>

Crash(w) ==
  /\ wk[w].pc # "idle" /\ crashes < CrashBound
  /\ crashes' = crashes + 1
  /\ Release(w)
  /\ UNCHANGED <<job, asked, access, schedule>>

\* cleanup_expired: the file has had its days.
CleanUp ==
  /\ \E j \in Jobs : job[j].file # None /\ ~Held(j)
                     /\ job' = [job EXCEPT ![j].file = None, ![j].expired = TRUE]
  /\ UNCHANGED <<wk, asked, access, schedule, crashes>>

--------------------------------------------------------------------------------
Process(w) == Begin(w) \/ Builds(w) \/ Finish(w) \/ Refuse(w) \/ Raise(w)

Next ==
  \/ Queue \/ Retry \/ Schedule \/ FallsDue \/ ScheduleDue \/ AccessChanges \/ CleanUp
  \/ \E j \in Jobs : CancelReads(j) \/ CancelWrites(j)
  \/ \E w \in Workers : Claim(w) \/ Process(w) \/ Crash(w)

\* A worker's loop goes round and a live worker gets to the end of what it builds.
Fairness == \A w \in Workers : WF_vars(Claim(w)) /\ WF_vars(Process(w))

Spec == Init /\ [][Next]_vars /\ Fairness

--------------------------------------------------------------------------------
TypeOK ==
  /\ job \in [Jobs -> [state : {"absent"} \cup Live \cup Ended, claims : 0..ClaimBound, cancel : BOOLEAN,
                       file : 0..ClaimBound, expired : BOOLEAN]]
  /\ wk \in [Workers -> [pc : {"idle", "claimed", "permitted", "building"}, job : Jobs \cup {None},
                         claim : 0..ClaimBound, told : BOOLEAN]]
  /\ asked \in [Jobs -> Live \cup {"none"}]
  /\ access \in BOOLEAN
  /\ schedule \in [enabled : BOOLEAN, due : BOOLEAN, fell : 0..DueBound]
  /\ crashes \in 0..CrashBound

\* "A generated file is immutable" (models/report_job.py:3): whatever becomes of
\* its job, a file is at most dropped, never replaced, and once dropped it does
\* not come back.
GeneratedFilesStay ==
  [][\A j \in Jobs : /\ job[j].file # None => job'[j].file \in {job[j].file, None}
                     /\ job[j].expired => job'[j].file = None]_vars

\* A file that was asked for is made, refused, failed or cancelled, in spite of
\* the deaths, failures and cancel requests on the way (run_once, _claim).
EveryReportEnds == \A j \in Jobs : (job[j].state \in Live) ~> (job[j].state \in Ended)
================================================================================

---------------------------- MODULE ValidationQueue ----------------------------
(***************************************************************************)
(* The validation queue: one table of jobs, the workers that claim and run *)
(* them, and the table of runs they write.                                 *)
(*                                                                         *)
(*   services/validation_jobs.py    enqueue, claim, fail, request_cancel   *)
(*   services/validation_worker.py  run_once, execute                      *)
(*   services/finding_store.py      record_run, the run's own row          *)
(*   routers/validation_runs.py     cancel_job, retry_job                  *)
(*   routers/payroll.py             the synchronous endpoint's run         *)
(*                                                                         *)
(* A step is one transaction, or the reads between two of them.  A session *)
(* re-reads a row after each commit or rollback, and its UPDATE writes the *)
(* columns that differ from what it read (`Flush`): the database is READ   *)
(* COMMITTED and the job row carries no version.                           *)
(***************************************************************************)
EXTENDS Integers, Sequences, FiniteSetsExt

CONSTANTS
  Workers,        \* worker threads and processes
  Periods,        \* payroll months of one entity
  JobBound,       \* bound: jobs ever enqueued
  MaxAttempts,    \* ValidationJob.max_attempts
  SlowWorkers,    \* may a live worker be silent longer than LEASE_SECONDS?
  ClaimBound,     \* bound: claims of one job
  CrashBound,     \* bound: worker deaths
  ApiRunBound     \* bound: no synchronous validation starts past this many runs

ASSUME QueueAssumption ==
  /\ JobBound \in Nat
  /\ MaxAttempts \in Nat \ {0}
  /\ SlowWorkers \in BOOLEAN
  /\ ClaimBound \in Nat
  /\ CrashBound \in Nat
  /\ ApiRunBound \in Nat

Jobs == 1..JobBound           \* in the order of queued_at
None == "none"
NoRun == 0
Active == {"queued", "running"}
Terminal == {"succeeded", "failed", "cancelled"}
JobStates == Active \cup Terminal

VARIABLES
  job,         \* validation_jobs, by job
  runs,        \* validation_runs, in the order they committed
  wk,          \* what each worker is doing
  cancelling,  \* cancel requests past their check of the state, not yet written
  sync,        \* the synchronous validation of each month: under way, what it read
  crashes      \* worker deaths so far

vars == <<job, runs, wk, cancelling, sync, crashes>>

\* The row of a job.  `beat` is heartbeat_at against the lease: never written
\* (or cleared), within LEASE_SECONDS, or older.
Absent ==
  [state |-> "absent", period |-> None, owner |-> None, beat |-> None,
   attempts |-> 0, cancel |-> FALSE, run |-> NoRun, retryOf |-> 0]

\* What record_run reads before it writes: the highest run number of the month
\* and the runs that are current.
NothingRead == [top |-> 0, cur |-> {}]

\* A worker between jobs.  `seen` is the job as its session last read it,
\* `prev` what record_run read, `exc` the exception being handled.
Idle == [pc |-> "idle", job |-> 0, seen |-> Absent, prev |-> NothingRead, exc |-> None]

Init ==
  /\ job = [j \in Jobs |-> Absent]
  /\ runs = <<>>
  /\ wk = [w \in Workers |-> Idle]
  /\ cancelling = {}
  /\ sync = [p \in Periods |-> [busy |-> FALSE, prev |-> NothingRead]]
  /\ crashes = 0

--------------------------------------------------------------------------------
(* The rows.                                                               *)

\* The UPDATE a session issues for a row it read as `seen` and now holds as
\* `mine`: the columns it changed, over what the row holds by then.
Flush(row, seen, mine) ==
  [c \in DOMAIN row |-> IF mine[c] = seen[c] THEN row[c] ELSE mine[c]]

\* The partial unique index ux_validation_jobs_active.
ActiveOn(p, except) ==
  {k \in Jobs \ {except} : job[k].state \in Active /\ job[k].period = p}

\* Mutant of IndexRefuses: the unique index is missing.
IndexMissing(j, r) == FALSE

\* The job table with row r for job j, unless the index refuses it.
IndexRefuses(j, r) == r.state \in Active /\ ActiveOn(r.period, j) # {}

RunsOf(p) == {r \in DOMAIN runs : runs[r].period = p}
CurrentRuns(p) == {r \in RunsOf(p) : runs[r].status = "current"}

\* record_run's query for the month's previous runs.
ReadPrevious(p) ==
  [top |-> IF RunsOf(p) = {} THEN 0 ELSE Max({runs[r].number : r \in RunsOf(p)}),
   cur |-> CurrentRuns(p)]

\* Mutant of RunRefused: the unique index is missing.
RunIndexMissing(p, prev) == FALSE

\* The partial unique index on the month's current run: one that record_run did
\* not read, and so did not supersede, is still current when it inserts its own.
RunRefused(p, prev) == CurrentRuns(p) \ prev.cur # {}

\* Mutant of Recorded: runs are numbered from the one before, not after it.
RecordedSameNumber(p, j, prev) ==
  Append([r \in DOMAIN runs |->
            IF r \in prev.cur
            THEN [runs[r] EXCEPT !.status = "superseded", !.next = Len(runs) + 1]
            ELSE runs[r]],
         [period |-> p, job |-> j, number |-> prev.top, status |-> "current", next |-> NoRun])

\* Mutant of Recorded: the run a month had is pointed at the new one and stays
\* current.
RecordedBeside(p, j, prev) ==
  Append([r \in DOMAIN runs |->
            IF r \in prev.cur THEN [runs[r] EXCEPT !.next = Len(runs) + 1] ELSE runs[r]],
         [period |-> p, job |-> j, number |-> prev.top + 1, status |-> "current", next |-> NoRun])

\* validation_runs after record_run: what it read as current is superseded by
\* the new run, which is current.
Recorded(p, j, prev) ==
  Append([r \in DOMAIN runs |->
            IF r \in prev.cur
            THEN [runs[r] EXCEPT !.status = "superseded", !.next = Len(runs) + 1]
            ELSE runs[r]],
         [period |-> p, job |-> j, number |-> prev.top + 1,
          status |-> "current", next |-> NoRun])

--------------------------------------------------------------------------------
(* The API.                                                                *)

\* enqueue: the next job, refused while the month has live work.
Enqueue(j, p, old) ==
  /\ job[j].state = "absent"
  /\ \A k \in 1..(j - 1) : job[k].state # "absent"
  /\ LET row == [Absent EXCEPT !.state = "queued", !.period = p, !.retryOf = old]
     IN /\ ~IndexRefuses(j, row)
        /\ job' = [job EXCEPT ![j] = row]
  /\ UNCHANGED <<runs, wk, cancelling, sync, crashes>>

\* Submitting a month for validation, from the screen or the integration API.
Submit(j) == \E p \in Periods : Enqueue(j, p, 0)

\* retry_job: the same validation as a new job, for one that ended badly.
Retry(j) ==
  \E old \in Jobs :
    /\ job[old].state \in {"failed", "cancelled"}
    /\ Enqueue(j, job[old].period, old)

\* request_cancel, up to its check that the job has not ended.
CheckCancel(j) ==
  /\ job[j].state \in Active
  /\ cancelling' = cancelling \cup {j}
  /\ UNCHANGED <<job, runs, wk, sync, crashes>>

\* Mutant of WriteCancel: the UPDATE of a queued job has lost its state guard.
WriteCancelUnguarded(j) ==
  /\ j \in cancelling
  /\ cancelling' = cancelling \ {j}
  /\ job' = [job EXCEPT ![j].cancel = TRUE, ![j].state = "cancelled"]
  /\ UNCHANGED <<runs, wk, sync, crashes>>

\* request_cancel, its writes: a queued job is cancelled outright; any other is
\* asked, whatever became of it since the check.
WriteCancel(j) ==
  /\ j \in cancelling
  /\ cancelling' = cancelling \ {j}
  /\ job' = [job EXCEPT ![j].cancel = TRUE,
                        ![j].state = IF @ = "queued" THEN "cancelled" ELSE @]
  /\ UNCHANGED <<runs, wk, sync, crashes>>

\* The synchronous endpoint reaches record_run and reads the month's runs.
SyncRead(p) ==
  /\ ~sync[p].busy
  /\ Len(runs) < ApiRunBound
  /\ sync' = [sync EXCEPT ![p] = [busy |-> TRUE, prev |-> ReadPrevious(p)]]
  /\ UNCHANGED <<job, runs, wk, cancelling, crashes>>

\* It writes its run and commits, or answers with an error and writes nothing.
SyncRecord(p) ==
  /\ sync[p].busy
  /\ sync' = [sync EXCEPT ![p] = [busy |-> FALSE, prev |-> NothingRead]]
  /\ runs' = IF RunRefused(p, sync[p].prev) THEN runs ELSE Recorded(p, 0, sync[p].prev)
  /\ UNCHANGED <<job, wk, cancelling, crashes>>

--------------------------------------------------------------------------------
(* A worker.                                                               *)

\* Mutant of Claimable: a running job is never taken over.
ClaimableQueued(j) == job[j].state = "queued"

Claimable(j) ==
  \/ job[j].state = "queued"
  \/ job[j].state = "running" /\ job[j].beat # "fresh"

\* The select of claim: the oldest claimable job.
ClaimSelect(w, j) ==
  /\ wk[w].pc = "idle"
  /\ Claimable(j)
  /\ \A k \in 1..(j - 1) : ~Claimable(k)
  /\ wk' = [wk EXCEPT ![w] = [Idle EXCEPT !.pc = "claiming", !.job = j]]
  /\ UNCHANGED <<job, runs, cancelling, sync, crashes>>

\* Mutant of ClaimUpdate: the UPDATE takes whatever the select returned.
ClaimUpdateUnguarded(w) ==
  LET j == wk[w].job IN
  /\ wk[w].pc = "claiming"
  /\ job[j].attempts < ClaimBound
  /\ job' = [job EXCEPT ![j].state = "running", ![j].owner = w,
                        ![j].beat = "fresh", ![j].attempts = @ + 1]
  /\ wk' = [wk EXCEPT ![w].pc = "claimed"]
  /\ UNCHANGED <<runs, cancelling, sync, crashes>>

\* The guarded UPDATE of claim, and run_once's commit of it.
ClaimUpdate(w) ==
  LET j == wk[w].job IN
  /\ wk[w].pc = "claiming"
  /\ job[j].attempts < ClaimBound
  /\ IF Claimable(j)
     THEN /\ job' = [job EXCEPT ![j].state = "running", ![j].owner = w,
                                ![j].beat = "fresh", ![j].attempts = @ + 1]
          /\ wk' = [wk EXCEPT ![w].pc = "claimed"]
     ELSE job' = job /\ wk' = [wk EXCEPT ![w] = Idle]
  /\ UNCHANGED <<runs, cancelling, sync, crashes>>

\* An exception leaves execute: nothing uncommitted survives it.
Raised(w, e) == [Idle EXCEPT !.pc = "failing", !.job = wk[w].job, !.exc = e]

\* execute begins: refuse a job someone asked to stop, else commit `loading`.
Begin(w) ==
  LET j == wk[w].job IN
  /\ wk[w].pc = "claimed"
  /\ IF job[j].cancel
     THEN job' = job /\ wk' = [wk EXCEPT ![w] = Raised(w, "JobCancelled")]
     ELSE /\ job' = [job EXCEPT ![j].beat = "fresh"]
          /\ wk' = [wk EXCEPT ![w].pc = "loading"]
  /\ UNCHANGED <<runs, cancelling, sync, crashes>>

\* The rows and the configuration are read; commit `validating`.
Load(w) ==
  /\ wk[w].pc = "loading"
  /\ job' = [job EXCEPT ![wk[w].job].beat = "fresh"]
  /\ wk' = [wk EXCEPT ![w].pc = "validating"]
  /\ UNCHANGED <<runs, cancelling, sync, crashes>>

\* The progress callback: renew the lease, commit, re-read the job, stop if
\* asked to.  The last call leaves the worker holding the job as it read it.
ProgressTo(w, next) ==
  LET j == wk[w].job
      read == [job[j] EXCEPT !.beat = "fresh"]
  IN
  /\ wk[w].pc = "validating"
  /\ job' = [job EXCEPT ![j] = read]
  /\ wk' = [wk EXCEPT ![w] =
              IF read.cancel THEN Raised(w, "JobCancelled")
              ELSE IF next = "recording" THEN [@ EXCEPT !.pc = next, !.seen = read]
              ELSE @]
  /\ UNCHANGED <<runs, cancelling, sync, crashes>>

Progress(w) == ProgressTo(w, "validating")
LastProgress(w) == ProgressTo(w, "recording")

\* record_run reads the month's previous runs.
ReadRuns(w) ==
  /\ wk[w].pc = "recording"
  /\ wk' = [wk EXCEPT ![w].pc = "writing", ![w].prev = ReadPrevious(job[wk[w].job].period)]
  /\ UNCHANGED <<job, runs, cancelling, sync, crashes>>

\* Mutant of Record: the run is committed before the job is, and the job's own
\* commit is lost.
RecordThenLose(w) ==
  LET j == wk[w].job IN
  /\ wk[w].pc = "writing"
  /\ wk' = [wk EXCEPT ![w] = Raised(w, "IntegrityError")]
  /\ runs' = IF RunRefused(job[j].period, wk[w].prev) THEN runs
             ELSE Recorded(job[j].period, j, wk[w].prev)
  /\ UNCHANGED <<job, cancelling, sync, crashes>>

\* record_run writes the run, succeed writes the job, run_once commits both; or
\* the index on the current run refuses and record_run raises.
Record(w) ==
  LET j == wk[w].job
      p == job[j].period
      seen == wk[w].seen
      mine == [seen EXCEPT !.state = "succeeded", !.owner = None, !.run = Len(runs) + 1]
  IN
  /\ wk[w].pc = "writing"
  /\ IF RunRefused(p, wk[w].prev)
     THEN /\ wk' = [wk EXCEPT ![w] = Raised(w, "IntegrityError")]
          /\ UNCHANGED <<job, runs>>
     ELSE /\ runs' = Recorded(p, j, wk[w].prev)
          /\ job' = [job EXCEPT ![j] = [Flush(@, seen, mine) EXCEPT !.beat = "fresh"]]
          /\ wk' = [wk EXCEPT ![w] = Idle]
  /\ UNCHANGED <<cancelling, sync, crashes>>

\* Something execute does raises: what a retry cannot fix (no components, no
\* upload, no rows) only before the engine starts.
Throw(w) ==
  /\ \/ /\ wk[w].pc \in {"claimed", "loading", "validating", "recording", "writing"}
        /\ wk' = [wk EXCEPT ![w] = Raised(w, "transient")]
     \/ /\ wk[w].pc \in {"claimed", "loading"}
        /\ wk' = [wk EXCEPT ![w] = Raised(w, "PermanentJobError")]
  /\ UNCHANGED <<job, runs, cancelling, sync, crashes>>

\* run_once's handler: roll back and re-read the job.
Reread(w) ==
  /\ wk[w].pc = "failing"
  /\ wk' = [wk EXCEPT ![w].pc = "closing", ![w].seen = job[wk[w].job]]
  /\ UNCHANGED <<job, runs, cancelling, sync, crashes>>

\* mark_cancelled leaves a job that has ended alone.
MarkCancelled(seen) ==
  IF seen.state \in Terminal THEN seen
  ELSE [seen EXCEPT !.state = "cancelled", !.owner = None, !.beat = None]

\* fail: another go, unless none could help or none is left.
Fail(seen, permanent) ==
  [seen EXCEPT !.owner = None, !.beat = None,
               !.state = IF permanent \/ seen.attempts >= MaxAttempts
                         THEN "failed" ELSE "queued"]

\* The handler writes its decision and commits.  A row the index refuses is an
\* error the loop logs: the job stays as it is.
Close(w) ==
  LET j == wk[w].job
      seen == wk[w].seen
      mine == IF wk[w].exc = "JobCancelled" THEN MarkCancelled(seen)
              ELSE Fail(seen, wk[w].exc = "PermanentJobError")
      row == Flush(job[j], seen, mine)
  IN
  /\ wk[w].pc = "closing"
  /\ wk' = [wk EXCEPT ![w] = Idle]
  /\ job' = IF IndexRefuses(j, row) THEN job ELSE [job EXCEPT ![j] = row]
  /\ UNCHANGED <<runs, cancelling, sync, crashes>>

\* The process dies, or the database goes away under it: the open transaction
\* is rolled back and a fresh worker takes its place.
Crash(w) ==
  /\ wk[w].pc # "idle"
  /\ crashes < CrashBound
  /\ crashes' = crashes + 1
  /\ wk' = [wk EXCEPT ![w] = Idle]
  /\ UNCHANGED <<job, runs, cancelling, sync>>

\* The workers that hold job j, whatever locked_by says.
Holders(j) == {w \in Workers : wk[w].job = j /\ wk[w].pc \notin {"idle", "claiming"}}

\* LEASE_SECONDS pass without a heartbeat.
LeaseLapse(j) ==
  /\ job[j].state = "running"
  /\ job[j].beat = "fresh"
  /\ SlowWorkers \/ Holders(j) = {}
  /\ job' = [job EXCEPT ![j].beat = "stale"]
  /\ UNCHANGED <<runs, wk, cancelling, sync, crashes>>

--------------------------------------------------------------------------------
Api ==
  \/ \E j \in Jobs : Submit(j) \/ Retry(j) \/ CheckCancel(j) \/ WriteCancel(j)
  \/ \E p \in Periods : SyncRead(p) \/ SyncRecord(p)

Claim(w) == ClaimUpdate(w) \/ \E j \in Jobs : ClaimSelect(w, j)

\* What a worker does by itself, failures and the optional progress calls apart.
Work(w) ==
  \/ Claim(w)
  \/ Begin(w)
  \/ Load(w)
  \/ LastProgress(w)
  \/ ReadRuns(w)
  \/ Record(w)
  \/ Reread(w)
  \/ Close(w)

Next ==
  \/ Api
  \/ \E w \in Workers : Work(w) \/ Progress(w) \/ Throw(w) \/ Crash(w)
  \/ \E j \in Jobs : LeaseLapse(j)

Spec == Init /\ [][Next]_vars

\* The loop polls for ever, a killed worker is replaced, and time passes.  No
\* fairness is asked of users, of failures, or of the optional progress calls.
Fairness ==
  /\ \A w \in Workers : WF_vars(Work(w))
  /\ \A j \in Jobs : WF_vars(LeaseLapse(j))

FairSpec == Spec /\ Fairness

--------------------------------------------------------------------------------
(* Types.                                                                  *)

JobRow ==
  [state : JobStates \cup {"absent"}, period : Periods \cup {None},
   owner : Workers \cup {None}, beat : {None, "fresh", "stale"},
   attempts : Nat, cancel : BOOLEAN, run : Nat, retryOf : Jobs \cup {0}]

Reading == [top : Nat, cur : SUBSET DOMAIN runs]

Pcs == {"idle", "claiming", "claimed", "loading", "validating", "recording",
        "writing", "failing", "closing"}

Exceptions == {None, "transient", "PermanentJobError", "JobCancelled", "IntegrityError"}

RunRow == [period : Periods, job : Jobs \cup {0}, number : Nat \ {0},
           status : {"current", "superseded"}, next : Nat]

\* The tables and the workers hold what their columns and variables can hold;
\* a worker that is not idle has a job, which has a month.
TypeOK ==
  /\ job \in [Jobs -> JobRow]
  /\ \A j \in Jobs : job[j].state # "absent" => job[j].period \in Periods
  /\ runs \in Seq(RunRow)
  /\ wk \in [Workers -> [pc : Pcs, job : Jobs \cup {0}, seen : JobRow,
                       prev : Reading, exc : Exceptions]]
  /\ \A w \in Workers :
       wk[w].pc # "idle" => wk[w].job \in Jobs /\ job[wk[w].job].state # "absent"
  /\ \A w \in Workers :
       wk[w].pc \in {"recording", "writing", "closing"} =>
         wk[w].seen.state # "absent" /\ wk[w].seen.period = job[wk[w].job].period
  /\ cancelling \subseteq {j \in Jobs : job[j].state # "absent"}
  /\ sync \in [Periods -> [busy : BOOLEAN, prev : Reading]]
  /\ crashes \in Nat

--------------------------------------------------------------------------------
(* What holds however slow a worker is.                                    *)

\* A month never has two jobs queued or running, though enqueue, retry_job and
\* a worker putting its job back all race for it (models/validation_job.py:81).
OneActivePerPeriod ==
  \A j, k \in Jobs :
    job[j].state \in Active /\ job[k].state \in Active /\ job[j].period = job[k].period
      => j = k

\* A month's runs are one chain: numbered 1, 2, 3 without a gap, each superseded
\* by the next, the last one current; whoever wrote them and in whatever order
\* they read and wrote (models/findings.py:58-66, finding_store.py:157-162).
RunHistoryIsAChain ==
  \A p \in Periods : \A r \in RunsOf(p) :
    LET earlier == {s \in RunsOf(p) : s < r}
        later == {s \in RunsOf(p) : s > r}
    IN
    /\ runs[r].number = 1 + (IF earlier = {} THEN 0 ELSE runs[Max(earlier)].number)
    /\ IF later = {}
       THEN runs[r].status = "current" /\ runs[r].next = NoRun
       ELSE runs[r].status = "superseded" /\ runs[r].next = Min(later)

RunsBy(j) == {r \in DOMAIN runs : runs[r].job = j}

\* A job and the runs it wrote never part: its run_id is the newest run that
\* names it, of its own month, whatever two workers do with the same job
\* (validation_jobs.py:11-14, one transaction for both).
JobPointsAtItsNewestRun ==
  \A j \in Jobs :
    /\ job[j].run = IF RunsBy(j) = {} THEN NoRun ELSE Max(RunsBy(j))
    /\ \A r \in RunsBy(j) : runs[r].period = job[j].period
    /\ job[j].state = "succeeded" => job[j].run # NoRun

\* The queue implements the run ledger.
Ledger == INSTANCE RunLedger WITH
  answer <- [p \in Periods |->
               IF CurrentRuns(p) = {} THEN NoRun ELSE Max(CurrentRuns(p))],
  history <- [p \in Periods |-> RunsOf(p) \ CurrentRuns(p)]

\* Each month's answer is only ever replaced by a run nobody has seen, and the
\* one it replaces is kept (models/findings.py:62 "immutable and never deleted").
KeepsTheLedger == Ledger!Spec

--------------------------------------------------------------------------------
(* What holds as long as no live worker outlasts its lease.                *)

\* "Terminal states are final" (models/validation_job.py:45).
TerminalIsFinal ==
  [][\A j \in Jobs : job[j].state \in Terminal => job'[j].state = job[j].state]_vars

\* "A failed or cancelled job wrote no run, so a retry cannot duplicate one"
\* (routers/validation_runs.py:262), and a job writes at most one.
RunsOnlyFromSuccess ==
  \A j \in Jobs :
    /\ job[j].state # "succeeded" => RunsBy(j) = {}
    /\ Cardinality(RunsBy(j)) <= 1

\* The lease is a lock: no two workers run one job, and the one that runs it is
\* the one the row names.
OneHolder ==
  \A j \in Jobs :
    /\ Cardinality(Holders(j)) <= 1
    /\ job[j].state = "running" => Holders(j) \subseteq {job[j].owner}

\* Every job ends, through crashes, failures and cancel requests: no job waits
\* in the queue or in `running` for ever (validation_jobs.py:184-187).
EveryJobEnds ==
  \A j \in Jobs : job[j].state \in Active ~> job[j].state \in Terminal
================================================================================

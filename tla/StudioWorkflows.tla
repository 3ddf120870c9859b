---------------------------- MODULE StudioWorkflows ----------------------------
(***************************************************************************)
(* The execution of workflow runs: steps in order, the sync or validation  *)
(* a step waits for, retries, timeouts, the failure branch and cancelling. *)
(*                                                                         *)
(*   services/studio/workflows.py  process, _execute, _fail, cancel        *)
(*   services/studio/worker.py     run_once                                *)
(*   services/studio/runs.py       claim, finish, request_cancel           *)
(*   services/studio/sync.py       start                                   *)
(*   services/validation_jobs.py   submit_for_period, request_cancel       *)
(*                                                                         *)
(* A workflow run is processed from its claim to one commit: when it must  *)
(* wait, when a step is retried, or when it ends.  Nothing it does in that *)
(* time is remote, so a live worker does not outlast its lease: a run is   *)
(* taken over only from a worker that died.  The work a step waits for is  *)
(* a child, which goes its own way and need never end.                     *)
(***************************************************************************)
EXTENDS Integers, Sequences, FiniteSetsExt

CONSTANTS
  Workers,      \* worker threads and processes
  Actions,      \* the steps of the definition: "sync", "validate" or "notify"
  Retries,      \* retries of each step
  MaxAttempts,  \* StudioRun.max_attempts
  RunBound,     \* bound: workflow runs
  ChildBound,   \* bound: syncs and validations
  CrashBound    \* bound: worker deaths

ASSUME WorkflowAssumption ==
  /\ Actions \in Seq({"sync", "validate", "notify"})
  /\ Retries \in Nat
  /\ MaxAttempts \in Nat \ {0}
  /\ {RunBound, ChildBound, CrashBound} \subseteq Nat

Runs == 1..RunBound
Children == 1..ChildBound
None == 0
Live == {"queued", "running"}
Ended == {"completed", "partially_completed", "failed", "cancelled"}
FailureBranch == Len(Actions) + 1   \* stands for the notice of the failure branch

VARIABLES
  run,      \* studio_runs of kind workflow
  child,    \* the syncs of one stream and the validations of one month
  wk,       \* what each worker is doing
  asked,    \* a cancel request that read a queued run, and what that waited for
  notices,  \* how often each step of each run has notified anyone
  finished, \* runs whose workflow.finished event is in the outbox
  crashes   \* worker deaths so far

vars == <<run, child, wk, asked, notices, finished, crashes>>

\* Where a run is: `cursor` is the step, `ref` what it waits for, `tries` its
\* attempts.
Start == [cursor |-> 1, ref |-> None, tries |-> 0]

\* `late` when the time of the workflow, or of the step it is at, is up.
Absent == [status |-> "absent", attempts |-> 0, cancel |-> FALSE, late |-> FALSE, at |-> Start]

NoChild == [kind |-> "none", status |-> "absent", cancel |-> FALSE, by |-> None]

\* `at` is where the session has the run, `said` the steps that notified in this
\* transaction.
Idle == [pc |-> "idle", run |-> None, at |-> Start, said |-> {}]
NobodyAsks == [run |-> None, ref |-> None]

Init ==
  /\ run = [r \in Runs |-> Absent]
  /\ child = [c \in Children |-> NoChild]
  /\ wk = [w \in Workers |-> Idle]
  /\ asked = NobodyAsks
  /\ notices = [r \in Runs |-> [s \in 1..FailureBranch |-> 0]]
  /\ finished = {}
  /\ crashes = 0

--------------------------------------------------------------------------------
(* The children.                                                           *)

LiveOf(kind) == {c \in Children : child[c].kind = kind /\ child[c].status \in Live}
NextChild == {c \in Children : child[c].status = "absent"
                               /\ \A d \in 1..(c - 1) : child[d].status # "absent"}

\* What a cancel does to a child, if any: a queued one ends, a running one is told.
Told(c) ==
  [d \in Children |->
     IF d = c /\ child[d].status \in Live
       THEN [child[d] EXCEPT !.cancel = TRUE, !.status = IF @ = "queued" THEN "cancelled" ELSE @]
       ELSE child[d]]

\* Someone else starts one.
StartChild(c, kind) ==
  /\ kind # "notify"
  /\ c \in NextChild
  /\ LiveOf(kind) = {}
  /\ child' = [child EXCEPT ![c] = [NoChild EXCEPT !.kind = kind, !.status = "queued"]]
  /\ UNCHANGED <<run, wk, asked, notices, finished, crashes>>

\* A child is claimed, and ends; nothing says it must.
ChildMoves(c) ==
  /\ \/ child[c].status = "queued" /\ child' = [child EXCEPT ![c].status = "running"]
     \/ /\ child[c].status = "running"
        /\ \E s \in Ended : /\ s = "cancelled" => child[c].cancel
                            /\ s = "partially_completed" => child[c].kind = "sync"
                            /\ child' = [child EXCEPT ![c].status = s]
  /\ UNCHANGED <<run, wk, asked, notices, finished, crashes>>

\* A person cancels it.
CancelChild(c) ==
  /\ child[c].status \in Live /\ ~child[c].cancel
  /\ child' = Told(c)
  /\ UNCHANGED <<run, wk, asked, notices, finished, crashes>>

--------------------------------------------------------------------------------
(* The run.                                                                *)

\* fire: a run of the definition, queued.
Fire(r) ==
  /\ run[r].status = "absent" /\ \A q \in 1..(r - 1) : run[q].status # "absent"
  /\ run' = [run EXCEPT ![r] = [Absent EXCEPT !.status = "queued"]]
  /\ UNCHANGED <<child, wk, asked, notices, finished, crashes>>

\* The five seconds of a wait, the pause before a retry and the backoff of a
\* failed attempt only delay a claim.
Claim(w) ==
  /\ wk[w].pc = "idle"
  /\ \E r \in Runs :
       /\ \/ run[r].status = "queued"
          \/ run[r].status = "running" /\ \A v \in Workers : wk[v].run # r
       /\ IF run[r].cancel /\ run[r].status = "queued"
            THEN run' = [run EXCEPT ![r].status = "cancelled"] /\ UNCHANGED wk
            ELSE /\ run' = [run EXCEPT ![r].status = "running", ![r].attempts = @ + 1]
                 /\ wk' = [wk EXCEPT ![w] = [Idle EXCEPT !.pc = "claimed", !.run = r]]
  /\ UNCHANGED <<child, asked, notices, finished, crashes>>

\* The notices of a session, when it commits.
Said(r, said) ==
  [notices EXCEPT ![r] = [s \in 1..FailureBranch |-> IF s \in said THEN @[s] + 1 ELSE @[s]]]

\* The worker's commit: where its run is, and its notices.  A cancel requested
\* meanwhile stays requested.
Commits(w, status, attempts, at, said) ==
  /\ run' = [run EXCEPT ![wk[w].run] = [@ EXCEPT !.status = status, !.attempts = attempts, !.at = at]]
  /\ notices' = Said(wk[w].run, said)
  /\ wk' = [wk EXCEPT ![w] = Idle]

\* _requeue: waiting is not an attempt.
Requeues(w, at) ==
  LET made == run[wk[w].run].attempts IN
  /\ Commits(w, "queued", IF made > 0 THEN made - 1 ELSE 0, at, wk[w].said)
  /\ UNCHANGED finished

\* _finish, with its event.
Finishes(w, status, said) ==
  /\ Commits(w, status, run[wk[w].run].attempts, wk[w].at, said)
  /\ finished' = finished \cup {wk[w].run}

\* process reads the row once, and looks for a cancel there.
Begin(w) ==
  LET r == wk[w].run IN
  /\ wk[w].pc = "claimed"
  /\ IF run[r].cancel
       THEN /\ child' = Told(run[r].at.ref)
            /\ run' = [run EXCEPT ![r].status = "cancelled"]
            /\ wk' = [wk EXCEPT ![w] = Idle]
            /\ finished' = finished \cup {r}
            /\ UNCHANGED notices
       ELSE /\ wk' = [wk EXCEPT ![w].pc = "stepping", ![w].at = run[r].at]
            /\ UNCHANGED <<run, child, notices, finished>>
  /\ UNCHANGED <<asked, crashes>>

\* _fail: the failure branch, and the end.
Fails(w) == Finishes(w, "failed", wk[w].said \cup {FailureBranch})

\* A step failed: again after a pause, afresh, or the run with it.
StepFails(w, tries) ==
  IF tries <= Retries
    THEN Requeues(w, [wk[w].at EXCEPT !.ref = None, !.tries = tries])
    ELSE Fails(w)

\* A step is done: the next, in the same transaction.
StepDone(w, said) ==
  /\ wk' = [wk EXCEPT ![w].at = [Start EXCEPT !.cursor = wk[w].at.cursor + 1],
                      ![w].said = @ \cup said]
  /\ UNCHANGED <<run, notices, finished>>

Action(w) == Actions[wk[w].at.cursor]
Stepping(w) == wk[w].pc = "stepping" /\ wk[w].at.cursor <= Len(Actions)

\* Mutant of TimeIsUp: a step that waits is never late.
TimeIsNeverUp(w) == FALSE

TimeIsUp(w) == run[wk[w].run].late

TimesOut(w) ==
  /\ Stepping(w) /\ TimeIsUp(w)
  /\ Fails(w)
  /\ UNCHANGED <<child, asked, crashes>>

\* Mutant of Referring: the row is saved before what the step started is noted.
ReferringLate(at, c) == at

Referring(at, c) == [at EXCEPT !.ref = c]

\* The step starts its child, or takes the live one of the stream or the month,
\* and waits; or it cannot be started.  A retry is another attempt.
StartStep(w) ==
  LET tries == wk[w].at.tries + 1
      waits(c) == Requeues(w, Referring([wk[w].at EXCEPT !.tries = tries], c))
      kind == Action(w) IN
  /\ Stepping(w) /\ ~TimeIsUp(w) /\ kind # "notify" /\ wk[w].at.ref = None
  /\ \/ /\ LiveOf(kind) = {}
        /\ \E c \in NextChild :
             /\ child' = [child EXCEPT ![c] = [NoChild EXCEPT !.kind = kind, !.status = "queued",
                                                              !.by = wk[w].run]]
             /\ waits(c)
     \/ \E c \in LiveOf(kind) : waits(c) /\ UNCHANGED child
     \/ StepFails(w, tries) /\ UNCHANGED child
  /\ UNCHANGED <<asked, crashes>>

\* The child is looked at again.
CheckStep(w) ==
  LET c == wk[w].at.ref IN
  /\ Stepping(w) /\ ~TimeIsUp(w) /\ c # None
  /\ \/ /\ child[c].status \in Live
        /\ Requeues(w, wk[w].at)
     \/ child[c].status \in {"completed", "partially_completed"} /\ StepDone(w, {})
     \/ child[c].status \in Ended \ {"completed"} /\ StepFails(w, wk[w].at.tries)
  /\ UNCHANGED <<child, asked, crashes>>

Notify(w) ==
  /\ Stepping(w) /\ ~TimeIsUp(w) /\ Action(w) = "notify"
  /\ StepDone(w, {wk[w].at.cursor})
  /\ UNCHANGED <<child, asked, crashes>>

\* Past the last step; whether a step ended in a warning is left open.
Complete(w) ==
  /\ wk[w].pc = "stepping" /\ wk[w].at.cursor > Len(Actions)
  /\ \E s \in {"completed", "partially_completed"} : Finishes(w, s, wk[w].said)
  /\ UNCHANGED <<child, asked, crashes>>

\* Mutant of Survives: what the session had written stays.
SurvivesAll(w) == Said(wk[w].run, wk[w].said)

\* What an exception leaves of the session's notices: a rollback.
Survives(w) == notices

\* run_once's exception handler; a run out of attempts is failed by runs.finish,
\* which writes no workflow.finished.
Raise(w) ==
  LET r == wk[w].run IN
  /\ wk[w].pc # "idle"
  /\ run' = [run EXCEPT ![r].status = IF run[r].attempts < MaxAttempts THEN "queued" ELSE "failed"]
  /\ notices' = Survives(w)
  /\ wk' = [wk EXCEPT ![w] = Idle]
  /\ UNCHANGED <<child, asked, finished, crashes>>

Crash(w) ==
  /\ wk[w].pc # "idle"
  /\ crashes < CrashBound
  /\ crashes' = crashes + 1
  /\ wk' = [wk EXCEPT ![w] = Idle]
  /\ UNCHANGED <<run, child, asked, notices, finished>>

Process(w) ==
  Begin(w) \/ TimesOut(w) \/ StartStep(w) \/ CheckStep(w) \/ Notify(w) \/ Complete(w)

--------------------------------------------------------------------------------
(* People and time.                                                        *)

\* cancel of a run a worker has: a flag.
CancelRunning(r) ==
  /\ run[r].status = "running" /\ ~run[r].cancel
  /\ run' = [run EXCEPT ![r].cancel = TRUE]
  /\ UNCHANGED <<child, wk, asked, notices, finished, crashes>>

\* cancel of a run that waits: it is read,
CancelReads(r) ==
  /\ run[r].status = "queued" /\ asked.run = None
  /\ asked' = [run |-> r, ref |-> run[r].at.ref]
  /\ UNCHANGED <<run, child, wk, notices, finished, crashes>>

\* and processed there and then: what it read it was waiting for is cancelled,
\* and so is the run, whatever it has become.
CancelWrites ==
  LET r == asked.run IN
  /\ r # None
  /\ asked' = NobodyAsks
  /\ run' = [run EXCEPT ![r].status = "cancelled", ![r].cancel = TRUE]
  /\ child' = Told(asked.ref)
  /\ finished' = finished \cup {r}
  /\ UNCHANGED <<wk, notices, crashes>>

\* The workflow's time is up, or the time of the step it is at.
TimePasses(r) ==
  /\ run[r].status \in Live /\ ~run[r].late
  /\ run' = [run EXCEPT ![r].late = TRUE]
  /\ UNCHANGED <<child, wk, asked, notices, finished, crashes>>

Next ==
  \/ \E r \in Runs : Fire(r) \/ CancelRunning(r) \/ CancelReads(r) \/ TimePasses(r)
  \/ \E w \in Workers : Claim(w) \/ Process(w) \/ Raise(w) \/ Crash(w)
  \/ \E c \in Children : ChildMoves(c) \/ CancelChild(c)
                         \/ \E i \in DOMAIN Actions : StartChild(c, Actions[i])
  \/ CancelWrites

\* The worker loop runs and time passes.  No person need finish a request, and
\* no child need end.
Fairness ==
  /\ \A w \in Workers : WF_vars(Claim(w)) /\ WF_vars(Process(w))
  /\ \A r \in Runs : WF_vars(TimePasses(r))

Spec == Init /\ [][Next]_vars /\ Fairness

--------------------------------------------------------------------------------
(* Properties.                                                             *)

TypeOK ==
  /\ \A r \in Runs :
       /\ run[r].status \in Live \cup Ended \cup {"absent"}
       /\ run[r].attempts \in 0..(MaxAttempts + CrashBound)
       /\ run[r].at \in [cursor : 1..FailureBranch, ref : Children \cup {None}, tries : 0..(Retries + 1)]
  /\ \A c \in Children : child[c].kind \in {"none", "sync", "validate"}
  /\ \A w \in Workers : wk[w].run \in Runs \cup {None}
  /\ finished \subseteq Runs

\* A step that was done is not done again: whatever fails, is retried, is
\* cancelled or dies, a step of a run notifies people at most once, and so does
\* its failure branch.
EachStepTakesEffectOnce == \A r \in Runs, s \in 1..FailureBranch : notices[r][s] <= 1

\* While a run is under way, the live sync or validation it started is the one
\* its step waits for, so that a cancel or a later look can find it.
NoOrphanChild ==
  \A c \in Children, r \in Runs :
    child[c].by = r /\ child[c].status \in Live /\ run[r].status \in Live => run[r].at.ref = c

\* A run ends, whatever it waits for (workflows.py:861-871): no child need ever
\* end, workers die and steps raise.
EveryRunEnds == \A r \in Runs : run[r].status = "queued" ~> run[r].status \in Ended
================================================================================

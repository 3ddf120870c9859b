----------------------------- MODULE StudioImports -----------------------------
(***************************************************************************)
(* Integration Studio's imports and syncs: the third queue of the system,  *)
(* the workers that drain it, the records a run stores or rejects, and the *)
(* checkpoint of an incremental stream.                                    *)
(*                                                                         *)
(*   services/studio/runs.py     create, claim, finish, request_cancel     *)
(*   services/studio/worker.py   run_once                                  *)
(*   services/studio/imports.py  process, ingest_records, retry_rejected   *)
(*   services/studio/sync.py     start, process, reset_checkpoint          *)
(*   services/register_ingest.py ingest_register, which commits            *)
(*   services/ingest.py          commit_master                             *)
(*                                                                         *)
(* A step is one transaction, or the work between two of them.  Which      *)
(* records pass the checks depends on the mapping in force and is left     *)
(* open.  A lease may lapse under a slow worker as under a dead one, and a *)
(* backoff only delays, so a run is there to be claimed while it is queued *)
(* or running.  One stream, one month of one company.                      *)
(*                                                                         *)
(* A sync reads its source page by page, one request each, and the source  *)
(* may change between two of them: what changes on a page already read can *)
(* fall behind the checkpoint, and `slipped` remembers it.  Of the source  *)
(* it is assumed that a record which does not change is on some page that  *)
(* is read, and that a later change has a later mark.                      *)
(***************************************************************************)
EXTENDS Integers, FiniteSetsExt

CONSTANTS
  Workers,       \* worker threads and processes
  Kinds,         \* what people start: "import", "sync", "register" (an import of one)
  Modes,         \* modes an import asks for: "upsert", "replace"
  Employees,     \* the people the records are about (of CTC, with the date it takes effect)
  RunBound,      \* bound: studio runs ever created
  ChangeBound,   \* bound: changes in the source system
  MaxAttempts,   \* StudioRun.max_attempts
  ClaimBound     \* bound: a run claimed this often is not taken over

ImportsAssumption ==
  /\ Kinds \subseteq {"import", "sync", "register"}
  /\ Modes \subseteq {"upsert", "replace"}
  /\ {RunBound, ChangeBound, ClaimBound} \subseteq Nat
  /\ MaxAttempts \in Nat \ {0}

Runs == 1..RunBound
Versions == 1..ChangeBound
Records == Employees \X Versions
None == 0
Deleted == -1   \* of a rejection, in place of the run that retries it
Active == {"queued", "running"}
Terminal == {"completed", "partially_completed", "failed", "cancelled"}

VARIABLES
  run,        \* studio_runs, by run
  wk,         \* what each worker is doing
  asked,      \* the run a cancel request read as queued and has not ended yet
  source,     \* the source system: when each employee's record last changed
  watermark,  \* checkpoint.watermark of the stream
  stored,     \* the version of each employee's record in the master
  landed,     \* every record a committed transaction stored
  keepers,    \* the runs that stored any
  rejected,   \* studio_run_rejections
  slipped,    \* history: records written on a page a sync had read, while it read on
  announced   \* the last import.completed event of each run

vars == <<run, wk, asked, source, watermark, stored, landed, keepers, rejected, slipped,
          announced>>

\* `payload` is {} once it is cleared, and for a sync, which stages none.
Absent == [status |-> "absent", kind |-> "import", mode |-> "upsert", payload |-> {},
           attempts |-> 0, cancel |-> FALSE, retryOf |-> None]

\* `recs` is what it fetched, `sent` the watermark it fetched from, and `left` the
\* people it has read no page about yet.
Idle == [pc |-> "idle", run |-> None, recs |-> {}, sent |-> None, left |-> {}]

Init ==
  /\ run = [r \in Runs |-> Absent]
  /\ wk = [w \in Workers |-> Idle]
  /\ asked = None
  /\ source = [e \in Employees |-> None]
  /\ watermark = None
  /\ stored = [e \in Employees |-> None]
  /\ landed = {}
  /\ keepers = {}
  /\ rejected = {}
  /\ slipped = {}
  /\ announced = [r \in Runs |-> "none"]

data == <<source, watermark, stored, landed, keepers, rejected, slipped>>

--------------------------------------------------------------------------------
(* Starting a run.                                                         *)

\* The next run's row.
IsNext(r) == run[r].status = "absent" /\ \A q \in 1..(r - 1) : run[q].status # "absent"

Created(kind, mode, payload, old) ==
  [Absent EXCEPT !.status = "queued", !.kind = kind, !.mode = mode, !.payload = payload,
                 !.retryOf = old]

\* A push or a file of some of the source's records; a register is of them all.
Submit(r, kind, mode, es) ==
  /\ IsNext(r)
  /\ kind \in Kinds \ {"sync"}
  /\ kind = "register" => mode = "replace" /\ es = Employees
  /\ es # {} /\ \A e \in es : source[e] # None
  /\ run' = [run EXCEPT ![r] = Created(kind, mode, {<<e, source[e]>> : e \in es}, None)]
  /\ UNCHANGED <<wk, asked, data, announced>>

\* sync.start has looked and found no live sync of the stream.
StartLooks(r) ==
  /\ "sync" \in Kinds
  /\ IsNext(r)
  /\ ~ \E q \in Runs : run[q].kind = "sync" /\ run[q].status \in Active
  /\ run' = [run EXCEPT ![r] = [Absent EXCEPT !.status = "starting", !.kind = "sync"]]
  /\ UNCHANGED <<wk, asked, data, announced>>

StartCommits(r) ==
  /\ run[r].status = "starting"
  /\ run' = [run EXCEPT ![r] = Created("sync", "upsert", {}, None)]
  /\ UNCHANGED <<wk, asked, data, announced>>

\* Mutant of RetryMode: the retry keeps the mode of the run it retries.
RetryKeepsMode(r) == run[r].mode

\* What a retry adds, it never replaces.
RetryMode(r) == "upsert"

\* The rejections of r that can be retried.
Retriable(r) == {x \in rejected : x.run = r /\ x.retried = None }

RetryRejected(r, new) ==
  /\ IsNext(new)
  /\ run[r].kind # "register"
  /\ Retriable(r) # {}
  /\ run' = [run EXCEPT ![new] = Created("import", RetryMode(r), {x.rec : x \in Retriable(r)}, r)]
  /\ rejected' = (rejected \ Retriable(r)) \cup {[x EXCEPT !.retried = new] : x \in Retriable(r)}
  /\ UNCHANGED <<wk, asked, source, watermark, stored, landed, keepers, slipped, announced>>

--------------------------------------------------------------------------------
(* Ending a run.                                                           *)

\* Mutant of Finish: a run that fails for good is marked so without finish.
FinishSilently(r, status) ==
  /\ run' = [run EXCEPT ![r].status = status, ![r].payload = {}]
  /\ announced' = IF status = "failed" THEN announced ELSE [announced EXCEPT ![r] = status]

\* runs.finish, whatever the row holds: its state and its event commit together.
Finish(r, status) ==
  /\ run' = [run EXCEPT ![r].status = status, ![r].payload = {}]
  /\ announced' = [announced EXCEPT ![r] = status]

\* cancel_run and request_cancel of a run that is working: a flag for the worker.
CancelRunning(r) ==
  /\ run[r].status = "running" /\ ~run[r].cancel
  /\ run' = [run EXCEPT ![r].cancel = TRUE]
  /\ UNCHANGED <<wk, asked, data, announced>>

\* Of a run that waits: the status is read,
CancelReads(r) ==
  /\ run[r].status = "queued" /\ asked = None
  /\ asked' = r
  /\ UNCHANGED <<run, wk, data, announced>>

\* and the run is ended by an UPDATE without a guard, whatever it has become.
CancelWrites(r) ==
  /\ asked = r
  /\ asked' = None
  /\ run' = [run EXCEPT ![r].status = "cancelled", ![r].cancel = TRUE, ![r].payload = {}]
  /\ announced' = [announced EXCEPT ![r] = "cancelled"]
  /\ UNCHANGED <<wk, data>>

--------------------------------------------------------------------------------
(* The worker.                                                             *)

Becomes(w, s) == wk' = [wk EXCEPT ![w] = s]

Claimable(r) ==
  \/ run[r].status = "queued"
  \/ run[r].status = "running" /\ run[r].attempts < ClaimBound

Claim(w) ==
  /\ wk[w].pc = "idle"
  /\ \E r \in Runs :
       /\ Claimable(r)
       /\ IF run[r].cancel /\ run[r].status = "queued"
            THEN Finish(r, "cancelled") /\ UNCHANGED wk
            ELSE /\ run' = [run EXCEPT ![r].status = "running", ![r].attempts = @ + 1]
                 /\ Becomes(w, [Idle EXCEPT !.pc = "claimed", !.run = r])
                 /\ UNCHANGED announced
  /\ UNCHANGED <<asked, data>>

\* The worker gives up its run: it has ended.
Ends(w, status) == Finish(wk[w].run, status) /\ Becomes(w, Idle)

\* A run has its records staged; a sync begins to read its source, from the watermark
\* of its stream, or is refused.
Fetch(w) ==
  LET r == wk[w].run IN
  /\ wk[w].pc = "claimed"
  /\ \/ /\ run[r].kind = "sync"
        /\ Becomes(w, [Idle EXCEPT !.pc = "paging", !.run = r, !.sent = watermark, !.left = Employees])
        /\ UNCHANGED <<run, announced>>
     \/ /\ run[r].kind # "sync" /\ run[r].payload # {}
        /\ Becomes(w, [wk[w] EXCEPT !.pc = "fetched", !.recs = run[r].payload])
        /\ UNCHANGED <<run, announced>>
     \/ (run[r].kind = "sync" \/ run[r].payload = {}) /\ Ends(w, "failed")
  /\ UNCHANGED <<asked, data>>

\* What a page about these people brings: their records changed since the watermark, as
\* they are when it is asked for.
Page(es, since) == {<<e, source[e]>> : e \in {x \in es : source[x] > since}}

\* One request of connections.fetch.  A page may bring again what an earlier one
\* brought.  If all of them bring nothing, the checkpoint is written as it was read.
ReadPage(w) ==
  /\ wk[w].pc = "paging"
  /\ \/ \E es \in (SUBSET Employees) \ {{}} :
          LET recs == wk[w].recs \cup Page(es, wk[w].sent)
              left == wk[w].left \ es IN
          \/ /\ left # {} \/ recs # {}
             /\ Becomes(w, [wk[w] EXCEPT !.pc = IF left = {} THEN "fetched" ELSE "paging",
                                         !.recs = recs, !.left = left])
             /\ UNCHANGED <<run, announced, data>>
          \/ /\ left = {} /\ recs = {}
             /\ watermark' = wk[w].sent
             /\ Ends(w, "completed")
             /\ UNCHANGED <<source, stored, landed, keepers, rejected, slipped>>
     \/ Ends(w, "failed") /\ UNCHANGED data   \* the source refuses
  /\ UNCHANGED asked

Rejection(r, rec) == [run |-> r, rec |-> rec, retried |-> None]

\* A batch that is refused deletes the rejections of its run, those of another
\* worker's attempt among them; here they are marked.
Forgotten(r) ==
  {x \in rejected : x.run # r} \cup {[x EXCEPT !.retried = Deleted] : x \in {y \in rejected : y.run = r}}

Cancelled(w) == run[wk[w].run].cancel /\ Ends(w, "cancelled") /\ UNCHANGED data

\* Mapped, checked for a cancel, and written without committing; or ended because
\* the company has gone, or refused because its components or mapping have.
StoreRecords(w) ==
  /\ wk[w].pc = "fetched"
  /\ run[wk[w].run].kind # "register"
  /\ \/ Cancelled(w)
     \/ Ends(w, "failed") /\ UNCHANGED data
     \/ /\ rejected' = Forgotten(wk[w].run)
        /\ Ends(w, "failed")
        /\ UNCHANGED <<source, watermark, stored, landed, keepers, slipped>>
     \/ /\ ~run[wk[w].run].cancel
        /\ Becomes(w, [wk[w] EXCEPT !.pc = "stored"])
        /\ UNCHANGED <<run, data, announced>>
  /\ UNCHANGED asked

\* A register is stored whole, and ingest_register commits it at once; or a row
\* is rejected and nothing is stored; or it is refused for a missing column.
StoreRegister(w) ==
  LET r == wk[w].run IN
  /\ wk[w].pc = "fetched"
  /\ run[r].kind = "register"
  /\ \/ Cancelled(w)
     \/ /\ ~run[r].cancel
        /\ landed' = landed \cup wk[w].recs
        /\ keepers' = keepers \cup {r}
        /\ Becomes(w, [wk[w] EXCEPT !.pc = "stored"])
        /\ UNCHANGED <<run, announced, source, watermark, stored, rejected, slipped>>
     \/ /\ ~run[r].cancel
        /\ \E bad \in (SUBSET wk[w].recs) \ {{}} :
             rejected' = rejected \cup {Rejection(r, x) : x \in bad}
        /\ Ends(w, "failed")
        /\ UNCHANGED <<source, watermark, stored, landed, keepers, slipped>>
     \/ /\ ~run[r].cancel
        /\ rejected' = Forgotten(r)
        /\ Ends(w, "failed")
        /\ UNCHANGED <<source, watermark, stored, landed, keepers, slipped>>
  /\ UNCHANGED asked

\* The second look for a cancel: a rollback, of what is not committed.
CheckAgain(w) ==
  /\ wk[w].pc = "stored"
  /\ \/ Cancelled(w)
     \/ /\ ~run[wk[w].run].cancel
        /\ Becomes(w, [wk[w] EXCEPT !.pc = "checked"])
        /\ UNCHANGED <<run, data, announced>>
  /\ UNCHANGED asked

\* commit_master over the version it finds.
Kept(mode, ok) ==
  [e \in Employees |-> IF \E v \in Versions : <<e, v>> \in ok
                         THEN CHOOSE v \in Versions : <<e, v>> \in ok
                         ELSE IF mode = "replace" THEN None ELSE stored[e]]

\* Mutant of Advanced: the checkpoint moves to the newest change in the source.
AdvancedToNow(w, ok) == Max({source[e] : e \in Employees})

\* advance: the newest mark of all that was fetched, if anything was stored.
Advanced(w, ok) ==
  IF run[wk[w].run].kind = "sync" /\ ok # {}
    THEN Max({rec[2] : rec \in wk[w].recs} \cup {wk[w].sent}) ELSE watermark

Outcome(recs, ok) ==
  IF ok = {} THEN "failed" ELSE IF ok = recs THEN "completed" ELSE "partially_completed"

\* Of two records of one person that differ at most one passes, and only if the
\* other's own checks refuse it.
OneEach(recs) == \A x, y \in recs : x[1] = y[1] => x = y

\* The records that pass, the rejections, the checkpoint, the run and its event:
\* one commit.
Commit(w) ==
  LET r == wk[w].run
      recs == wk[w].recs IN
  /\ wk[w].pc = "checked"
  /\ \E ok \in SUBSET recs :
       /\ OneEach(ok)
       /\ run[r].kind = "register" => ok = recs
       /\ stored' = IF run[r].kind = "register" \/ ok = {} THEN stored ELSE Kept(run[r].mode, ok)
       /\ landed' = landed \cup ok
       /\ keepers' = IF ok = {} THEN keepers ELSE keepers \cup {r}
       /\ rejected' = rejected \cup {Rejection(r, x) : x \in recs \ ok}
       /\ watermark' = Advanced(w, ok)
       /\ Ends(w, Outcome(recs, ok))
  /\ UNCHANGED <<asked, source, slipped>>

GivesUp(r) == run[r].attempts >= MaxAttempts

\* run_once's exception handler, at whatever point the exception came.
Raise(w) ==
  LET r == wk[w].run IN
  /\ wk[w].pc # "idle"
  /\ \/ GivesUp(r) /\ Ends(w, "failed")
     \/ /\ ~GivesUp(r)
        /\ run' = [run EXCEPT ![r].status = "queued"]
        /\ Becomes(w, Idle)
        /\ UNCHANGED announced
  /\ UNCHANGED <<asked, data>>

Crash(w) ==
  /\ wk[w].pc # "idle"
  /\ Becomes(w, Idle)
  /\ UNCHANGED <<run, asked, data, announced>>

Work(w) == Fetch(w) \/ ReadPage(w) \/ StoreRecords(w) \/ StoreRegister(w) \/ CheckAgain(w) \/ Commit(w)

--------------------------------------------------------------------------------
(* The source system, and administration.                                  *)

\* Some sync has read the page this person is on, and reads on.
ReadPast(e) == \E w \in Workers : wk[w].pc = "paging" /\ e \notin wk[w].left

Change(e) ==
  LET last == Max({source[x] : x \in Employees}) IN
  /\ last < ChangeBound
  /\ source' = [source EXCEPT ![e] = last + 1]
  /\ slipped' = IF ReadPast(e) THEN slipped \cup {<<e, last + 1>>} ELSE slipped
  /\ UNCHANGED <<run, wk, asked, watermark, stored, landed, keepers, rejected, announced>>

ResetCheckpoint ==
  /\ watermark # None
  /\ watermark' = None
  /\ UNCHANGED <<run, wk, asked, source, stored, landed, keepers, rejected, slipped, announced>>

Next ==
  \/ \E r \in Runs, kind \in Kinds, mode \in Modes, es \in SUBSET Employees :
       Submit(r, kind, mode, es)
  \/ \E r \in Runs : \/ StartLooks(r) \/ StartCommits(r)
                     \/ CancelRunning(r) \/ CancelReads(r) \/ CancelWrites(r)
  \/ \E r, new \in Runs : RetryRejected(r, new)
  \/ \E w \in Workers : Claim(w) \/ Work(w) \/ Raise(w) \/ Crash(w)
  \/ \E e \in Employees : Change(e)
  \/ ResetCheckpoint

Spec == Init /\ [][Next]_vars

--------------------------------------------------------------------------------
(* Properties.                                                             *)

TypeOK ==
  /\ \A r \in Runs :
       /\ run[r].status \in Active \cup Terminal \cup {"absent", "starting"}
       /\ run[r].payload \subseteq Records
       /\ run[r].attempts \in Nat
       /\ announced[r] \in Terminal \cup {"none"}
  /\ \A w \in Workers : wk[w].recs \subseteq Records
  /\ landed \cup slipped \subseteq Records
  /\ watermark \in 0..ChangeBound

\* The checkpoint is ahead of the data (sync.py:21-25, 333-334) only by what slipped: the
\* source's record of an employee that the next incremental sync will not fetch was
\* stored by a committed run, or reported as rejected by one, or it was written on a page
\* that a sync had read while that sync still had pages to read -- whatever was cancelled,
\* failed, taken over or done twice in between.
CheckpointBehindData ==
  \A e \in Employees : source[e] # None /\ source[e] <= watermark =>
    \/ <<e, source[e]>> \in landed \cup slipped
    \/ \E x \in rejected : x.rec = <<e, source[e]>>

\* A run that ended was announced with the status it ended with
\* (runs.py:190-202), however many workers and requests ended it.
EndedRunsAreAnnounced ==
  \A r \in Runs : run[r].status \in Terminal => announced[r] = run[r].status

\* A retry of rejected records removes no one the run before it stored
\* (imports.py:716-721).
RemovesNoOneOnRetry ==
  \A e \in Employees : stored[e] # None /\ stored'[e] = None =>
    \E w \in Workers : wk[w].pc = "checked" /\ wk'[w].pc = "idle"
                       /\ run[wk[w].run].retryOf = None

RetryKeepsWhatWasStored == [][RemovesNoOneOnRetry]_vars

\* What a company's imports and syncs promise of its data, taken together.
SyncsLoseNothing ==
  []CheckpointBehindData /\ []EndedRunsAreAnnounced /\ RetryKeepsWhatWasStored

--------------------------------------------------------------------------------
(* What the code says of itself and does not do.                           *)

\* "Cancelled while running. Nothing from this run was stored."
\* (imports.py:655-656), once no worker is at it.
CancelledKeepsNothing ==
  \A r \in Runs : run[r].status = "cancelled" /\ (\A w \in Workers : wk[w].run # r)
                  => r \notin keepers
================================================================================

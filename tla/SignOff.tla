-------------------------------- MODULE SignOff --------------------------------
(***************************************************************************)
(* The sign-off of one payroll month: what it takes to submit, sign and    *)
(* reopen it, and the record each leaves.                                  *)
(*                                                                         *)
(*   services/signoff.py    submit, sign, reopen, build_snapshot           *)
(*   services/approvals.py  readiness, assert_ready, require_independent   *)
(*   routers/signoff.py     the three endpoints                            *)
(*   models/signoff.py      PeriodSignOff, SignOffEvent                    *)
(*                                                                         *)
(* A request reads the month several times before its one commit, and the  *)
(* month goes on changing meanwhile: runs are recorded, inputs uploaded,   *)
(* findings decided.  The snapshot is abstracted to what tells one from    *)
(* another and to what the signer relies on.                               *)
(***************************************************************************)
EXTENDS Integers, Sequences

CONSTANTS
  People,       \* members of the organisation
  Requests,     \* requests that may be under way at once
  Inputs,       \* digests of the month's inputs
  RunBound,     \* bound: validation runs of the month
  EventBound    \* bound: events of the sign-off

ASSUME SignOffAssumption == RunBound \in Nat /\ EventBound \in Nat

None == "none"

VARIABLES
  inputs,       \* the digest of the month's inputs now
  run,          \* the month's current run
  finding,      \* the state of the finding of a rule that blocks sign-off
  policy,       \* signoff_requires_independent_approver
  row,          \* period_signoffs
  events,       \* signoff_events, oldest first
  req           \* what each request is doing

vars == <<inputs, run, finding, policy, row, events, req>>
month == <<inputs, run, finding, policy>>

\* Open or acknowledged; waived or resolved; or waived past the waiver's end, with
\* nobody having reopened it yet.
FindingStates == {"open", "settled", "lapsed"}

\* No run: number 0.  `gaps`: material checks could not be performed; `blocks`:
\* it reports the finding of a rule that blocks sign-off.
NoRun == [number |-> 0, inputs |-> None, gaps |-> FALSE, blocks |-> FALSE]

\* A snapshot.  `id` stands for its digest: built_at makes every one different.
\* `ready` is the run in its readiness, `run` the run in its body, `open` whether
\* it lists the finding as outstanding, `approver` who approved.
NoSnapshot == [id |-> 0, ready |-> 0, run |-> 0, open |-> FALSE, approver |-> None]

NoRow == [known |-> FALSE, state |-> "draft", snapshot |-> NoSnapshot, preparer |-> None]

NoRequest == [op |-> "none", pc |-> "done", by |-> None, seen |-> NoRow,
              snapshot |-> NoSnapshot, expires |-> FALSE]

Init ==
  /\ inputs \in Inputs
  /\ run = NoRun
  /\ finding = "settled"
  /\ policy \in BOOLEAN
  /\ row = NoRow
  /\ events = <<>>
  /\ req = [q \in Requests |-> NoRequest]

--------------------------------------------------------------------------------
(* The month.                                                              *)

\* An upload, an edit or a configuration change; one that is undone gives the
\* inputs the digest they had.
ChangeInputs ==
  /\ inputs' \in Inputs \ {inputs}
  /\ UNCHANGED <<run, finding, policy, row, events, req>>

\* A run commits (record_run).  It may have read the inputs long ago, and leaves
\* the finding as the lifecycle decides.
CommitRun ==
  /\ run.number < RunBound
  /\ \E read \in Inputs, gaps, blocks \in BOOLEAN :
       run' = [number |-> run.number + 1, inputs |-> read, gaps |-> gaps, blocks |-> blocks]
  /\ finding' \in FindingStates \ {"lapsed"}
  /\ UNCHANGED <<inputs, policy, row, events, req>>

\* A person decides the finding, or its waiver lapses.
DecideFinding ==
  /\ run.number > 0
  /\ finding' \in FindingStates \ {finding}
  /\ finding' = "lapsed" => finding = "settled"
  /\ UNCHANGED <<inputs, run, policy, row, events, req>>

\* set_policy
SetPolicy ==
  /\ policy' = ~policy
  /\ UNCHANGED <<inputs, run, finding, row, events, req>>

--------------------------------------------------------------------------------
(* A request.                                                              *)

\* readiness: a run exists and its inputs are today's.
Validated == run.number > 0 /\ run.inputs = inputs

\* assert_ready: gaps in the run's coverage need a stated reason.
Ready(reason) == Validated /\ (run.gaps => reason)

\* require_independent
Independent(seen, by) == policy => seen.preparer = None \/ seen.preparer # by

\* submit goes straight to its readiness check; the sign and reopen endpoints
\* load the row and refuse a state they do not apply to.
Begin(q, op, by) ==
  /\ req[q] = NoRequest
  /\ CASE op = "submit" -> TRUE
       [] op = "sign" -> row.known /\ row.state # "signed"
       [] op = "reopen" -> row.known /\ row.state = "signed"
  /\ req' = [req EXCEPT ![q] =
       [NoRequest EXCEPT !.op = op, !.by = by, !.seen = row,
                         !.pc = IF op = "reopen" THEN "commit" ELSE "check"]]
  /\ UNCHANGED <<month, row, events>>

\* The checks of readiness and independence; a submission then reads its row.
\* A refusal is an answer with nothing written.
Check(q) ==
  LET r == req[q]
      seen == IF r.op = "submit" THEN row ELSE r.seen
  IN
  /\ r.pc = "check"
  /\ \E reason \in BOOLEAN :
       req' = [req EXCEPT ![q] =
         IF Ready(reason) /\ (r.op = "sign" => Independent(seen, r.by))
         THEN [@ EXCEPT !.pc = "snapshot", !.seen = seen,
                        !.snapshot = [NoSnapshot EXCEPT !.ready = run.number]]
         ELSE NoRequest]
  /\ UNCHANGED <<month, row, events>>

\* Mutant of TakeSnapshot: a signature reuses what was submitted.
ReuseSnapshot(q) ==
  LET signing == req[q].op = "sign" IN
  /\ req[q].pc = "snapshot"
  /\ req' = [req EXCEPT ![q].pc = IF signing THEN "blockers" ELSE "commit",
                        ![q].snapshot.run = IF signing THEN req[q].seen.snapshot.run
                                            ELSE run.number,
                        ![q].snapshot.open = finding # "settled",
                        ![q].expires = finding = "lapsed",
                        ![q].snapshot.approver = IF signing THEN req[q].by ELSE None]
  /\ UNCHANGED <<month, row, events>>

\* build_snapshot, which reopens a waiver that has lapsed, and what its caller adds.
TakeSnapshot(q) ==
  LET signing == req[q].op = "sign"
      snapshot == [req[q].snapshot EXCEPT !.run = run.number, !.open = finding # "settled",
                                          !.approver = IF signing THEN req[q].by ELSE None] IN
  /\ req[q].pc = "snapshot"
  /\ req' = [req EXCEPT ![q] = [@ EXCEPT !.pc = IF signing THEN "blockers" ELSE "commit",
                                        !.snapshot = snapshot, !.expires = finding = "lapsed"]]
  /\ UNCHANGED <<month, row, events>>

\* sign's check of the findings that block it: those of the run that is current
\* by now, among those outstanding in the snapshot.
CheckBlockers(q) ==
  /\ req[q].pc = "blockers"
  /\ req' = [req EXCEPT ![q] =
       IF run.blocks /\ req[q].snapshot.open THEN NoRequest
       ELSE [@ EXCEPT !.pc = "commit"]]
  /\ UNCHANGED <<month, row, events>>

Event(from, to, id, superseded) ==
  [from |-> from, to |-> to, id |-> id, superseded |-> superseded]

\* The UPDATE of a session that read `seen` and now holds `mine`.
Flush(now, seen, mine) ==
  [c \in DOMAIN now |-> IF mine[c] = seen[c] THEN now[c] ELSE mine[c]]

\* What the request makes of the row it read.
Mine(r, id) ==
  LET snapshot == [r.snapshot EXCEPT !.id = id] IN
  CASE r.op = "submit" -> [known |-> TRUE, state |-> "pending_approval",
                           snapshot |-> snapshot, preparer |-> r.by]
    [] r.op = "sign" -> [r.seen EXCEPT !.state = "signed", !.snapshot = snapshot]
    [] r.op = "reopen" -> [r.seen EXCEPT !.state = "reopened"]

\* Mutant of Recorded: a reopening records the event after it has let go of the
\* snapshot.
RecordedBare(r, mine) == Event(r.seen.state, mine.state, mine.snapshot.id, 0)

\* _record_event: a reopening carries the snapshot it supersedes.
Recorded(r, mine) ==
  Event(r.seen.state, mine.state, mine.snapshot.id,
        IF r.op = "reopen" THEN r.seen.snapshot.id ELSE 0)

\* The request writes and commits; a row someone else inserted meanwhile is an
\* IntegrityError.
Commit(q) ==
  LET r == req[q]
      mine == Mine(r, Len(events) + 1)
  IN
  /\ r.pc = "commit"
  /\ Len(events) < EventBound
  /\ req' = [req EXCEPT ![q] = NoRequest]
  /\ IF ~r.seen.known /\ row.known
     THEN UNCHANGED <<row, events, finding>>
     ELSE /\ row' = Flush(row, r.seen, mine)
          /\ events' = Append(events, Recorded(r, mine))
          /\ finding' = IF r.expires THEN "open" ELSE finding
  /\ UNCHANGED <<inputs, run, policy>>

\* An error, or a client that went away: nothing is written.
Abandon(q) ==
  /\ req[q] # NoRequest
  /\ req' = [req EXCEPT ![q] = NoRequest]
  /\ UNCHANGED <<month, row, events>>

--------------------------------------------------------------------------------
Month == ChangeInputs \/ CommitRun \/ DecideFinding \/ SetPolicy

Handle(q) ==
  \/ \E op \in {"submit", "sign", "reopen"}, by \in People : Begin(q, op, by)
  \/ Check(q)
  \/ TakeSnapshot(q)
  \/ CheckBlockers(q)
  \/ Commit(q)
  \/ Abandon(q)

Next == Month \/ \E q \in Requests : Handle(q)

Spec == Init /\ [][Next]_vars

--------------------------------------------------------------------------------
(* Types.                                                                  *)

SignOffStates == {"draft", "pending_approval", "signed", "reopened"}

Snapshot == [id : Nat, ready : Nat, run : Nat, open : BOOLEAN,
             approver : People \cup {None}]

Row == [known : BOOLEAN, state : SignOffStates, snapshot : Snapshot,
        preparer : People \cup {None}]

\* The tables and the requests hold what their columns and variables can hold.
TypeOK ==
  /\ inputs \in Inputs
  /\ run \in [number : Nat, inputs : Inputs \cup {None}, gaps : BOOLEAN, blocks : BOOLEAN]
  /\ finding \in FindingStates
  /\ policy \in BOOLEAN
  /\ row \in Row
  /\ events \in Seq([from : SignOffStates, to : SignOffStates, id : Nat, superseded : Nat])
  /\ req \in [Requests -> [op : {"none", "submit", "sign", "reopen"},
                           pc : {"done", "check", "snapshot", "blockers", "commit"},
                           by : People \cup {None}, seen : Row, snapshot : Snapshot,
                           expires : BOOLEAN]]

--------------------------------------------------------------------------------
(* What holds when requests do not overlap, whatever the month does.       *)

\* The trail tells the whole story: each event starts where the one before it
\* ended, the last one ends where the row is, and a reopening keeps the very
\* snapshot that the signature before it wrote (signoff.py:359-371).
TrailIsAChain ==
  /\ \A i \in 2..Len(events) : events[i].from = events[i - 1].to
  /\ events # <<>> => LET last == events[Len(events)] IN
                      row.state = last.to /\ row.snapshot.id = last.id
  /\ \A i \in 1..Len(events) : events[i].to = "reopened" =>
       /\ i > 1
       /\ events[i - 1].to = "signed"
       /\ events[i].superseded = events[i - 1].id

\* A signed month's snapshot shows the run its readiness was judged by, or one
\* recorded since, and never an older one or none (signoff.py:291-296, "the
\* signer is accepting what is true now").
SnapshotIsNoOlderThanItsReadiness ==
  row.state = "signed" => row.snapshot.run >= row.snapshot.ready /\ row.snapshot.ready > 0

--------------------------------------------------------------------------------
(* What the code says of itself and does not do.                           *)

\* "The snapshot is written once and never recomputed"; reopening "is an event,
\* not an erasure. The superseded snapshot stays" (models/signoff.py:11-15).
SignedSnapshotsStay ==
  \A i \in 1..Len(events) : events[i].to = "signed" =>
    \/ row.snapshot.id = events[i].id
    \/ \E k \in 1..Len(events) : events[k].superseded = events[i].id
================================================================================

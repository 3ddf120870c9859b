--------------------------- MODULE FindingLifecycle ----------------------------
(***************************************************************************)
(* The lifecycle of findings across payroll months: what a validation run  *)
(* does to the rows people work from, and what people do to them.          *)
(*                                                                         *)
(*   services/finding_store.py  record_run, _reconcile_states, set_state   *)
(*   services/issues.py         decide, waiver_end, expire_waivers         *)
(*   routers/findings.py        the decision, bulk and worklist endpoints  *)
(*   services/signoff.py        what a month's sign-off shows of them      *)
(*   models/findings.py         FindingState, FindingStateEvent            *)
(*                                                                         *)
(* A session reads the rows it is about to change, and later writes the    *)
(* columns it changed and commits.  With one session the reads and writes  *)
(* of different people and runs never overlap, and that is the instance    *)
(* which is checked; with several they do.                                 *)
(***************************************************************************)
EXTENDS Integers, Sequences, FiniteSetsExt

CONSTANTS
  Fingerprints,   \* identities of findings, of one entity
  Periods,        \* payroll months, as numbers
  Sessions,       \* database sessions that may be open at once
  MonthLength,    \* days in a month
  WaiverDefault,  \* WAIVER_DEFAULT_DAYS
  WaiverMax,      \* WAIVER_MAX_DAYS
  DayBound,       \* bound: the last day
  CountBound,     \* bound: occurrence_count
  EventBound      \* bound: audit events of one finding

LifecycleAssumption ==
  /\ Periods \subseteq Nat \ {0}
  /\ {MonthLength, WaiverDefault, WaiverMax, DayBound, CountBound, EventBound} \subseteq Nat
  /\ WaiverDefault <= WaiverMax

None == 0
States == {"open", "acknowledged", "waived", "resolved"}

VARIABLES
  row,        \* finding_states, by fingerprint
  events,     \* finding_state_events, by fingerprint, oldest first
  observed,   \* finding_records: <<period, fingerprint>> of every run ever
  current,    \* the findings of each period's current run, and which were waived
  today,      \* india_today()
  ses         \* what each session is doing

vars == <<row, events, observed, current, today, ses>>

\* No row yet.  `known` is whether the row exists; the periods and the end of the
\* waiver are None where the columns are null.
NoRow == [known |-> FALSE, state |-> "open", first |-> None, last |-> None, count |-> 0,
          resolved |-> None, until |-> None]

\* A session with nothing open.  `rows` is what it read, `day` when it read it.
Closed == [op |-> "closed", day |-> None, period |-> None, fps |-> {}, to |-> "open",
           until |-> None, rows |-> [f \in Fingerprints |-> NoRow]]

Init ==
  /\ row = [f \in Fingerprints |-> NoRow]
  /\ events = [f \in Fingerprints |-> <<>>]
  /\ observed = {}
  /\ current = [p \in Periods |-> [found |-> {}, waived |-> {}]]
  /\ today = 1
  /\ ses = [s \in Sessions |-> Closed]

--------------------------------------------------------------------------------
(* One row.                                                                *)

FirstDay(p) == p * MonthLength

\* FindingState.is_waived_for
IsWaivedFor(r, p) == r.state = "waived" /\ (r.until = None \/ FirstDay(p) <= r.until)

\* Mutant of Lapsed: no waiver ever lapses.
NeverLapsed(r, day) == FALSE

\* The waivers expire_waivers reopens.
Lapsed(r, day) == r.known /\ r.state = "waived" /\ r.until # None /\ r.until < day

\* set_state: a waiver has an end, any other state has none.
SetState(r, to, until) ==
  [r EXCEPT !.state = to, !.until = IF to = "waived" THEN until ELSE None]

Event(from, to) == [from |-> from, to |-> to]

\* The waiver ends a person may ask for; None asks for the default.
WaiverEnds == {None} \cup today..(today + WaiverMax)

\* Mutant of WaiverEnd: a waiver asked for without an end has none.
WaiverEndAsAsked(asked) == asked

\* waiver_end
WaiverEnd(asked) == IF asked = None THEN today + WaiverDefault ELSE asked

\* build_snapshot's query: the findings put before the signer of month p.
ShownTo(p) ==
  {f \in Fingerprints : row[f].known /\ row[f].first <= p /\ row[f].state # "resolved"}

\* The UPDATE of a session that read `seen` and now holds `mine`.
Flush(now, seen, mine) ==
  [c \in DOMAIN now |-> IF mine[c] = seen[c] THEN now[c] ELSE mine[c]]

--------------------------------------------------------------------------------
(* A validation run.                                                       *)

\* Mutant of Seen: a repeat takes the period of the run, later or earlier.
SeenInRun(r, p) ==
  [r EXCEPT !.count = IF r.last # p THEN @ + 1 ELSE @,
            !.last = p,
            !.state = IF @ = "resolved" THEN "open" ELSE @,
            !.resolved = IF r.state = "resolved" THEN None ELSE @]

\* _reconcile_states for a finding this run reports again.
Seen(r, p) ==
  [r EXCEPT !.count = IF r.last # p THEN @ + 1 ELSE @,
            !.last = Max({@, p}),
            !.state = IF @ = "resolved" THEN "open" ELSE @,
            !.resolved = IF r.state = "resolved" THEN None ELSE @]

\* Mutant of Unseen: a run of an earlier month resolves what a later one found.
UnseenInAnyRun(r, p) ==
  IF r.state \in {"resolved", "waived"} THEN r
  ELSE [r EXCEPT !.state = "resolved", !.resolved = p]

\* Mutant of Unseen: a run that does not report a waived finding resolves it.
UnseenEvenWaived(r, p) ==
  IF r.state = "resolved" \/ r.last > p THEN r
  ELSE [r EXCEPT !.state = "resolved", !.resolved = p]

\* _reconcile_states for one it does not report.
Unseen(r, p) ==
  IF r.state \in {"resolved", "waived"} \/ r.last > p THEN r
  ELSE [r EXCEPT !.state = "resolved", !.resolved = p]

\* A finding reported for the first time.
New(p) == [NoRow EXCEPT !.known = TRUE, !.first = p, !.last = p, !.count = 1]

\* The row after a run of p that reports `found`, from the row as it was read.
Reconciled(f, r, p, found, day) ==
  LET reopened == IF Lapsed(r, day) THEN SetState(r, "open", None) ELSE r
  IN CASE ~r.known /\ f \in found -> New(p)
       [] ~r.known /\ f \notin found -> r
       [] r.known /\ f \in found -> Seen(reopened, p)
       [] r.known /\ f \notin found -> Unseen(reopened, p)

\* record_run begins: it reads the rows.  Two runs of one month are kept apart by
\* the index on its current run (ValidationQueue).
StartRun(s, p, found) ==
  /\ ses[s].op = "closed"
  /\ \A t \in Sessions : ~(ses[t].op = "run" /\ ses[t].period = p)
  /\ ses' = [ses EXCEPT ![s] = [Closed EXCEPT !.op = "run", !.day = today,
                                              !.period = p, !.fps = found, !.rows = row]]
  /\ UNCHANGED <<row, events, observed, current, today>>

\* It writes everything and commits; a row someone else inserted meanwhile for
\* the same fingerprint is an IntegrityError, and nothing is written.
CommitRun(s) ==
  LET p == ses[s].period
      found == ses[s].fps
      read == ses[s].rows
      mine == [f \in Fingerprints |-> Reconciled(f, read[f], p, found, ses[s].day)]
      lapsed == {f \in Fingerprints : Lapsed(read[f], ses[s].day)}
  IN
  /\ ses[s].op = "run"
  /\ \A f \in Fingerprints : mine[f].count <= CountBound
  /\ \A f \in lapsed : Len(events[f]) < EventBound
  /\ ses' = [ses EXCEPT ![s] = Closed]
  /\ IF \E f \in found : ~read[f].known /\ row[f].known
     THEN UNCHANGED <<row, events, observed, current>>
     ELSE /\ row' = [f \in Fingerprints |-> Flush(row[f], read[f], mine[f])]
          /\ events' = [f \in Fingerprints |->
                          IF f \in lapsed THEN Append(events[f], Event("waived", "open"))
                          ELSE events[f]]
          /\ observed' = observed \cup {<<p, f>> : f \in found}
          /\ current' = [current EXCEPT ![p] =
               [found |-> found,
                waived |-> {f \in found \ lapsed : read[f].known /\ IsWaivedFor(read[f], p)}]]
  /\ UNCHANGED today

--------------------------------------------------------------------------------
(* People.                                                                 *)

\* The decision endpoint reads the finding it will change; the bulk endpoint
\* reads those it was given and leaves out the ones already in that state.
StartDecision(s, fps, to) ==
  /\ ses[s].op = "closed"
  /\ fps # {}
  /\ \A f \in fps : row[f].known
  /\ Cardinality(fps) > 1 => \A f \in fps : row[f].state # to
  /\ \E asked \in WaiverEnds :
       /\ to # "waived" => asked = None
       /\ ses' = [ses EXCEPT ![s] =
            [Closed EXCEPT !.op = "decision", !.fps = fps, !.to = to, !.rows = row,
                           !.until = IF to = "waived" THEN WaiverEnd(asked) ELSE None]]
  /\ UNCHANGED <<row, events, observed, current, today>>

\* decide and set_state, for each: the row, and the event that records it.
CommitDecision(s) ==
  LET read == ses[s].rows
      mine == [f \in Fingerprints |->
                 IF f \in ses[s].fps THEN SetState(read[f], ses[s].to, ses[s].until)
                 ELSE read[f]]
  IN
  /\ ses[s].op = "decision"
  /\ \A f \in ses[s].fps : Len(events[f]) < EventBound
  /\ row' = [f \in Fingerprints |-> Flush(row[f], read[f], mine[f])]
  /\ events' = [f \in Fingerprints |->
                  IF f \in ses[s].fps
                  THEN Append(events[f], Event(read[f].state, ses[s].to))
                  ELSE events[f]]
  /\ ses' = [ses EXCEPT ![s] = Closed]
  /\ UNCHANGED <<observed, current, today>>

\* Opening the worklist: expire_waivers reads what has lapsed.
StartExpiry(s) ==
  /\ ses[s].op = "closed"
  /\ \E f \in Fingerprints : Lapsed(row[f], today)
  /\ ses' = [ses EXCEPT ![s] =
       [Closed EXCEPT !.op = "decision", !.rows = row,
                      !.fps = {f \in Fingerprints : Lapsed(row[f], today)}]]
  /\ UNCHANGED <<row, events, observed, current, today>>

\* The request ends with nothing committed: an error, or a client that went away.
Abandon(s) ==
  /\ ses[s].op # "closed"
  /\ ses' = [ses EXCEPT ![s] = Closed]
  /\ UNCHANGED <<row, events, observed, current, today>>

NextDay ==
  /\ today < DayBound
  /\ today' = today + 1
  /\ UNCHANGED <<row, events, observed, current, ses>>

--------------------------------------------------------------------------------
Next ==
  \/ NextDay
  \/ \E s \in Sessions :
       \/ \E p \in Periods, found \in SUBSET Fingerprints : StartRun(s, p, found)
       \/ CommitRun(s)
       \/ \E fps \in SUBSET Fingerprints, to \in States : StartDecision(s, fps, to)
       \/ CommitDecision(s)
       \/ StartExpiry(s)
       \/ Abandon(s)

Spec == Init /\ [][Next]_vars

--------------------------------------------------------------------------------
(* Types.                                                                  *)

PeriodOrNone == Periods \cup {None}

RowType == [known : BOOLEAN, state : States, first : PeriodOrNone, last : PeriodOrNone,
            count : Nat, resolved : PeriodOrNone, until : Nat]

\* The tables and the sessions hold what their columns and variables can hold,
\* and a finding that was ever reported has a row.
TypeOK ==
  /\ row \in [Fingerprints -> RowType]
  /\ events \in [Fingerprints -> Seq([from : States, to : States])]
  /\ observed \subseteq Periods \X Fingerprints
  /\ current \in [Periods -> [found : SUBSET Fingerprints, waived : SUBSET Fingerprints]]
  /\ today \in Nat
  /\ ses \in [Sessions -> [op : {"closed", "run", "decision"}, day : Nat,
                           period : PeriodOrNone, fps : SUBSET Fingerprints, to : States,
                           until : Nat, rows : [Fingerprints -> RowType]]]
  /\ \A s \in Sessions : ses[s].op = "run" => ses[s].period \in Periods
  /\ \A o \in observed : row[o[2]].known

PeriodsOf(f) == {p \in Periods : <<p, f>> \in observed}

--------------------------------------------------------------------------------
(* What holds when sessions do not overlap.                                *)

\* A finding's row knows the newest month it was reported in and counts at least
\* every month it was reported in, in whatever order the months are validated and
\* validated again (models/findings.py:258-262).
NothingGoesUncounted ==
  \A f \in Fingerprints : row[f].known =>
    /\ row[f].last = Max(PeriodsOf(f))
    /\ row[f].count >= Cardinality(PeriodsOf(f))

\* A person decided this state last, and no run or lapse has changed it since.
LastDecided(f) == IF events[f] = <<>> THEN "open" ELSE events[f][Len(events[f])].to

\* Waived is what the audit trail says it is: a finding is waived exactly when
\* its last event waives it, through runs that report it again, runs that do not,
\* and waivers that lapse (finding_store.py:396-397); and "a waiver always ends"
\* (issues.py:8).
WaivedIsOnRecord ==
  \A f \in Fingerprints :
    /\ row[f].state = "waived" <=> LastDecided(f) = "waived"
    /\ row[f].state = "waived" => row[f].until # None

\* A run that resolves a finding is right to: no month up to the newest one it
\* was reported in still has it in its current run past the month that resolved
\* it, so a back-fill never takes off the worklist what a later month found
\* (finding_store.py:373-377).
ResolvesOnlyWhatStopped ==
  \A f \in Fingerprints :
    /\ row[f].state # "resolved" /\ row'[f].state = "resolved"
    /\ LastDecided(f)' # "resolved" \/ events'[f] = events[f]
    => \A p \in Periods : p >= row'[f].resolved => f \notin current'[p].found

RunsResolveOnlyWhatStopped == [][ResolvesOnlyWhatStopped]_vars

\* A lapsed waiver suppresses nothing: what a run reports as waived was waived,
\* by a waiver that had not ended on the day the run read it, and is still a
\* finding of the run (issues.py:8-11, models/findings.py:14-17).
ReportsWaivedInForce ==
  \A p \in Periods : current'[p] # current[p] =>
    /\ current'[p].waived \subseteq current'[p].found
    /\ \A f \in current'[p].waived :
         \E s \in Sessions : ses[s].op = "run" /\ ses[s].day <= row'[f].until
                             /\ row'[f].state = "waived"

WaivedInRunsIsInForce == [][ReportsWaivedInForce]_vars

--------------------------------------------------------------------------------
(* What the code says of itself and does not do.                           *)

\* A sign-off freezes "every finding that was open at the moment of signing"
\* (models/signoff.py:9-10): so those that the month's own run reports.
SignersSeeWhatTheRunFound ==
  \A p \in Periods : \A f \in current[p].found :
    row[f].state \in {"open", "acknowledged"} => f \in ShownTo(p)
================================================================================

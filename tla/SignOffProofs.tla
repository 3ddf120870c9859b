----------------------------- MODULE SignOffProofs -----------------------------
(***************************************************************************)
(* Theorems about the sign-off of a month: what is signed is no older than *)
(* what was judged ready, for any requests at once; and the trail is a     *)
(* chain where requests do not overlap.                                    *)
(***************************************************************************)
EXTENDS SignOff, TLAPS

EventRow == [from : SignOffStates, to : SignOffStates, id : Nat, superseded : Nat]

Handling ==
  [op : {"none", "submit", "sign", "reopen"}, pc : {"done", "check", "snapshot", "blockers", "commit"},
   by : People \cup {None}, seen : Row, snapshot : Snapshot, expires : BOOLEAN]

\* What the proofs use of the types.
Typed ==
  /\ run.number \in Nat
  /\ row \in Row
  /\ events \in Seq(EventRow)
  /\ req \in [Requests -> Handling]
  /\ \A q \in Requests : req[q].pc # "done" => req[q].op # "none"

\* What a request makes of the row has the type of a row.
LEMMA MineTyped ==
  ASSUME NEW r \in Handling, r.op # "none", NEW id \in Nat
  PROVE  Mine(r, id) \in Row
<1> DEFINE snapshot == [r.snapshot EXCEPT !.id = id]
<1>1. snapshot \in Snapshot
  BY DEF Handling, Snapshot
<1>2. r.seen \in Row /\ r.by \in People \cup {None} /\ r.op \in {"submit", "sign", "reopen"}
  BY DEF Handling
<1> HIDE DEF snapshot
<1>3. CASE r.op = "submit"
  <2>1. Mine(r, id) = [known |-> TRUE, state |-> "pending_approval", snapshot |-> snapshot, preparer |-> r.by]
    BY <1>3 DEF Mine, snapshot
  <2> QED
    BY <1>1, <1>2, <2>1 DEF Row, SignOffStates
<1>4. CASE r.op = "sign"
  <2>1. Mine(r, id) = [r.seen EXCEPT !.state = "signed", !.snapshot = snapshot]
    BY <1>4 DEF Mine, snapshot
  <2> QED
    BY <1>1, <1>2, <2>1 DEF Row, SignOffStates
<1>5. CASE r.op = "reopen"
  <2>1. Mine(r, id) = [r.seen EXCEPT !.state = "reopened"]
    BY <1>5 DEF Mine
  <2> QED
    BY <1>2, <2>1 DEF Row, SignOffStates
<1> QED
  BY <1>2, <1>3, <1>4, <1>5

\* What a session writes is what it changed of what it read; the rest stays.
LEMMA FlushTyped ==
  ASSUME NEW now \in Row, NEW seen \in Row, NEW mine \in Row
  PROVE  /\ Flush(now, seen, mine) \in Row
         /\ \A c \in {"known", "state", "snapshot", "preparer"} :
              Flush(now, seen, mine)[c] = IF mine[c] = seen[c] THEN now[c] ELSE mine[c]
<1>1. DOMAIN now = {"known", "state", "snapshot", "preparer"}
  BY DEF Row
<1>2. \A c \in {"known", "state", "snapshot", "preparer"} :
        Flush(now, seen, mine)[c] = IF mine[c] = seen[c] THEN now[c] ELSE mine[c]
  BY <1>1 DEF Flush
<1>3. Flush(now, seen, mine) =
        [known |-> Flush(now, seen, mine).known, state |-> Flush(now, seen, mine).state,
         snapshot |-> Flush(now, seen, mine).snapshot, preparer |-> Flush(now, seen, mine).preparer]
  BY <1>1 DEF Flush
<1>4. /\ now.known \in BOOLEAN /\ mine.known \in BOOLEAN
      /\ now.state \in SignOffStates /\ mine.state \in SignOffStates
      /\ now.snapshot \in Snapshot /\ mine.snapshot \in Snapshot
      /\ now.preparer \in People \cup {None} /\ mine.preparer \in People \cup {None}
  BY DEF Row
<1>5. /\ Flush(now, seen, mine).known \in BOOLEAN
      /\ Flush(now, seen, mine).state \in SignOffStates
      /\ Flush(now, seen, mine).snapshot \in Snapshot
      /\ Flush(now, seen, mine).preparer \in People \cup {None}
  BY <1>2, <1>4
<1> QED
  BY <1>2, <1>3, <1>5 DEF Row

\* With nothing written in between, the row becomes what the session holds.
LEMMA FlushAlone ==
  ASSUME NEW now \in Row, NEW mine \in Row
  PROVE  Flush(now, now, mine) = mine
<1>1. /\ Flush(now, now, mine) \in Row
      /\ \A c \in {"known", "state", "snapshot", "preparer"} : Flush(now, now, mine)[c] = mine[c]
  BY FlushTyped
<1> HIDE DEF Flush
<1> QED
  BY <1>1 DEF Row

\* An event is appended: those before it stay.
LEMMA Appended ==
  ASSUME NEW s \in Seq(EventRow), NEW e \in EventRow
  PROVE  /\ Append(s, e) \in Seq(EventRow)
         /\ Len(s) \in Nat /\ Len(Append(s, e)) = Len(s) + 1
         /\ Append(s, e)[Len(s) + 1] = e
         /\ \A i \in 1..Len(s) : Append(s, e)[i] = s[i]
         /\ s = <<>> <=> Len(s) = 0
  OBVIOUS

--------------------------------------------------------------------------------
(* A step of the system.                                                   *)

\* A step that leaves the row, the trail and the number of runs.
Preparing == row' = row /\ events' = events /\ run' = run

\* What each step of a request does to it.
Begun(q) ==
  /\ Preparing
  /\ req'[q].seen = row /\ req'[q].snapshot = NoSnapshot
  /\ \/ req'[q].op = "submit" /\ req'[q].pc = "check"
     \/ req'[q].op = "sign" /\ req'[q].pc = "check" /\ row.known
     \/ req'[q].op = "reopen" /\ req'[q].pc = "commit" /\ row.known /\ row.state = "signed"

Checked(q) ==
  /\ Preparing
  /\ req[q].pc = "check" /\ req'[q].pc = "snapshot" /\ req'[q].op = req[q].op
  /\ req'[q].seen = (IF req[q].op = "submit" THEN row ELSE req[q].seen)
  /\ req'[q].snapshot.ready = run.number /\ run.number > 0

Taken(q) ==
  /\ Preparing
  /\ req[q].pc = "snapshot" /\ req'[q].pc \in {"blockers", "commit"}
  /\ req'[q].op = req[q].op /\ req'[q].seen = req[q].seen
  /\ req'[q].snapshot.ready = req[q].snapshot.ready
  /\ req'[q].snapshot.run = run.number

Unblocked(q) ==
  /\ Preparing
  /\ req[q].pc = "blockers" /\ req'[q].pc = "commit"
  /\ req'[q].op = req[q].op /\ req'[q].seen = req[q].seen /\ req'[q].snapshot = req[q].snapshot

Committed(q) ==
  LET mine == Mine(req[q], Len(events) + 1) IN
  /\ req[q].pc = "commit" /\ run' = run
  /\ req'[q] = NoRequest
  /\ req[q].seen.known \/ ~row.known
  /\ row' = Flush(row, req[q].seen, mine)
  /\ events' = Append(events, Recorded(req[q], mine))

Dropped(q) == Preparing /\ req'[q] = NoRequest

\* Every step of the system is one of these, of one request, or the month's own.
Handled(q) ==
  /\ \A p \in Requests \ {q} : req'[p] = req[p]
  /\ Begun(q) \/ Checked(q) \/ Taken(q) \/ Unblocked(q) \/ Committed(q) \/ Dropped(q)

MonthMoves == row' = row /\ events' = events /\ req' = req /\ run'.number \in Nat /\ run'.number >= run.number

LEMMA NoRequestTyped == NoRequest \in Handling /\ NoRequest.op = "none" /\ NoRequest.pc = "done"
                          /\ NoRequest.seen = NoRow /\ NoRequest.snapshot = NoSnapshot
<1>1. NoSnapshot \in Snapshot
  BY DEF NoSnapshot, Snapshot
<1>2. NoRow \in Row
  BY <1>1 DEF NoRow, Row, SignOffStates
<1> QED
  BY <1>1, <1>2 DEF NoRequest, Handling

\* The types are kept, and the steps are those.
LEMMA StepTyped ==
  ASSUME Typed, Next
  PROVE  Typed' /\ (MonthMoves \/ \E q \in Requests : Handled(q))
<1>0. run.number \in Nat /\ row \in Row /\ events \in Seq(EventRow) /\ req \in [Requests -> Handling]
  BY DEF Typed
<1>1. ASSUME Month PROVE Typed' /\ MonthMoves
  <2>1. run'.number \in Nat /\ run'.number >= run.number
    BY <1>0, <1>1 DEF Month, ChangeInputs, CommitRun, DecideFinding, SetPolicy
  <2>2. row' = row /\ events' = events /\ req' = req
    BY <1>1 DEF Month, ChangeInputs, CommitRun, DecideFinding, SetPolicy
  <2> QED
    BY <2>1, <2>2 DEF Typed, MonthMoves
<1>2. ASSUME NEW q \in Requests, Handle(q) PROVE Typed' /\ Handled(q)
  <2> DEFINE r == req[q]
  <2>0. r \in Handling /\ r.seen \in Row /\ r.snapshot \in Snapshot
    BY <1>0 DEF Handling
  <2>1. ASSUME NEW new \in Handling, req' = [req EXCEPT ![q] = new], new.pc # "done" => new.op # "none"
        PROVE  /\ req' \in [Requests -> Handling] /\ req'[q] = new
               /\ \A p \in Requests \ {q} : req'[p] = req[p]
               /\ \A p \in Requests : req'[p].pc # "done" => req'[p].op # "none"
    BY <1>0, <2>1 DEF Typed
  <2>2. ASSUME NEW op \in {"submit", "sign", "reopen"}, NEW by \in People, Begin(q, op, by)
        PROVE  Typed' /\ Handled(q)
    <3> DEFINE new == [NoRequest EXCEPT !.op = op, !.by = by, !.seen = row,
                                        !.pc = IF op = "reopen" THEN "commit" ELSE "check"]
    <3>1. req' = [req EXCEPT ![q] = new] /\ Preparing
      BY <2>2 DEF Begin, month, Preparing
    <3>2. /\ new \in Handling /\ new.op = op /\ new.seen = row /\ new.snapshot = NoSnapshot
          /\ new.pc = IF op = "reopen" THEN "commit" ELSE "check"
      BY <1>0, NoRequestTyped DEF Handling
    <3>3. /\ op = "sign" => row.known
          /\ op = "reopen" => row.known /\ row.state = "signed"
      BY <2>2 DEF Begin
    <3> HIDE DEF new
    <3>4. req' \in [Requests -> Handling] /\ req'[q] = new
      BY <2>1, <3>1, <3>2
    <3> QED
      BY <1>0, <2>1, <3>1, <3>2, <3>3 DEF Typed, Handled, Begun, Preparing
  <2>3. ASSUME Preparing, req' = [req EXCEPT ![q] = NoRequest]
        PROVE  Typed' /\ Handled(q)
    BY <1>0, <2>1, <2>3, NoRequestTyped DEF Typed, Handled, Dropped, Preparing
  <2>4. ASSUME Check(q) PROVE Typed' /\ Handled(q)
    <3> DEFINE seen == IF r.op = "submit" THEN row ELSE r.seen
               snapshot == [NoSnapshot EXCEPT !.ready = run.number]
               new == [r EXCEPT !.pc = "snapshot", !.seen = seen, !.snapshot = snapshot]
    <3>1. Preparing /\ r.pc = "check" /\ r.op # "none"
      BY <2>4 DEF Check, month, Preparing, Typed
    <3>2. \/ req' = [req EXCEPT ![q] = NoRequest]
          \/ req' = [req EXCEPT ![q] = new] /\ run.number > 0
      BY <1>0, <2>4 DEF Check, Ready, Validated
    <3>3. snapshot \in Snapshot /\ snapshot.ready = run.number
      BY <1>0 DEF NoSnapshot, Snapshot
    <3>4. seen \in Row
      BY <1>0, <2>0
    <3> HIDE DEF snapshot, seen
    <3>5. new \in Handling /\ new.pc = "snapshot" /\ new.seen = seen /\ new.snapshot = snapshot
          /\ new.op = r.op
      BY <2>0, <3>3, <3>4 DEF Handling
    <3> HIDE DEF new
    <3>6. CASE req' = [req EXCEPT ![q] = new] /\ run.number > 0
      BY <1>0, <2>1, <3>1, <3>3, <3>5, <3>6 DEF Typed, Handled, Checked, Preparing, seen
    <3> QED
      BY <2>3, <3>1, <3>2, <3>6
  <2>5. ASSUME TakeSnapshot(q) PROVE Typed' /\ Handled(q)
    <3> DEFINE pc == IF r.op = "sign" THEN "blockers" ELSE "commit"
               approver == IF r.op = "sign" THEN r.by ELSE None
    <3>1. Preparing /\ r.pc = "snapshot" /\ r.op # "none"
      BY <2>5 DEF TakeSnapshot, month, Preparing, Typed
    <3>2. pc \in {"blockers", "commit"} /\ approver \in People \cup {None}
      BY <2>0 DEF Handling
    <3> DEFINE snapshot == [r.snapshot EXCEPT !.run = run.number, !.open = finding # "settled",
                                              !.approver = approver]
               expires == finding = "lapsed"
    <3>3. req' = [req EXCEPT ![q] = [r EXCEPT !.pc = pc, !.snapshot = snapshot, !.expires = expires]]
      BY <2>5 DEF TakeSnapshot
    <3> HIDE DEF pc, approver
    <3>4. snapshot \in Snapshot /\ snapshot.ready = r.snapshot.ready /\ snapshot.run = run.number
      BY <1>0, <2>0, <3>2 DEF Handling, Snapshot
    <3>5. expires \in BOOLEAN
      OBVIOUS
    <3> HIDE DEF snapshot, expires
    <3> DEFINE new == [r EXCEPT !.pc = pc, !.snapshot = snapshot, !.expires = expires]
    <3>6. new \in Handling /\ new.pc = pc /\ new.op = r.op /\ new.seen = r.seen /\ new.snapshot = snapshot
      BY <2>0, <3>2, <3>4, <3>5 DEF Handling
    <3> HIDE DEF new
    <3>7. /\ req' \in [Requests -> Handling]
          /\ \A p \in Requests \ {q} : req'[p] = req[p]
          /\ req'[q] = new
      BY <1>0, <3>3, <3>6 DEF new
    <3> QED
      BY <1>0, <3>1, <3>2, <3>4, <3>6, <3>7 DEF Typed, Handled, Taken, Preparing
  <2>6. ASSUME CheckBlockers(q) PROVE Typed' /\ Handled(q)
    <3> DEFINE new == [r EXCEPT !.pc = "commit"]
    <3>1. Preparing /\ r.pc = "blockers" /\ r.op # "none"
      BY <2>6 DEF CheckBlockers, month, Preparing, Typed
    <3>2. req' = [req EXCEPT ![q] = NoRequest] \/ req' = [req EXCEPT ![q] = new]
      BY <1>0, <2>6 DEF CheckBlockers
    <3>3. new \in Handling /\ new.pc = "commit" /\ new.seen = r.seen
          /\ new.snapshot = r.snapshot /\ new.op = r.op
      BY <2>0 DEF Handling
    <3> HIDE DEF new
    <3>4. CASE req' = [req EXCEPT ![q] = new]
      BY <1>0, <2>1, <3>1, <3>3, <3>4 DEF Typed, Handled, Unblocked, Preparing
    <3> QED
      BY <2>3, <3>1, <3>2, <3>4
  <2>7. ASSUME Commit(q) PROVE Typed' /\ Handled(q)
    <3> DEFINE mine == Mine(r, Len(events) + 1)
               event == Recorded(r, mine)
    <3>1. /\ r.pc = "commit" /\ r.op # "none" /\ run' = run
          /\ req' = [req EXCEPT ![q] = NoRequest]
      BY <2>7 DEF Commit, Typed
    <3>2. CASE ~r.seen.known /\ row.known
      BY <2>3, <2>7, <3>1, <3>2 DEF Commit, Preparing
    <3>3. CASE r.seen.known \/ ~row.known
      <4>0. r.seen.known \in BOOLEAN /\ row.known \in BOOLEAN
        BY <1>0, <2>0 DEF Row
      <4>1. row' = Flush(row, r.seen, mine) /\ events' = Append(events, event)
        BY <2>7, <3>3, <4>0 DEF Commit
      <4>2. mine \in Row
        BY <1>0, <2>0, <3>1, MineTyped
      <4>3. event \in EventRow
        BY <2>0, <4>2 DEF Recorded, Event, EventRow, Row, Snapshot
      <4>4. row' \in Row
        BY <1>0, <2>0, <4>1, <4>2, FlushTyped
      <4> HIDE DEF event, mine
      <4>5. events' \in Seq(EventRow)
        BY <1>0, <4>1, <4>3
      <4> QED
        BY <1>0, <2>1, <3>1, <3>3, <4>1, <4>4, <4>5, NoRequestTyped
        DEF Typed, Handled, Committed, event, mine
    <3> QED
      BY <2>0, <3>2, <3>3 DEF Row
  <2>8. ASSUME Abandon(q) PROVE Typed' /\ Handled(q)
    BY <2>3, <2>8 DEF Abandon, month, Preparing
  <2> QED
    BY <1>2, <2>2, <2>4, <2>5, <2>6, <2>7, <2>8 DEF Handle
<1> QED
  BY <1>1, <1>2 DEF Next

--------------------------------------------------------------------------------
(* What is signed.                                                         *)

Fresh(snapshot) == snapshot.ready > 0 /\ snapshot.run >= snapshot.ready

\* The inductive invariant: every snapshot that was taken, by a submission or a signature,
\* shows a run at least as new as the one its readiness was judged by, wherever it is now.
SnapshotInvariant ==
  /\ IF row.known THEN Fresh(row.snapshot) ELSE row.snapshot = NoSnapshot
  /\ row.state = "signed" => row.known
  /\ \A q \in Requests :
       /\ req[q].seen.known => row.known
       /\ ~req[q].seen.known => req[q].seen.snapshot = NoSnapshot /\ req[q].seen.state # "signed"
       /\ req[q].op \in {"sign", "reopen"} => req[q].seen.known
       /\ req[q].pc = "snapshot" => 0 < req[q].snapshot.ready /\ req[q].snapshot.ready <= run.number
       /\ req[q].pc \in {"blockers", "commit"} /\ req[q].op # "reopen" => Fresh(req[q].snapshot)

LEMMA SnapshotStep ==
  ASSUME Typed, SnapshotInvariant, [Next]_vars
  PROVE  SnapshotInvariant'
<1>0. /\ run.number \in Nat /\ row \in Row /\ events \in Seq(EventRow) /\ Len(events) \in Nat
      /\ \A q \in Requests : req[q] \in Handling /\ req[q].seen \in Row /\ req[q].snapshot \in Snapshot
      /\ row.known \in BOOLEAN /\ \A q \in Requests : req[q].seen.known \in BOOLEAN
  BY DEF Typed, Handling, Row
<1>1. CASE UNCHANGED vars
  BY <1>1 DEF vars, month, SnapshotInvariant, Fresh
<1>2. CASE MonthMoves
  BY <1>0, <1>2 DEF MonthMoves, SnapshotInvariant, Fresh, Handling, Snapshot
<1>3. ASSUME NEW q \in Requests, Handled(q) PROVE SnapshotInvariant'
  <2>1. \A p \in Requests \ {q} : req'[p] = req[p]
    BY <1>3 DEF Handled
  <2>2. CASE Begun(q) \/ Checked(q) \/ Taken(q) \/ Unblocked(q) \/ Dropped(q)
    BY <1>0, <2>1, <2>2, NoRequestTyped, SMTT(30)
    DEF Begun, Checked, Taken, Unblocked, Dropped, Preparing, SnapshotInvariant, Fresh, NoRow, Snapshot
  <2>3. CASE Committed(q)
    <3> DEFINE r == req[q]
               mine == Mine(r, Len(events) + 1)
    <3>1. /\ r.pc = "commit" /\ r.op \in {"submit", "sign", "reopen"} /\ run' = run
          /\ r.seen.known => row.known
          /\ row.known => r.seen.known
          /\ row' = Flush(row, r.seen, mine) /\ req'[q] = NoRequest
      BY <1>0, <2>3 DEF Committed, Typed, Handling, SnapshotInvariant
    <3>2. mine \in Row
      BY <1>0, <3>1, MineTyped
    <3>3. /\ mine.known
          /\ r.op # "reopen" => Fresh(mine.snapshot)
          /\ r.op = "reopen" => mine.snapshot = r.seen.snapshot
      <4>1. CASE r.op = "submit"
        BY <1>0, <3>1, <4>1 DEF Mine, SnapshotInvariant, Fresh, Handling, Snapshot
      <4>2. CASE r.op = "sign"
        BY <1>0, <3>1, <4>2, ZenonT(60) DEF Mine, SnapshotInvariant, Fresh, Handling, Snapshot, Row
      <4>3. CASE r.op = "reopen"
        BY <1>0, <3>1, <4>3 DEF Mine, SnapshotInvariant, Row
      <4> QED
        BY <3>1, <4>1, <4>2, <4>3
    <3> HIDE DEF mine, r
    <3>4. \A c \in {"known", "snapshot"} : row'[c] = IF mine[c] = r.seen[c] THEN row[c] ELSE mine[c]
      BY <1>0, <3>1, <3>2, FlushTyped DEF r
    \* The snapshot that stays or comes is of a row that was known, or is the request's own.
    <3>5. row'.known /\ Fresh(row'.snapshot)
      <4>1. r.seen.known \in BOOLEAN /\ row.known \in BOOLEAN /\ mine.known \in BOOLEAN
        BY <1>0, <3>2 DEF r, Row
      <4>2. row'.known
        BY <3>1, <3>3, <3>4, <4>1
      <4>3. row.known => Fresh(row.snapshot)
        BY DEF SnapshotInvariant
      <4>4. ~r.seen.known => r.seen.snapshot = NoSnapshot /\ r.op # "reopen"
        BY DEF SnapshotInvariant, r
      <4>5. ~Fresh(NoSnapshot)
        BY DEF Fresh, NoSnapshot
      <4> QED
        BY <3>1, <3>3, <3>4, <4>1, <4>2, <4>3, <4>4, <4>5
    <3> QED
      BY <1>0, <2>1, <3>1, <3>5, NoRequestTyped DEF SnapshotInvariant, NoRow
  <2> QED
    BY <1>3, <2>2, <2>3 DEF Handled
<1> QED
  BY <1>1, <1>2, <1>3, StepTyped

\* The row, the trail, the month's runs and the requests under way keep their types.
THEOREM TypeCorrect == Spec => []Typed
<1>1. Init => Typed
  <2> SUFFICES ASSUME Init PROVE Typed
    OBVIOUS
  <2>1. NoRow \in Row
    BY NoRequestTyped DEF Handling
  <2> QED
    BY <2>1, NoRequestTyped DEF Init, Typed, NoRun
<1>2. Typed /\ [Next]_vars => Typed'
  BY StepTyped DEF vars, Typed
<1> QED
  BY <1>1, <1>2, PTL DEF Spec

\* What is signed shows the run its readiness was judged by, or a newer one: for any number
\* of requests at once, whatever the month does between their reads.
THEOREM SignedIsAsNewAsJudged == Spec => [](SnapshotInvariant /\ SnapshotIsNoOlderThanItsReadiness)
<1>1. Init => SnapshotInvariant
  BY NoRequestTyped DEF Init, SnapshotInvariant, NoRow
<1>2. Typed /\ SnapshotInvariant /\ [Next]_vars => SnapshotInvariant'
  BY SnapshotStep
<1>3. SnapshotInvariant => SnapshotIsNoOlderThanItsReadiness
  BY DEF SnapshotInvariant, SnapshotIsNoOlderThanItsReadiness, Fresh
<1> QED
  BY <1>1, <1>2, <1>3, TypeCorrect, PTL DEF Spec

--------------------------------------------------------------------------------
(* The trail.                                                              *)

OneAtATime == \A p, q \in Requests : p = q

\* The inductive invariant: the one request that is under way has the row as it is.
TrailInvariant ==
  /\ TrailIsAChain
  /\ events = <<>> => row.state # "signed"
  /\ \A q \in Requests :
       /\ req[q].op # "none" /\ ~(req[q].op = "submit" /\ req[q].pc = "check") => req[q].seen = row
       /\ req[q].op = "reopen" => req[q].seen.state = "signed"
       /\ req[q].op = "none" <=> req[q].pc = "done"

LEMMA TrailStep ==
  ASSUME OneAtATime, Typed, TrailInvariant, [Next]_vars
  PROVE  TrailInvariant'
<1>0. /\ run.number \in Nat /\ row \in Row /\ events \in Seq(EventRow) /\ Len(events) \in Nat
      /\ \A q \in Requests : req[q] \in Handling /\ req[q].seen \in Row
  BY DEF Typed, Handling
<1>1. CASE UNCHANGED vars
  BY <1>1 DEF vars, month, TrailInvariant, TrailIsAChain
<1>2. CASE MonthMoves
  BY <1>2 DEF MonthMoves, TrailInvariant, TrailIsAChain
<1>3. ASSUME NEW q \in Requests, Handled(q) PROVE TrailInvariant'
  <2>1. \A p \in Requests : p = q
    BY DEF OneAtATime
  <2>2. CASE Begun(q) \/ Checked(q) \/ Taken(q) \/ Unblocked(q) \/ Dropped(q)
    <3>1. row' = row /\ events' = events
      BY <2>2 DEF Begun, Checked, Taken, Unblocked, Dropped, Preparing
    <3>2. TrailIsAChain' /\ (events' = <<>> => row'.state # "signed")
      BY <3>1 DEF TrailInvariant, TrailIsAChain
    <3>3. /\ req'[q].op # "none" /\ ~(req'[q].op = "submit" /\ req'[q].pc = "check") => req'[q].seen = row
          /\ req'[q].op = "reopen" => req'[q].seen.state = "signed"
          /\ req'[q].op = "none" <=> req'[q].pc = "done"
      BY <2>2, NoRequestTyped
      DEF Begun, Checked, Taken, Unblocked, Dropped, Preparing, TrailInvariant
    <3> QED
      BY <2>1, <3>1, <3>2, <3>3 DEF TrailInvariant
  <2>3. CASE Committed(q)
    <3> DEFINE r == req[q]
               mine == Mine(r, Len(events) + 1)
               event == Recorded(r, mine)
    <3>1. /\ r \in Handling /\ r.op \in {"submit", "sign", "reopen"} /\ r.seen = row
          /\ r.op = "reopen" => row.state = "signed"
          /\ row' = Flush(row, row, mine) /\ events' = Append(events, event)
          /\ req'[q] = NoRequest
      BY <1>0, <2>3 DEF Committed, Typed, Handling, TrailInvariant
    <3>2. mine \in Row
      BY <1>0, <3>1, MineTyped
    <3>3. event \in EventRow
      BY <1>0, <3>1, <3>2 DEF Recorded, Event, EventRow, Row, Snapshot
    <3>4. /\ event.from = row.state /\ event.to = mine.state /\ event.id = mine.snapshot.id
          /\ event.superseded = IF r.op = "reopen" THEN row.snapshot.id ELSE 0
      BY <3>1 DEF Recorded, Event
    <3>5. mine.state = "reopened" <=> r.op = "reopen"
      BY <1>0, <3>1 DEF Mine, Row
    <3> HIDE DEF mine, event, r
    <3>6. row' = mine
      BY <1>0, <3>1, <3>2, FlushAlone
    <3> DEFINE n == Len(events)
    <3>7. /\ Len(events') = n + 1 /\ n \in Nat /\ events'[n + 1] = event
          /\ \A i \in 1..n : events'[i] = events[i]
          /\ events' # <<>> /\ (events # <<>> => n > 0)
      BY <1>0, <3>1, <3>3, Appended
    <3>8. /\ \A i \in 2..n : events[i].from = events[i - 1].to
          /\ n > 0 => row.state = events[n].to /\ row.snapshot.id = events[n].id
          /\ \A i \in 1..n : events[i].to = "reopened" =>
               i > 1 /\ events[i - 1].to = "signed" /\ events[i].superseded = events[i - 1].id
          /\ n = 0 => row.state # "signed"
      BY <1>0 DEF TrailInvariant, TrailIsAChain
    <3> HIDE DEF n
    <3>9. \A i \in 2..(n + 1) : events'[i].from = events'[i - 1].to
      BY <3>4, <3>7, <3>8, SMTT(30)
    <3>10. ASSUME NEW i \in 1..(n + 1), events'[i].to = "reopened"
           PROVE  i > 1 /\ events'[i - 1].to = "signed" /\ events'[i].superseded = events'[i - 1].id
      <4>1. CASE i \in 1..n
        <5>1. i > 1 /\ events[i - 1].to = "signed" /\ events[i].superseded = events[i - 1].id
          BY <3>7, <3>8, <3>10, <4>1
        <5> QED
          BY <3>7, <4>1, <5>1
      \* A reopening found the month signed: the event before it is the signature.
      <4>2. CASE i = n + 1
        <5>1. r.op = "reopen" /\ row.state = "signed" /\ n > 0
          BY <3>1, <3>4, <3>5, <3>7, <3>8, <3>10, <4>2
        <5> QED
          BY <3>4, <3>7, <3>8, <4>2, <5>1
      <4> QED
        BY <3>7, <4>1, <4>2
    <3>11. TrailIsAChain'
      BY <3>4, <3>6, <3>7, <3>9, <3>10 DEF TrailIsAChain
    <3> QED
      BY <2>1, <3>1, <3>7, <3>11, NoRequestTyped DEF TrailInvariant
  <2> QED
    BY <1>3, <2>2, <2>3 DEF Handled
<1> QED
  BY <1>1, <1>2, <1>3, StepTyped

\* Where requests do not overlap, the trail tells the whole story, however often the month is
\* submitted, signed and reopened and whatever changes in between.
THEOREM TrailHolds == ASSUME OneAtATime PROVE Spec => [](TrailInvariant /\ TrailIsAChain)
<1>1. Init => TrailInvariant
  BY NoRequestTyped DEF Init, TrailInvariant, TrailIsAChain, NoRow
<1>2. Typed /\ TrailInvariant /\ [Next]_vars => TrailInvariant'
  BY TrailStep
<1>3. TrailInvariant => TrailIsAChain
  BY DEF TrailInvariant
<1> QED
  BY <1>1, <1>2, <1>3, TypeCorrect, PTL DEF Spec
================================================================================

-------------------------- MODULE StudioImportsProofs --------------------------
(***************************************************************************)
(* Theorems of StudioImports, for any workers, employees and bounds, and   *)
(* whichever lease lapses: the checkpoint of a stream stays behind the     *)
(* data but for what slipped between two pages of a sync, every end of a   *)
(* run is announced, and what a retry adds removes no one.                 *)
(***************************************************************************)
EXTENDS StudioImports, FiniteSetTheorems, TLAPS

(* Types.                                                                  *)

Marks == 0..ChangeBound
Row ==
  [status : Active \cup Terminal \cup {"absent", "starting"}, kind : {"import", "sync", "register"},
   mode : {"upsert", "replace"}, payload : SUBSET Records, attempts : Nat, cancel : BOOLEAN,
   retryOf : Runs \cup {None}]
Session ==
  [pc : {"idle", "claimed", "paging", "fetched", "stored", "checked"}, run : Runs \cup {None},
   recs : SUBSET Records, sent : Marks, left : SUBSET Employees]
Rejected == [run : Runs, rec : Records, retried : Runs \cup {None, Deleted}]

\* A worker that is at work is at a run that was started.
Live(r) == run[r].status \notin {"absent", "starting"}
HoldsARun == \A w \in Workers : wk[w].pc # "idle" => wk[w].run \in Runs /\ Live(wk[w].run)

Typed ==
  /\ run \in [Runs -> Row]
  /\ wk \in [Workers -> Session]
  /\ asked \in Runs \cup {None}
  /\ source \in [Employees -> Marks]
  /\ watermark \in Marks
  /\ stored \in [Employees -> Marks]
  /\ landed \subseteq Records
  /\ keepers \subseteq Runs
  /\ rejected \subseteq Rejected
  /\ slipped \subseteq Records
  /\ announced \in [Runs -> Terminal \cup {"none"}]
  /\ HoldsARun

(* What the checkpoint rests on.                                           *)

\* The source has a change at least as new as this mark.
Reached(v) == v = None \/ \E e \in Employees : v <= source[e]

\* The source's record of an employee was stored, or reported as rejected, or slipped.
Accounted(e) ==
  \/ <<e, source[e]>> \in landed \cup slipped
  \/ \E x \in rejected : x.rec = <<e, source[e]>>

\* A worker that has the records of a sync, or some of them, and has not ended it.
Syncing(w) ==
  \/ wk[w].pc = "paging"
  \/ wk[w].pc \in {"fetched", "stored", "checked"} /\ run[wk[w].run].kind = "sync"

\* A worker will yet read an employee's record, of which it has not read the page.
ToBeRead(e, w) == wk[w].pc = "paging" /\ e \in wk[w].left /\ source[e] > wk[w].sent

\* An employee's record is newer than all that a worker fetched, and it fetches no more.
ChangedSince(e, w) ==
  wk[w].pc # "paging" /\ source[e] > wk[w].sent /\ \A rec \in wk[w].recs : source[e] > rec[2]

\* Nothing is ahead of the source, in whose order the marks are.
NoneAhead ==
  /\ Reached(watermark)
  /\ \A w \in Workers : Syncing(w) =>
       Reached(wk[w].sent) /\ \A rec \in wk[w].recs : Reached(rec[2])

\* What a sync did not fetch is accounted for, or is yet to be read, or has changed since.
FetchedTheRest ==
  \A w \in Workers, e \in Employees : Syncing(w) /\ source[e] # None =>
    Accounted(e) \/ <<e, source[e]>> \in wk[w].recs \/ ToBeRead(e, w) \/ ChangedSince(e, w)

\* The inductive invariant.
CheckpointInvariant == Typed /\ NoneAhead /\ FetchedTheRest /\ CheckpointBehindData

\* A retry is an upsert.
RetriesAdd == \A r \in Runs : run[r].retryOf # None => run[r].mode = "upsert"
RetryInvariant == Typed /\ RetriesAdd

--------------------------------------------------------------------------------
(* Types.                                                                  *)

\* A finite set of integers has a greatest element.
LEMMA MaxProperties ==
  ASSUME NEW S, S \subseteq Int, IsFiniteSet(S), S # {}
  PROVE  Max(S) \in S /\ \A x \in S : x <= Max(S)
<1> DEFINE Above(x) == {y \in S : x < y}
           A == {Above(x) : x \in S}
<1>1. A # {} /\ A \subseteq FiniteSubsetsOf(S)
  <2>1. A # {}
    OBVIOUS
  <2>2. \A U \in A : U \in SUBSET S
    OBVIOUS
  <2> QED
    BY <2>1, <2>2, FS_FiniteSubsetsOfFinite
<1>2. PICK U \in A : \A V \in A : <<V, U>> \notin StrictSubsetOrdering(S)
  <2> HIDE DEF A
  <2> QED
    BY <1>1, FS_StrictSubsetOrderingWellFounded, WFMin
<1>3. PICK x \in S : U = Above(x)
  OBVIOUS
<1>4. \A y \in S : y <= x
  <2> SUFFICES ASSUME NEW y \in S, x < y PROVE FALSE
    OBVIOUS
  <2>1. Above(y) \in A
    OBVIOUS
  <2>2. y \in U /\ y \notin Above(y)
    BY <1>3
  <2>3. Above(y) \subseteq U /\ U \subseteq S
    <3>1. \A z \in S : x < y /\ y < z => x < z
      <4> x \in Int /\ y \in Int /\ \A z \in S : z \in Int
        OBVIOUS
      <4> QED
        OBVIOUS
    <3> QED
      BY <1>3, <3>1
  <2>4. <<Above(y), U>> \in StrictSubsetOrdering(S)
    <3> HIDE DEF Above
    <3> QED
      BY <2>2, <2>3 DEF StrictSubsetOrdering
  <2> QED
    BY <1>2, <2>1, <2>4
<1> QED
  BY <1>4 DEF Max

\* A set of marks has one.
LEMMA MaxOfMarks ==
  ASSUME ImportsAssumption, NEW S, S \subseteq Marks, S # {}
  PROVE  Max(S) \in Marks /\ Max(S) \in S /\ \A x \in S : x <= Max(S)
<1>1. S \subseteq Int
  BY DEF ImportsAssumption, Marks
<1>2. IsFiniteSet(S)
  <2>1. IsFiniteSet(Marks)
    BY FS_Interval DEF ImportsAssumption, Marks
  <2> QED
    BY <2>1, FS_Subset
<1> QED
  BY <1>1, <1>2, MaxProperties

\* What a run is of does not change once it is there, and it stays.
LEMMA RowsStay ==
  ASSUME Typed, [Next]_vars, NEW r \in Runs, Live(r)
  PROVE  /\ Live(r)'
         /\ run'[r].kind = run[r].kind
         /\ run'[r].mode = run[r].mode /\ run'[r].retryOf = run[r].retryOf
<1> USE DEF Live
<1> DEFINE Stays == /\ run'[r].status \notin {"absent", "starting"}
                    /\ run'[r].kind = run[r].kind
                    /\ run'[r].mode = run[r].mode /\ run'[r].retryOf = run[r].retryOf
<1>0. run \in [Runs -> Row] /\ run[r] \in Row
  BY DEF Typed
<1>1. ASSUME NEW q, NEW status, status \notin {"absent", "starting"}, Finish(q, status) PROVE Stays
  BY <1>0, <1>1 DEF Finish, Row
<1>2. CASE UNCHANGED run
  BY <1>2
<1>3. ASSUME NEW q \in Runs, NEW kind \in Kinds, NEW mode \in Modes, NEW es \in SUBSET Employees,
             Submit(q, kind, mode, es)
      PROVE  Stays
  BY <1>0, <1>3 DEF Submit, IsNext
<1>4. ASSUME NEW q \in Runs, StartLooks(q) \/ StartCommits(q) PROVE Stays
  BY <1>0, <1>4 DEF StartLooks, StartCommits, IsNext
<1>5. ASSUME NEW q \in Runs, NEW new \in Runs, RetryRejected(q, new) PROVE Stays
  BY <1>0, <1>5 DEF RetryRejected, IsNext
<1>6. ASSUME NEW q \in Runs, CancelRunning(q) \/ CancelWrites(q) PROVE Stays
  BY <1>0, <1>6 DEF CancelRunning, CancelWrites, Row
<1>7. ASSUME NEW w \in Workers, Claim(w) PROVE Stays
  <2>1. PICK q \in Runs :
          \/ Finish(q, "cancelled")
          \/ run' = [run EXCEPT ![q].status = "running", ![q].attempts = @ + 1]
    BY <1>7 DEF Claim
  <2>2. CASE Finish(q, "cancelled")
    BY <1>1, <2>2
  <2>3. CASE run' = [run EXCEPT ![q].status = "running", ![q].attempts = @ + 1]
    BY <1>0, <2>3 DEF Row
  <2> QED
    BY <2>1, <2>2, <2>3
<1>8. ASSUME NEW w \in Workers, Raise(w) PROVE Stays
  <2>1. CASE Ends(w, "failed")
    BY <1>1, <2>1 DEF Ends
  <2>2. CASE run' = [run EXCEPT ![wk[w].run].status = "queued"]
    BY <1>0, <2>2 DEF Row
  <2> QED
    BY <1>8, <2>1, <2>2 DEF Raise
<1>9. ASSUME NEW w \in Workers, NEW status \in Terminal, Ends(w, status) PROVE Stays
  BY <1>1, <1>9 DEF Ends, Terminal
<1>10. ASSUME NEW w \in Workers, Work(w) PROVE Stays
  <2>1. \/ UNCHANGED run
        \/ \E status \in Terminal : Ends(w, status)
    BY <1>10 DEF Work, Fetch, ReadPage, StoreRecords, StoreRegister, CheckAgain, Commit, Cancelled, Outcome, Terminal
  <2> QED
    BY <1>2, <1>9, <2>1
<1>11. ASSUME NEW q \in Runs, CancelReads(q) PROVE Stays
  BY <1>2, <1>11 DEF CancelReads
<1>12. ASSUME NEW w \in Workers, Crash(w) PROVE Stays
  BY <1>2, <1>12 DEF Crash
<1>13. ASSUME NEW e \in Employees, Change(e) PROVE Stays
  BY <1>2, <1>13 DEF Change
<1>14. CASE ResetCheckpoint
  BY <1>2, <1>14 DEF ResetCheckpoint
<1>15. CASE UNCHANGED vars
  BY <1>2, <1>15 DEF vars
<1> QED
  BY <1>3, <1>4, <1>5, <1>6, <1>7, <1>8, <1>10, <1>11, <1>12, <1>13, <1>14, <1>15 DEF Next

\* Whoever stays at work stays at its run, and whoever comes to it claims one.
LEMMA RunsAreHeld ==
  ASSUME Typed, [Next]_vars
  PROVE  \A w \in Workers :
           \/ wk'[w].pc = "idle"
           \/ wk[w].pc # "idle" /\ wk'[w].run = wk[w].run
           \/ wk[w].pc = "idle" /\ wk'[w].pc = "claimed" /\ wk'[w].run \in Runs /\ Live(wk[w].run)'
<1> SUFFICES ASSUME NEW w \in Workers
             PROVE  \/ wk'[w].pc = "idle"
                    \/ wk[w].pc # "idle" /\ wk'[w].run = wk[w].run
                    \/ /\ wk[w].pc = "idle" /\ wk'[w].pc = "claimed"
                       /\ wk'[w].run \in Runs /\ Live(wk[w].run)'
  OBVIOUS
<1>0. /\ wk \in [Workers -> Session] /\ wk[w] \in Session
      /\ run \in [Runs -> Row]
  BY DEF Typed
<1>1. CASE UNCHANGED wk
  BY <1>0, <1>1
<1>2. ASSUME NEW v \in Workers, Claim(v), ~ UNCHANGED wk
      PROVE  \/ wk'[w] = wk[w]
             \/ /\ wk[w].pc = "idle" /\ wk'[w].pc = "claimed"
                /\ wk'[w].run \in Runs /\ Live(wk[w].run)'
  <2>1. PICK r \in Runs : /\ run' = [run EXCEPT ![r].status = "running", ![r].attempts = @ + 1]
                          /\ wk' = [wk EXCEPT ![v] = [Idle EXCEPT !.pc = "claimed", !.run = r]]
    BY <1>2 DEF Claim, Becomes
  <2>2. run'[r].status = "running"
    BY <1>0, <2>1 DEF Row
  <2>3. wk[v].pc = "idle"
    BY <1>2 DEF Claim
  <2> QED
    BY <1>0, <2>1, <2>2, <2>3 DEF Live, Idle
<1>3. ASSUME NEW v \in Workers, Work(v) \/ Raise(v) \/ Crash(v)
      PROVE  \/ wk'[w].pc = "idle"
             \/ wk[w].pc # "idle" /\ wk'[w].run = wk[w].run
             \/ UNCHANGED wk[w]
  <2>1. \/ wk' = [wk EXCEPT ![v] = Idle]
        \/ wk[v].pc # "idle" /\ \E s : s.run = wk[v].run /\ wk' = [wk EXCEPT ![v] = s]
    <3>1. \A status : Ends(v, status) => wk' = [wk EXCEPT ![v] = Idle]
      BY DEF Ends, Becomes
    <3>2. CASE Fetch(v)
      <4>1. \A recs : [wk[v] EXCEPT !.pc = "fetched", !.recs = recs].run = wk[v].run
        BY <1>0 DEF Session
      <4>2. \A r : [Idle EXCEPT !.pc = "paging", !.run = r, !.sent = watermark, !.left = Employees].run = r
        BY DEF Idle
      <4> QED
        BY <3>1, <3>2, <4>1, <4>2 DEF Fetch, Becomes
    <3>7. CASE ReadPage(v)
      <4>1. \A pc, recs, left : [wk[v] EXCEPT !.pc = pc, !.recs = recs, !.left = left].run = wk[v].run
        BY <1>0 DEF Session
      <4>2. CASE Ends(v, "completed") \/ Ends(v, "failed")
        BY <3>1, <4>2
      <4>3. CASE ~ Ends(v, "completed") /\ ~ Ends(v, "failed")
        <5>1. PICK es \in (SUBSET Employees) \ {{}} :
                Becomes(v, [wk[v] EXCEPT !.pc = IF wk[v].left \ es = {} THEN "fetched" ELSE "paging",
                                         !.recs = wk[v].recs \cup Page(es, wk[v].sent),
                                         !.left = wk[v].left \ es])
          BY <3>7, <4>3 DEF ReadPage
        <5>2. wk[v].pc # "idle"
          BY <3>7 DEF ReadPage
        <5>3. \E s : s.run = wk[v].run /\ Becomes(v, s)
          BY <4>1, <5>1
        <5> QED
          BY <5>2, <5>3 DEF Becomes
      <4> QED
        BY <4>2, <4>3
    <3>3. CASE StoreRecords(v) \/ StoreRegister(v)
      <4>1. [wk[v] EXCEPT !.pc = "stored"].run = wk[v].run
        BY <1>0 DEF Session
      <4> QED
        BY <3>1, <3>3, <4>1 DEF StoreRecords, StoreRegister, Cancelled, Becomes
    <3>4. CASE CheckAgain(v)
      <4>1. [wk[v] EXCEPT !.pc = "checked"].run = wk[v].run
        BY <1>0 DEF Session
      <4> QED
        BY <3>1, <3>4, <4>1 DEF CheckAgain, Cancelled, Becomes
    <3>5. CASE Commit(v)
      BY <3>1, <3>5 DEF Commit
    <3>6. CASE Raise(v) \/ Crash(v)
      BY <3>1, <3>6 DEF Raise, Crash, Becomes
    <3> QED
      BY <1>3, <3>2, <3>3, <3>4, <3>5, <3>6, <3>7 DEF Work
  <2> QED
    BY <1>0, <2>1 DEF Idle
<1> QED
  BY <1>0, <1>1, <1>2, <1>3
  DEF Next, vars, Submit, StartLooks, StartCommits, CancelRunning, CancelReads, CancelWrites, RetryRejected,
      Change, ResetCheckpoint

LEMMA TypesHold ==
  ASSUME ImportsAssumption, Typed, [Next]_vars
  PROVE  Typed'
<1> USE DEF ImportsAssumption, Typed
<1>0. /\ \A r \in Runs : run[r] \in Row
      /\ \A w \in Workers : wk[w] \in Session
      /\ Absent \in Row /\ Idle \in Session
  BY DEF Absent, Idle, Row, Session, Marks, None
<1>1. HoldsARun'
  BY RunsAreHeld, RowsStay DEF HoldsARun
<1>2. ASSUME NEW q \in Runs, NEW status \in Terminal, Finish(q, status)
      PROVE  run' \in [Runs -> Row] /\ announced' \in [Runs -> Terminal \cup {"none"}]
  <2>1. [run[q] EXCEPT !.status = status, !.payload = {}] \in Row
    BY <1>0, <1>2, ZenonT(60) DEF Row
  <2>2. run' = [run EXCEPT ![q] = [run[q] EXCEPT !.status = status, !.payload = {}]]
    BY <1>0, <1>2 DEF Finish, Row
  <2> QED
    BY <1>2, <2>1, <2>2 DEF Finish
<1>3. ASSUME NEW w \in Workers, NEW status \in Terminal, Ends(w, status), wk[w].pc # "idle"
      PROVE  /\ run' \in [Runs -> Row] /\ announced' \in [Runs -> Terminal \cup {"none"}]
             /\ wk' \in [Workers -> Session]
  BY <1>0, <1>2, <1>3 DEF Ends, Becomes, HoldsARun
<1>4. ASSUME NEW kind \in {"import", "sync", "register"}, NEW mode \in {"upsert", "replace"},
             NEW payload \in SUBSET Records, NEW old \in Runs \cup {None}
      PROVE  Created(kind, mode, payload, old) \in Row
  BY <1>0 DEF Created, Row, Active
<1>5. ASSUME NEW r \in Runs, NEW kind \in Kinds, NEW mode \in Modes, NEW es \in SUBSET Employees,
             Submit(r, kind, mode, es)
      PROVE  Typed'
  <2>1. {<<e, source[e]>> : e \in es} \in SUBSET Records
    BY <1>5 DEF Submit, Records, Versions, Marks, None
  <2>2. Created(kind, mode, {<<e, source[e]>> : e \in es}, None) \in Row
    BY <1>4, <2>1
  <2> QED
    BY <1>1, <1>5, <2>2 DEF Submit, data
<1>6. ASSUME NEW r \in Runs, StartLooks(r) PROVE Typed'
  <2>1. [Absent EXCEPT !.status = "starting", !.kind = "sync"] \in Row
    BY <1>0 DEF Row
  <2> QED
    BY <1>1, <1>6, <2>1 DEF StartLooks, data
<1>7. ASSUME NEW r \in Runs, StartCommits(r) PROVE Typed'
  <2>1. Created("sync", "upsert", {}, None) \in Row
    BY <1>4
  <2> QED
    BY <1>1, <1>7, <2>1 DEF StartCommits, data
<1>8. ASSUME NEW r \in Runs, NEW new \in Runs, RetryRejected(r, new) PROVE Typed'
  <2>1. Retriable(r) \subseteq Rejected
    BY DEF Retriable
  <2>2. {x.rec : x \in Retriable(r)} \in SUBSET Records
    BY <2>1 DEF Rejected
  <2>3. Created("import", RetryMode(r), {x.rec : x \in Retriable(r)}, r) \in Row
    BY <1>4, <2>2 DEF RetryMode
  <2>4. \A x \in Retriable(r) : [x EXCEPT !.retried = new] \in Rejected
    BY <2>1 DEF Rejected
  <2>5. rejected' \subseteq Rejected
    BY <1>8, <2>4 DEF RetryRejected
  <2> QED
    BY <1>1, <1>8, <2>3, <2>5 DEF RetryRejected
<1>9. ASSUME NEW r \in Runs, CancelRunning(r) PROVE Typed'
  <2>1. [run[r] EXCEPT !.cancel = TRUE] \in Row
    BY <1>0, ZenonT(60) DEF Row
  <2> QED
    BY <1>1, <1>9, <2>1 DEF CancelRunning, data
<1>10. ASSUME NEW r \in Runs, CancelReads(r) PROVE Typed'
  BY <1>1, <1>10 DEF CancelReads, data
<1>11. ASSUME NEW r \in Runs, CancelWrites(r) PROVE Typed'
  <2>1. run' \in [Runs -> Row]
    <3>1. [run[r] EXCEPT !.status = "cancelled", !.cancel = TRUE, !.payload = {}] \in Row
      BY <1>0, ZenonT(60) DEF Row, Terminal
    <3>2. run' = [run EXCEPT ![r] = [run[r] EXCEPT !.status = "cancelled", !.cancel = TRUE, !.payload = {}]]
      BY <1>0, <1>11 DEF CancelWrites, Row
    <3> QED
      BY <3>1, <3>2
  <2> QED
    BY <1>1, <1>11, <2>1 DEF CancelWrites, data, Terminal
<1>12. ASSUME NEW w \in Workers, Claim(w) PROVE Typed'
  <2>1. PICK r \in Runs :
          \/ Finish(r, "cancelled") /\ UNCHANGED wk
          \/ /\ run' = [run EXCEPT ![r].status = "running", ![r].attempts = @ + 1]
             /\ Becomes(w, [Idle EXCEPT !.pc = "claimed", !.run = r])
             /\ UNCHANGED announced
    BY <1>12 DEF Claim
  <2>2. UNCHANGED <<asked, data>>
    BY <1>12 DEF Claim
  <2>3. CASE Finish(r, "cancelled") /\ UNCHANGED wk
    BY <1>1, <1>2, <2>2, <2>3 DEF data, Terminal
  <2>4. CASE /\ run' = [run EXCEPT ![r].status = "running", ![r].attempts = @ + 1]
             /\ Becomes(w, [Idle EXCEPT !.pc = "claimed", !.run = r])
             /\ UNCHANGED announced
    <3>1. run' \in [Runs -> Row]
      BY <1>0, <2>4 DEF Row, Active
    <3>2. [Idle EXCEPT !.pc = "claimed", !.run = r] \in Session
      BY <1>0 DEF Session
    <3> QED
      BY <1>1, <2>2, <2>4, <3>1, <3>2 DEF Becomes, data
  <2> QED
    BY <2>1, <2>3, <2>4
<1>13. ASSUME NEW w \in Workers, Fetch(w) PROVE Typed'
  <2>1. wk[w].run \in Runs /\ wk[w].pc # "idle"
    BY <1>13 DEF Fetch, HoldsARun
  <2>2. \A recs \in SUBSET Records : [wk[w] EXCEPT !.pc = "fetched", !.recs = recs] \in Session
    BY <1>0 DEF Session
  <2>3. [Idle EXCEPT !.pc = "paging", !.run = wk[w].run, !.sent = watermark, !.left = Employees] \in Session
    BY <1>0, <2>1 DEF Session, Idle
  <2>4. run[wk[w].run].payload \in SUBSET Records
    BY <1>0, <2>1 DEF Row
  <2>5. \/ Ends(w, "failed")
        \/ /\ \E s \in Session : Becomes(w, s)
           /\ UNCHANGED <<run, announced>>
    BY <1>13, <2>2, <2>3, <2>4 DEF Fetch
  <2>6. UNCHANGED <<asked, data>>
    BY <1>13 DEF Fetch
  <2> QED
    BY <1>1, <1>3, <2>1, <2>5, <2>6 DEF Becomes, data, Terminal
<1>23. ASSUME NEW w \in Workers, ReadPage(w) PROVE Typed'
  <2>1. wk[w].pc # "idle"
    BY <1>23 DEF ReadPage
  <2>2. \A es \in SUBSET Employees : Page(es, wk[w].sent) \subseteq Records
    <3>1. \A e \in Employees : source[e] > wk[w].sent => <<e, source[e]>> \in Records
      BY <1>0 DEF Session, Records, Versions, Marks
    <3> QED
      BY <3>1 DEF Page
  <2>3. \A pc \in {"fetched", "paging"}, recs \in SUBSET Records, left \in SUBSET Employees :
          [wk[w] EXCEPT !.pc = pc, !.recs = recs, !.left = left] \in Session
    BY <1>0 DEF Session
  <2>4. wk[w].recs \in SUBSET Records /\ wk[w].left \in SUBSET Employees /\ wk[w].sent \in Marks
    BY <1>0 DEF Session
  <2>5. \/ \E status \in Terminal : Ends(w, status)
        \/ /\ \E s \in Session : Becomes(w, s)
           /\ UNCHANGED <<run, announced>>
    <3>1. ASSUME NEW es \in SUBSET Employees, NEW pc \in {"fetched", "paging"},
                 Becomes(w, [wk[w] EXCEPT !.pc = pc, !.recs = wk[w].recs \cup Page(es, wk[w].sent),
                                          !.left = wk[w].left \ es])
          PROVE  \E s \in Session : Becomes(w, s)
      <4>1. wk[w].recs \cup Page(es, wk[w].sent) \in SUBSET Records /\ wk[w].left \ es \in SUBSET Employees
        BY <2>2, <2>4
      <4> QED
        BY <2>3, <3>1, <4>1
    <3> QED
      BY <1>23, <3>1 DEF ReadPage, Terminal
  <2>6. /\ UNCHANGED <<asked, source, stored, landed, keepers, rejected, slipped>>
        /\ watermark' \in {watermark, wk[w].sent}
    BY <1>23 DEF ReadPage, data
  <2> QED
    BY <1>1, <1>3, <2>1, <2>4, <2>5, <2>6 DEF Becomes
<1>14. ASSUME NEW w \in Workers, StoreRecords(w) PROVE Typed'
  <2>1. wk[w].run \in Runs /\ wk[w].pc # "idle"
    BY <1>14 DEF StoreRecords, HoldsARun
  <2>2. [wk[w] EXCEPT !.pc = "stored"] \in Session
    BY <1>0 DEF Session
  <2>3. Forgotten(wk[w].run) \subseteq Rejected
    BY DEF Forgotten, Rejected
  <2>4. \/ \E status \in Terminal : Ends(w, status)
        \/ Becomes(w, [wk[w] EXCEPT !.pc = "stored"]) /\ UNCHANGED <<run, announced>>
    BY <1>14 DEF StoreRecords, Cancelled, Terminal
  <2>5. /\ UNCHANGED <<asked, source, watermark, stored, landed, keepers, slipped>>
        /\ rejected' \in {rejected, Forgotten(wk[w].run)}
    BY <1>14 DEF StoreRecords, Cancelled, data
  <2> QED
    BY <1>1, <1>3, <2>1, <2>2, <2>3, <2>4, <2>5 DEF Becomes
<1>15. ASSUME NEW w \in Workers, StoreRegister(w) PROVE Typed'
  <2>1. wk[w].run \in Runs /\ wk[w].pc # "idle"
    BY <1>15 DEF StoreRegister, HoldsARun
  <2>2. [wk[w] EXCEPT !.pc = "stored"] \in Session
    BY <1>0 DEF Session
  <2>3. Forgotten(wk[w].run) \subseteq Rejected
    BY DEF Forgotten, Rejected
  <2>4. wk[w].recs \subseteq Records
    BY <1>0 DEF Session
  <2>5. \A bad \in SUBSET wk[w].recs : {Rejection(wk[w].run, x) : x \in bad} \subseteq Rejected
    BY <2>1, <2>4 DEF Rejection, Rejected
  <2>6. \/ \E status \in Terminal : Ends(w, status)
        \/ Becomes(w, [wk[w] EXCEPT !.pc = "stored"]) /\ UNCHANGED <<run, announced>>
    BY <1>15 DEF StoreRegister, Cancelled, Terminal
  <2>7. UNCHANGED <<asked, source, watermark, stored, slipped>>
    BY <1>15 DEF StoreRegister, Cancelled, data
  <2>8. landed' \subseteq Records /\ keepers' \subseteq Runs
    BY <1>15, <2>1, <2>4 DEF StoreRegister, Cancelled, data
  <2>9. rejected' \subseteq Rejected
    BY <1>15, <2>3, <2>5 DEF StoreRegister, Cancelled, data
  <2> QED
    BY <1>1, <1>3, <2>1, <2>2, <2>6, <2>7, <2>8, <2>9 DEF Becomes
<1>16. ASSUME NEW w \in Workers, CheckAgain(w) PROVE Typed'
  <2>1. wk[w].pc # "idle"
    BY <1>16 DEF CheckAgain
  <2>2. [wk[w] EXCEPT !.pc = "checked"] \in Session
    BY <1>0 DEF Session
  <2>3. \/ \E status \in Terminal : Ends(w, status)
        \/ Becomes(w, [wk[w] EXCEPT !.pc = "checked"]) /\ UNCHANGED <<run, announced>>
    BY <1>16 DEF CheckAgain, Cancelled, Terminal
  <2>4. UNCHANGED <<asked, data>>
    BY <1>16 DEF CheckAgain, Cancelled
  <2> QED
    BY <1>1, <1>3, <2>1, <2>2, <2>3, <2>4 DEF Becomes, data
<1>17. ASSUME NEW w \in Workers, Commit(w) PROVE Typed'
  <2>1. wk[w].run \in Runs /\ wk[w].pc # "idle"
    BY <1>17 DEF Commit, HoldsARun
  <2>2. wk[w].recs \subseteq Records /\ wk[w].sent \in Marks
    BY <1>0 DEF Session
  <2>3. PICK ok \in SUBSET wk[w].recs :
          /\ stored' = IF run[wk[w].run].kind = "register" \/ ok = {} THEN stored
                         ELSE Kept(run[wk[w].run].mode, ok)
          /\ landed' = landed \cup ok
          /\ keepers' = IF ok = {} THEN keepers ELSE keepers \cup {wk[w].run}
          /\ rejected' = rejected \cup {Rejection(wk[w].run, x) : x \in wk[w].recs \ ok}
          /\ watermark' = Advanced(w, ok)
          /\ Ends(w, Outcome(wk[w].recs, ok))
    BY <1>17 DEF Commit
  <2>4. Outcome(wk[w].recs, ok) \in Terminal
    BY DEF Outcome, Terminal
  <2>5. rejected' \subseteq Rejected
    BY <2>1, <2>2, <2>3 DEF Rejection, Rejected
  <2>6. stored' \in [Employees -> Marks]
    <3>1. \A e \in Employees : (\E v \in Versions : <<e, v>> \in ok)
                               => (CHOOSE v \in Versions : <<e, v>> \in ok) \in Marks
      BY DEF Versions, Marks
    <3>2. \A e \in Employees : stored[e] \in Marks
      OBVIOUS
    <3>3. None \in Marks
      BY DEF None, Marks
    <3>4. Kept(run[wk[w].run].mode, ok) \in [Employees -> Marks]
      BY <3>1, <3>2, <3>3 DEF Kept
    <3> QED
      BY <2>3, <3>4
  <2>7. watermark' \in Marks
    <3>1. {rec[2] : rec \in wk[w].recs} \cup {wk[w].sent} \subseteq Marks
      BY <2>2 DEF Records, Versions, Marks
    <3>2. Max({rec[2] : rec \in wk[w].recs} \cup {wk[w].sent}) \in Marks
      BY <3>1, MaxOfMarks
    <3> QED
      BY <2>3, <3>2 DEF Advanced
  <2>8. UNCHANGED <<asked, source, slipped>>
    BY <1>17 DEF Commit
  <2>9. landed' \subseteq Records /\ keepers' \subseteq Runs
    BY <2>1, <2>2, <2>3
  <2> QED
    BY <1>1, <1>3, <2>1, <2>3, <2>4, <2>5, <2>6, <2>7, <2>8, <2>9
<1>18. ASSUME NEW w \in Workers, Raise(w) PROVE Typed'
  <2>1. wk[w].run \in Runs /\ wk[w].pc # "idle"
    BY <1>18 DEF Raise, HoldsARun
  <2>2. [run[wk[w].run] EXCEPT !.status = "queued"] \in Row
    BY <1>0, <2>1 DEF Row, Active
  <2>3. UNCHANGED <<asked, data>>
    BY <1>18 DEF Raise
  <2> QED
    BY <1>0, <1>1, <1>3, <1>18, <2>1, <2>2, <2>3 DEF Raise, Becomes, data, Terminal
<1>19. ASSUME NEW w \in Workers, Crash(w) PROVE Typed'
  BY <1>0, <1>1, <1>19 DEF Crash, Becomes, data
<1>20. ASSUME NEW e \in Employees, Change(e) PROVE Typed'
  <2> DEFINE last == Max({source[x] : x \in Employees})
  <2>1. last \in Marks
    BY MaxOfMarks
  <2>2. last + 1 \in Marks
    BY <1>20, <2>1 DEF Change, Marks
  <2>3. slipped' \subseteq Records
    <3>1. last + 1 \in Versions
      BY <2>1, <2>2 DEF Marks, Versions
    <3> QED
      BY <1>20, <3>1 DEF Change, Records
  <2> QED
    BY <1>1, <1>20, <2>2, <2>3 DEF Change
<1>21. CASE ResetCheckpoint
  BY <1>1, <1>21 DEF ResetCheckpoint, Marks, None
<1>22. CASE UNCHANGED vars
  BY <1>22 DEF vars, HoldsARun, Live
<1> QED
  BY <1>5, <1>6, <1>7, <1>8, <1>9, <1>10, <1>11, <1>12, <1>13, <1>14, <1>15, <1>16, <1>17, <1>18, <1>19, <1>20,
     <1>21, <1>22, <1>23
  DEF Next, Work

--------------------------------------------------------------------------------
(* The checkpoint.                                                         *)

\* What was stored or reported stays so; a rejection that is forgotten is marked.
LEMMA AnswersStay ==
  ASSUME Typed, [Next]_vars
  PROVE  /\ landed \subseteq landed' /\ slipped \subseteq slipped'
         /\ \A x \in rejected : \E y \in rejected' : y.rec = x.rec
<1> DEFINE StillKnown == \A x \in rejected : \E y \in rejected' : y.rec = x.rec
<1>1. ASSUME NEW r, rejected' = Forgotten(r) PROVE StillKnown
  <2> SUFFICES ASSUME NEW x \in rejected PROVE \E y \in rejected' : y.rec = x.rec
    OBVIOUS
  <2>1. [x EXCEPT !.retried = Deleted].rec = x.rec
    BY DEF Typed, Rejected
  <2> QED
    BY <1>1, <2>1 DEF Forgotten
<1>2. ASSUME NEW r \in Runs, NEW new \in Runs, RetryRejected(r, new) PROVE StillKnown
  <2> SUFFICES ASSUME NEW x \in rejected PROVE \E y \in rejected' : y.rec = x.rec
    OBVIOUS
  <2>1. [x EXCEPT !.retried = new].rec = x.rec
    BY DEF Typed, Rejected
  <2>2. CASE x \in Retriable(r)
    BY <1>2, <2>1, <2>2 DEF RetryRejected
  <2>3. CASE x \notin Retriable(r)
    BY <1>2, <2>3 DEF RetryRejected
  <2> QED
    BY <2>2, <2>3
<1>3. ASSUME NEW w \in Workers, Work(w) PROVE landed \subseteq landed' /\ StillKnown
  <2>1. CASE Fetch(w) \/ CheckAgain(w)
    BY <2>1 DEF Fetch, CheckAgain, Cancelled, data
  <2>5. CASE ReadPage(w)
    <3>1. UNCHANGED <<landed, rejected>>
      BY <2>5 DEF ReadPage, data
    <3> QED
      BY <3>1
  <2>2. CASE StoreRecords(w)
    <3>1. UNCHANGED landed /\ (UNCHANGED rejected \/ rejected' = Forgotten(wk[w].run))
      BY <2>2 DEF StoreRecords, Cancelled, data
    <3> QED
      BY <1>1, <3>1
  <2>3. CASE StoreRegister(w)
    <3>1. landed \subseteq landed' /\ (rejected \subseteq rejected' \/ rejected' = Forgotten(wk[w].run))
      BY <2>3 DEF StoreRegister, Cancelled, data
    <3> QED
      BY <1>1, <3>1
  <2>4. CASE Commit(w)
    <3>1. landed \subseteq landed' /\ rejected \subseteq rejected'
      BY <2>4 DEF Commit
    <3> QED
      BY <3>1
  <2> QED
    BY <1>3, <2>1, <2>2, <2>3, <2>4, <2>5 DEF Work
<1>4. ASSUME UNCHANGED <<landed, rejected>> PROVE landed \subseteq landed' /\ StillKnown
  BY <1>4
<1>5. ASSUME NEW r \in Runs, NEW new \in Runs, RetryRejected(r, new) PROVE UNCHANGED landed
  BY <1>5 DEF RetryRejected
<1>6. slipped \subseteq slipped'
  <2>1. ASSUME NEW e \in Employees, Change(e) PROVE slipped \subseteq slipped'
    BY <2>1 DEF Change
  <2>2. ASSUME NEW w \in Workers, Work(w) PROVE UNCHANGED slipped
    BY <2>2 DEF Work, Fetch, ReadPage, StoreRecords, StoreRegister, CheckAgain, Commit, Cancelled, data
  <2> QED
    BY <2>1, <2>2
    DEF Next, vars, data, Submit, StartLooks, StartCommits, CancelRunning, CancelReads, CancelWrites, RetryRejected,
        Claim, Raise, Crash, ResetCheckpoint
<1> QED
  BY <1>2, <1>3, <1>4, <1>5, <1>6
  DEF Next, vars, data, Submit, StartLooks, StartCommits, CancelRunning, CancelReads, CancelWrites, Claim,
      Raise, Crash, Change, ResetCheckpoint

\* A worker that has a sync's records has had them, or begins to read, or reads a page.
LEMMA RecordsAreFetched ==
  ASSUME Typed, [Next]_vars, NEW w \in Workers, Syncing(w)'
  PROVE  \/ /\ Syncing(w) /\ wk'[w].recs = wk[w].recs /\ wk'[w].sent = wk[w].sent
            /\ wk'[w].left = wk[w].left /\ (wk'[w].pc = "paging" <=> wk[w].pc = "paging")
         \/ /\ UNCHANGED <<source, watermark>>
            /\ wk'[w].pc = "paging" /\ wk'[w].left = Employees
            /\ wk'[w].recs = {} /\ wk'[w].sent = watermark
         \/ /\ Syncing(w) /\ wk[w].pc = "paging" /\ UNCHANGED <<source, watermark>>
            /\ \E es \in SUBSET Employees :
                 /\ wk'[w].recs = wk[w].recs \cup Page(es, wk[w].sent)
                 /\ wk'[w].left = wk[w].left \ es
            /\ wk'[w].sent = wk[w].sent
            /\ wk'[w].pc = IF wk'[w].left = {} THEN "fetched" ELSE "paging"
<1>0. /\ wk \in [Workers -> Session] /\ wk[w] \in Session
      /\ wk[w].pc # "idle" => wk[w].run \in Runs /\ Live(wk[w].run)
  BY DEF Typed, HoldsARun
<1>1. /\ wk'[w].pc \in {"paging", "fetched", "stored", "checked"}
      /\ wk'[w].pc # "paging" => run'[wk'[w].run].kind = "sync"
  BY DEF Syncing
<1>2. /\ wk[w].pc # "idle" /\ wk'[w].run = wk[w].run
      /\ wk'[w].pc # "paging" => run[wk[w].run].kind = "sync"
  BY <1>0, <1>1, RunsAreHeld, RowsStay
<1>3. \/ wk'[w] = wk[w]
      \/ Fetch(w) /\ UNCHANGED <<source, watermark>>
      \/ ReadPage(w) /\ ~ Ends(w, "completed") /\ ~ Ends(w, "failed")
      \/ /\ wk[w].pc \in {"fetched", "stored"}
         /\ wk'[w] \in {[wk[w] EXCEPT !.pc = "stored"], [wk[w] EXCEPT !.pc = "checked"]}
  <2>1. CASE UNCHANGED wk
    BY <2>1
  <2>2. ASSUME NEW v \in Workers, Claim(v) \/ Raise(v) \/ Crash(v) \/ Commit(v) PROVE wk'[w] = wk[w]
    <3>1. CASE Claim(v)
      <4>1. PICK r \in Runs : \/ UNCHANGED wk
                             \/ wk' = [wk EXCEPT ![v] = [Idle EXCEPT !.pc = "claimed", !.run = r]]
        BY <3>1 DEF Claim, Becomes
      <4> QED
        BY <1>0, <1>1, <4>1 DEF Idle
    <3>2. CASE Raise(v) \/ Crash(v) \/ Commit(v)
      <4>1. Becomes(v, Idle)
        BY <3>2 DEF Raise, Crash, Commit, Ends
      <4> QED
        BY <1>0, <1>1, <4>1 DEF Becomes, Idle
    <3> QED
      BY <2>2, <3>1, <3>2
  <2>3. ASSUME NEW v \in Workers, Fetch(v) \/ ReadPage(v) \/ StoreRecords(v) \/ StoreRegister(v) \/ CheckAgain(v)
        PROVE  \/ wk'[w] = wk[w]
               \/ Fetch(w) /\ UNCHANGED <<source, watermark>>
               \/ ReadPage(w) /\ ~ Ends(w, "completed") /\ ~ Ends(w, "failed")
               \/ /\ wk[w].pc \in {"fetched", "stored"}
                  /\ wk'[w] \in {[wk[w] EXCEPT !.pc = "stored"], [wk[w] EXCEPT !.pc = "checked"]}
    <3>1. \A u \in Workers : \A s : u # w /\ Becomes(u, s) => wk'[w] = wk[w]
      BY <1>0 DEF Becomes
    <3>2. CASE v # w
      <4>1. \E s : Becomes(v, s)
        <5>1. CASE ReadPage(v)
          BY <5>1 DEF ReadPage, Ends
        <5>2. CASE Fetch(v) \/ CheckAgain(v)
          BY <5>2 DEF Fetch, CheckAgain, Cancelled, Ends
        <5>3. CASE StoreRecords(v) \/ StoreRegister(v)
          BY <5>3 DEF StoreRecords, StoreRegister, Cancelled, Ends
        <5> QED
          BY <2>3, <5>1, <5>2, <5>3
      <4> QED
        BY <3>1, <3>2, <4>1
    <3>3. ~ Becomes(w, Idle)
      BY <1>0, <1>1 DEF Becomes, Idle
    <3>4. \A s : Becomes(w, s) => wk'[w] = s
      BY <1>0 DEF Becomes
    <3>6. ~ Ends(w, "completed") /\ ~ Ends(w, "failed") /\ ~ Cancelled(w)
      BY <3>3 DEF Ends, Cancelled
    <3>5. CASE v = w
      <4>1. CASE Fetch(w)
        BY <3>6, <4>1 DEF Fetch, data
      <4>2. CASE ReadPage(w)
        BY <3>6, <4>2
      <4>3. CASE StoreRecords(w) \/ StoreRegister(w)
        BY <3>4, <3>6, <4>3 DEF StoreRecords, StoreRegister
      <4>4. CASE CheckAgain(w)
        BY <3>4, <3>6, <4>4 DEF CheckAgain
      <4> QED
        BY <2>3, <3>5, <4>1, <4>2, <4>3, <4>4
    <3> QED
      BY <3>2, <3>5
  <2> QED
    BY <2>1, <2>2, <2>3
    DEF Next, vars, Work, Submit, StartLooks, StartCommits, CancelRunning, CancelReads, CancelWrites,
        RetryRejected, Change, ResetCheckpoint
<1>4. CASE Fetch(w)
  <2>1. ~ Becomes(w, Idle)
    BY <1>0, <1>1 DEF Becomes, Idle
  <2>4. \A s : Becomes(w, s) => wk'[w] = s
    BY <1>0 DEF Becomes
  <2>5. \A recs : [wk[w] EXCEPT !.pc = "fetched", !.recs = recs].pc = "fetched"
    BY <1>0 DEF Session
  <2>6. ~ Becomes(w, [wk[w] EXCEPT !.pc = "fetched", !.recs = run[wk[w].run].payload])
        \/ run[wk[w].run].kind = "sync"
    BY <1>2, <2>4, <2>5
  <2>7. Becomes(w, [Idle EXCEPT !.pc = "paging", !.run = wk[w].run, !.sent = watermark, !.left = Employees])
    BY <1>4, <2>1, <2>6 DEF Fetch, Ends
  <2>2. wk'[w] = [Idle EXCEPT !.pc = "paging", !.run = wk[w].run, !.sent = watermark, !.left = Employees]
    BY <2>4, <2>7
  <2>3. UNCHANGED <<source, watermark>>
    BY <1>4 DEF Fetch, data
  <2> QED
    BY <2>2, <2>3 DEF Idle
<1>5. CASE ReadPage(w) /\ ~ Ends(w, "completed") /\ ~ Ends(w, "failed")
  <2>1. PICK es \in SUBSET Employees :
          /\ Becomes(w, [wk[w] EXCEPT !.pc = IF wk[w].left \ es = {} THEN "fetched" ELSE "paging",
                                      !.recs = wk[w].recs \cup Page(es, wk[w].sent), !.left = wk[w].left \ es])
          /\ UNCHANGED data
    BY <1>5 DEF ReadPage
  <2>2. UNCHANGED <<source, watermark>> /\ wk[w].pc = "paging"
    BY <1>5, <2>1 DEF data, ReadPage
  <2>3. wk'[w] = [wk[w] EXCEPT !.pc = IF wk[w].left \ es = {} THEN "fetched" ELSE "paging",
                               !.recs = wk[w].recs \cup Page(es, wk[w].sent), !.left = wk[w].left \ es]
    BY <1>0, <2>1 DEF Becomes
  <2>4. /\ wk'[w].recs = wk[w].recs \cup Page(es, wk[w].sent) /\ wk'[w].left = wk[w].left \ es
        /\ wk'[w].sent = wk[w].sent /\ wk'[w].pc = IF wk[w].left \ es = {} THEN "fetched" ELSE "paging"
    BY <1>0, <2>3 DEF Session
  <2> QED
    BY <1>2, <2>2, <2>4 DEF Syncing
<1>6. CASE wk'[w] = wk[w]
  BY <1>1, <1>2, <1>6 DEF Syncing
<1>7. CASE /\ wk[w].pc \in {"fetched", "stored"}
           /\ wk'[w] \in {[wk[w] EXCEPT !.pc = "stored"], [wk[w] EXCEPT !.pc = "checked"]}
  BY <1>0, <1>2, <1>7 DEF Syncing, Session
<1> QED
  BY <1>3, <1>4, <1>5, <1>6, <1>7

\* The checkpoint moves back to the beginning; or with the commit of a sync to the newest
\* mark it fetched, and then all it fetched is accounted for; or to the mark from which a
\* sync has read every page and found nothing.
LEMMA CheckpointMoves ==
  ASSUME ImportsAssumption, Typed, [Next]_vars
  PROVE  \/ watermark' = watermark
         \/ watermark' = None /\ UNCHANGED source
         \/ \E w \in Workers :
              /\ Syncing(w) /\ UNCHANGED source /\ watermark' = wk[w].sent
              /\ wk[w].pc = "paging" /\ wk[w].recs = {} /\ \A e \in Employees : ~ ToBeRead(e, w)
         \/ \E w \in Workers :
              /\ Syncing(w) /\ wk[w].pc = "checked" /\ UNCHANGED source
              /\ watermark' = wk[w].sent \/ \E rec \in wk[w].recs : watermark' = rec[2]
              /\ watermark' >= wk[w].sent /\ \A rec \in wk[w].recs : watermark' >= rec[2]
              /\ \A rec \in wk[w].recs : rec \in landed' \/ \E x \in rejected' : x.rec = rec
<1>1. CASE ResetCheckpoint
  BY <1>1 DEF ResetCheckpoint
<1>2. ASSUME NEW w \in Workers, Commit(w), watermark' # watermark
      PROVE  /\ Syncing(w) /\ wk[w].pc = "checked" /\ UNCHANGED source
             /\ watermark' = wk[w].sent \/ \E rec \in wk[w].recs : watermark' = rec[2]
             /\ watermark' >= wk[w].sent /\ \A rec \in wk[w].recs : watermark' >= rec[2]
             /\ \A rec \in wk[w].recs : rec \in landed' \/ \E x \in rejected' : x.rec = rec
  <2>1. PICK ok \in SUBSET wk[w].recs :
          /\ landed' = landed \cup ok
          /\ rejected' = rejected \cup {Rejection(wk[w].run, x) : x \in wk[w].recs \ ok}
          /\ watermark' = Advanced(w, ok)
    BY <1>2 DEF Commit
  <2> DEFINE marks == {rec[2] : rec \in wk[w].recs} \cup {wk[w].sent}
  <2>2. run[wk[w].run].kind = "sync" /\ watermark' = Max(marks)
    BY <1>2, <2>1 DEF Advanced
  <2>3. marks \subseteq Marks /\ marks # {}
    <3>1. wk[w].recs \subseteq Records /\ wk[w].sent \in Marks
      BY DEF Typed, Session
    <3>2. \A rec \in Records : rec[2] \in Marks
      BY DEF Records, Versions, Marks
    <3> QED
      BY <3>1, <3>2
  <2>4. watermark' \in marks /\ \A v \in marks : v <= watermark'
    BY <2>2, <2>3, MaxOfMarks
  <2>5. watermark' \in Int /\ \A v \in marks : v \in Int
    BY <2>3, <2>4 DEF Marks, ImportsAssumption
  <2>6. Syncing(w) /\ wk[w].pc = "checked" /\ UNCHANGED source
    BY <1>2, <2>2 DEF Syncing, Commit
  <2>7. \A rec \in wk[w].recs : rec \in landed' \/ \E x \in rejected' : x.rec = rec
    <3>1. \A rec : Rejection(wk[w].run, rec).rec = rec
      BY DEF Rejection
    <3> QED
      BY <2>1, <3>1
  <2> QED
    BY <2>4, <2>5, <2>6, <2>7
<1>3. ASSUME NEW w \in Workers, Fetch(w) \/ StoreRecords(w) \/ StoreRegister(w) \/ CheckAgain(w)
      PROVE  watermark' = watermark
  BY <1>3 DEF Fetch, StoreRecords, StoreRegister, CheckAgain, Cancelled, data
<1>4. ASSUME NEW w \in Workers, ReadPage(w), watermark' # watermark
      PROVE  /\ Syncing(w) /\ UNCHANGED source /\ watermark' = wk[w].sent
             /\ wk[w].pc = "paging" /\ wk[w].recs = {} /\ \A e \in Employees : ~ ToBeRead(e, w)
  <2>1. PICK es \in SUBSET Employees :
          /\ wk[w].left \ es = {} /\ wk[w].recs \cup Page(es, wk[w].sent) = {}
          /\ watermark' = wk[w].sent
          /\ UNCHANGED source
    BY <1>4 DEF ReadPage, data
  <2>2. \A e \in Employees : ~ ToBeRead(e, w)
    BY <2>1 DEF ToBeRead, Page
  <2> QED
    BY <1>4, <2>1, <2>2 DEF ReadPage, Syncing
<1> QED
  BY <1>1, <1>2, <1>3, <1>4
  DEF Next, vars, data, Work, Submit, StartLooks, StartCommits, CancelRunning, CancelReads, CancelWrites,
      RetryRejected, Claim, Raise, Crash, Change

\* A record changes to a mark beyond every other.
LEMMA ChangesAreNewest ==
  ASSUME ImportsAssumption, Typed, [Next]_vars, NEW e \in Employees
  PROVE  /\ source'[e] \in Marks /\ source'[e] >= source[e]
         /\ \/ source'[e] = source[e]
            \/ \A v \in Marks : Reached(v) => source'[e] > v
<1>0. /\ source \in [Employees -> Marks] /\ source[e] \in Marks
      /\ \A v \in Marks : v \in Int /\ v >= 0
  BY DEF Typed, Marks, ImportsAssumption
<1>1. ASSUME NEW x \in Employees, Change(x)
      PROVE  /\ source'[e] \in Marks /\ source'[e] >= source[e]
             /\ \/ source'[e] = source[e]
                \/ \A v \in Marks : Reached(v) => source'[e] > v
  <2> DEFINE last == Max({source[y] : y \in Employees})
  <2>1. last \in Marks /\ \A y \in Employees : source[y] <= last
    BY <1>0, MaxOfMarks
  <2>2. source' = [source EXCEPT ![x] = last + 1] /\ last < ChangeBound
    BY <1>1 DEF Change
  <2> HIDE DEF last
  <2>3. last + 1 \in Marks
    BY <2>1, <2>2 DEF Marks, ImportsAssumption
  <2>4. CASE e # x
    BY <1>0, <2>2, <2>4
  <2>5. CASE e = x
    <3>1. source'[e] = last + 1
      BY <1>0, <2>2, <2>5
    <3>2. ASSUME NEW v \in Marks, Reached(v) PROVE v < last + 1
      BY <1>0, <2>1, <3>2 DEF Reached, None
    <3> QED
      BY <1>0, <2>1, <2>3, <3>1, <3>2
  <2> QED
    BY <2>4, <2>5
<1>2. CASE UNCHANGED source
  BY <1>0, <1>2
<1>3. ASSUME NEW w \in Workers, Work(w) PROVE UNCHANGED source
  BY <1>3 DEF Work, Fetch, ReadPage, StoreRecords, StoreRegister, CheckAgain, Commit, Cancelled, data
<1> QED
  BY <1>1, <1>2, <1>3
  DEF Next, vars, data, Submit, StartLooks, StartCommits, CancelRunning, CancelReads, CancelWrites, RetryRejected,
      Claim, Raise, Crash, ResetCheckpoint

\* What changes on a page that was read, while a worker reads on, has slipped.
LEMMA ChangesSlip ==
  ASSUME Typed, [Next]_vars, NEW e \in Employees, source'[e] # source[e], ReadPast(e)
  PROVE  <<e, source'[e]>> \in slipped'
<1>1. PICK x \in Employees : Change(x)
  BY DEF Next, vars, data, Submit, StartLooks, StartCommits, CancelRunning, CancelReads, CancelWrites, RetryRejected,
         Claim, Raise, Crash, ResetCheckpoint, Work, Fetch, ReadPage, StoreRecords, StoreRegister, CheckAgain,
         Commit, Cancelled
<1>2. x = e
  BY <1>1 DEF Change, Typed
<1> QED
  BY <1>1, <1>2 DEF Change, Typed

\* No step leaves a change behind the checkpoint that nothing accounts for.
LEMMA CheckpointStaysBehind ==
  ASSUME ImportsAssumption, CheckpointInvariant, [Next]_vars
  PROVE  CheckpointInvariant'
<1> USE DEF CheckpointInvariant
<1>0. /\ Typed'
      /\ \A v \in Marks : v \in Int
      /\ \A w \in Workers : wk[w].sent \in Marks /\ \A rec \in wk[w].recs : rec[2] \in Marks
      /\ \A e \in Employees : source[e] \in Marks
      /\ watermark \in Marks
  BY TypesHold DEF Typed, Session, Records, Versions, Marks, ImportsAssumption
<1>1. \A e \in Employees : source'[e] = source[e] /\ Accounted(e) => Accounted(e)'
  BY AnswersStay DEF Accounted
<1>2. \A v \in Marks : Reached(v) => Reached(v)'
  <2> SUFFICES ASSUME NEW v \in Marks, Reached(v), v # None PROVE \E e \in Employees : v <= source'[e]
    BY DEF Reached
  <2>1. PICK e \in Employees : v <= source[e]
    BY DEF Reached
  <2>2. source'[e] \in Marks /\ source'[e] >= source[e]
    BY ChangesAreNewest
  <2> QED
    BY <1>0, <2>1, <2>2
<1>3. NoneAhead'
  <2>1. Reached(watermark)'
    <3>1. watermark' \in Marks
      BY <1>0 DEF Typed
    <3>2. CASE watermark' = None
      BY <3>2 DEF Reached
    <3>3. CASE Reached(watermark')
      BY <1>2, <3>1, <3>3 DEF Reached
    <3>4. CASE watermark' = watermark
      BY <3>3, <3>4 DEF NoneAhead, Reached
    <3> QED
      BY <3>2, <3>3, <3>4, CheckpointMoves DEF NoneAhead
  <2>2. ASSUME NEW w \in Workers, Syncing(w)'
        PROVE  Reached(wk[w].sent)' /\ \A rec \in wk'[w].recs : Reached(rec[2])'
    <3>1. CASE Syncing(w) /\ wk'[w].recs = wk[w].recs /\ wk'[w].sent = wk[w].sent
      BY <1>0, <1>2, <3>1 DEF NoneAhead, Reached
    <3>2. CASE UNCHANGED <<source, watermark>> /\ wk'[w].recs = {} /\ wk'[w].sent = watermark
      BY <1>0, <3>2 DEF NoneAhead, Reached
    <3>3. CASE /\ Syncing(w) /\ UNCHANGED source /\ wk'[w].sent = wk[w].sent
               /\ \E es \in SUBSET Employees : wk'[w].recs = wk[w].recs \cup Page(es, wk[w].sent)
      <4>1. \A es \in SUBSET Employees : \A rec \in Page(es, wk[w].sent) :
              \E e \in Employees : rec[2] = source[e]
        BY DEF Page
      <4> QED
        BY <1>0, <3>3, <4>1 DEF NoneAhead, Reached
    <3> QED
      BY <2>2, <3>1, <3>2, <3>3, RecordsAreFetched
  <2> QED
    BY <2>1, <2>2 DEF NoneAhead
<1>4. FetchedTheRest'
  <2> SUFFICES ASSUME NEW w \in Workers, NEW e \in Employees, Syncing(w)', source'[e] # None
               PROVE  \/ Accounted(e)' \/ <<e, source'[e]>> \in wk'[w].recs
                      \/ ToBeRead(e, w)' \/ ChangedSince(e, w)'
    BY DEF FetchedTheRest
  <2>1. CASE /\ Syncing(w) /\ wk'[w].recs = wk[w].recs /\ wk'[w].sent = wk[w].sent
             /\ wk'[w].left = wk[w].left /\ (wk'[w].pc = "paging" <=> wk[w].pc = "paging")
    <3>1. CASE source'[e] = source[e]
      BY <1>1, <2>1, <3>1 DEF FetchedTheRest, ChangedSince, ToBeRead
    <3>2. CASE source'[e] # source[e]
      <4>1. \A v \in Marks : Reached(v) => source'[e] > v
        BY <3>2, ChangesAreNewest
      <4>2. source'[e] > wk[w].sent /\ \A rec \in wk[w].recs : source'[e] > rec[2]
        BY <1>0, <2>1, <4>1 DEF NoneAhead
      <4>3. CASE wk[w].pc = "paging" /\ e \notin wk[w].left
        BY <3>2, <4>3, ChangesSlip DEF ReadPast, Accounted
      <4>4. CASE wk[w].pc = "paging" /\ e \in wk[w].left
        BY <2>1, <4>2, <4>4 DEF ToBeRead
      <4>5. CASE wk[w].pc # "paging"
        BY <2>1, <4>2, <4>5 DEF ChangedSince
      <4> QED
        BY <4>3, <4>4, <4>5
    <3> QED
      BY <3>1, <3>2
  <2>2. CASE /\ UNCHANGED <<source, watermark>> /\ wk'[w].pc = "paging"
             /\ wk'[w].left = Employees /\ wk'[w].sent = watermark
    <3>1. CASE source[e] > watermark
      BY <2>2, <3>1 DEF ToBeRead
    <3>2. CASE source[e] <= watermark
      BY <1>1, <2>2, <3>2 DEF CheckpointBehindData, Accounted
    <3> QED
      BY <1>0, <3>1, <3>2
  <2>3. CASE /\ Syncing(w) /\ wk[w].pc = "paging" /\ UNCHANGED source /\ wk'[w].sent = wk[w].sent
             /\ \E es \in SUBSET Employees :
                  /\ wk'[w].recs = wk[w].recs \cup Page(es, wk[w].sent)
                  /\ wk'[w].left = wk[w].left \ es
             /\ wk'[w].pc = IF wk'[w].left = {} THEN "fetched" ELSE "paging"
    <3>1. Accounted(e) \/ <<e, source[e]>> \in wk[w].recs \/ ToBeRead(e, w)
      BY <2>3 DEF FetchedTheRest, ChangedSince
    <3>2. CASE ToBeRead(e, w)
      BY <2>3, <3>2 DEF ToBeRead, Page
    <3> QED
      BY <1>1, <2>3, <3>1, <3>2
  <2> QED
    BY <2>1, <2>2, <2>3, RecordsAreFetched
<1>5. CheckpointBehindData'
  <2> SUFFICES ASSUME NEW e \in Employees, source'[e] # None, source'[e] <= watermark'
               PROVE  Accounted(e)'
    BY DEF CheckpointBehindData, Accounted
  <2>0. watermark' \in Marks /\ source'[e] \in Marks
    BY <1>0 DEF Typed
  <2>1. CASE watermark' = watermark
    <3>1. CASE source'[e] = source[e]
      BY <1>1, <2>1, <3>1 DEF CheckpointBehindData, Accounted
    <3>2. CASE source'[e] # source[e]
      BY <1>0, <2>0, <2>1, <3>2, ChangesAreNewest DEF NoneAhead
    <3> QED
      BY <3>1, <3>2
  <2>2. CASE watermark' = None
    BY <2>0, <2>2 DEF None, Marks
  <2>3. ASSUME NEW w \in Workers, Syncing(w), UNCHANGED source, watermark' = wk[w].sent,
               wk[w].pc = "paging", wk[w].recs = {}, ~ ToBeRead(e, w)
        PROVE  Accounted(e)'
    BY <1>1, <2>3 DEF FetchedTheRest, ChangedSince
  <2>4. ASSUME NEW w \in Workers, Syncing(w), UNCHANGED source,
               watermark' >= wk[w].sent, \A rec \in wk[w].recs : watermark' >= rec[2],
               watermark' = wk[w].sent \/ \E rec \in wk[w].recs : watermark' = rec[2],
               wk[w].pc = "checked",
               \A rec \in wk[w].recs : rec \in landed' \/ \E x \in rejected' : x.rec = rec
        PROVE  Accounted(e)'
    <3>1. Accounted(e) \/ <<e, source[e]>> \in wk[w].recs \/ ChangedSince(e, w)
      BY <2>4 DEF FetchedTheRest, ToBeRead
    <3>2. ~ ChangedSince(e, w)
      BY <1>0, <2>0, <2>4 DEF ChangedSince
    <3> QED
      BY <1>1, <2>4, <3>1, <3>2 DEF Accounted
  <2> QED
    BY <2>1, <2>2, <2>3, <2>4, CheckpointMoves
<1> QED
  BY <1>0, <1>3, <1>4, <1>5

--------------------------------------------------------------------------------
(* What is promised of a run, and of a retry.                              *)

LEMMA FirstTypes ==
  ASSUME ImportsAssumption, Init
  PROVE  Typed
<1>1. Absent \in Row /\ Idle \in Session
  BY DEF Absent, Idle, Row, Session, Marks, None, ImportsAssumption
<1>2. None \in Marks
  BY DEF Marks, None, ImportsAssumption
<1> QED
  BY <1>1, <1>2 DEF Init, Typed, HoldsARun, Idle

\* Whoever ends a run announces it, and a run that goes on is not at its end.
LEMMA EndsAreAnnounced ==
  ASSUME Typed, EndedRunsAreAnnounced, [Next]_vars
  PROVE  EndedRunsAreAnnounced'
<1> SUFFICES ASSUME NEW r \in Runs
             PROVE  run'[r].status \in Terminal => announced'[r] = run'[r].status
  BY DEF EndedRunsAreAnnounced
<1> DEFINE Told == run'[r].status \in Terminal => announced'[r] = run'[r].status
<1>0. /\ run \in [Runs -> Row] /\ run[r] \in Row
      /\ announced \in [Runs -> Terminal \cup {"none"}]
      /\ run[r].status \in Terminal => announced[r] = run[r].status
  BY DEF Typed, EndedRunsAreAnnounced
<1>1. ASSUME NEW q, NEW status, Finish(q, status) PROVE Told
  BY <1>0, <1>1 DEF Finish, Row
<1>2. CASE UNCHANGED <<run, announced>>
  BY <1>0, <1>2
<1>3. ASSUME NEW q \in Runs, NEW kind \in Kinds, NEW mode \in Modes, NEW es \in SUBSET Employees,
             Submit(q, kind, mode, es)
      PROVE  Told
  BY <1>0, <1>3 DEF Submit, Created, Absent, Terminal
<1>4. ASSUME NEW q \in Runs, StartLooks(q) \/ StartCommits(q) PROVE Told
  BY <1>0, <1>4, ZenonT(60) DEF StartLooks, StartCommits, Created, Absent, Terminal
<1>5. ASSUME NEW q \in Runs, NEW new \in Runs, RetryRejected(q, new) PROVE Told
  BY <1>0, <1>5 DEF RetryRejected, Created, Absent, Terminal
<1>6. ASSUME NEW q \in Runs, CancelRunning(q) PROVE Told
  BY <1>0, <1>6 DEF CancelRunning, Row
<1>7. ASSUME NEW q \in Runs, CancelReads(q) PROVE Told
  BY <1>2, <1>7 DEF CancelReads
<1>8. ASSUME NEW q \in Runs, CancelWrites(q) PROVE Told
  BY <1>0, <1>8 DEF CancelWrites, Row
<1>9. ASSUME NEW w \in Workers, Claim(w) PROVE Told
  <2>1. PICK q \in Runs :
          \/ Finish(q, "cancelled")
          \/ /\ run' = [run EXCEPT ![q].status = "running", ![q].attempts = @ + 1]
             /\ UNCHANGED announced
    BY <1>9 DEF Claim
  <2>2. CASE /\ run' = [run EXCEPT ![q].status = "running", ![q].attempts = @ + 1]
             /\ UNCHANGED announced
    BY <1>0, <2>2 DEF Row, Terminal
  <2> QED
    BY <1>1, <2>1, <2>2
<1>10. ASSUME NEW w \in Workers, Work(w) \/ Raise(w) \/ Crash(w) PROVE Told
  <2>1. \/ UNCHANGED <<run, announced>>
        \/ \E status : Ends(w, status)
        \/ run' = [run EXCEPT ![wk[w].run].status = "queued"] /\ UNCHANGED announced
    BY <1>10 DEF Work, Fetch, ReadPage, StoreRecords, StoreRegister, CheckAgain, Commit, Cancelled, Raise, Crash
  <2>2. CASE run' = [run EXCEPT ![wk[w].run].status = "queued"] /\ UNCHANGED announced
    BY <1>0, <2>2 DEF Row, Terminal
  <2> QED
    BY <1>1, <1>2, <2>1, <2>2 DEF Ends
<1> QED
  BY <1>2, <1>3, <1>4, <1>5, <1>6, <1>7, <1>8, <1>9, <1>10
  DEF Next, vars, data, Change, ResetCheckpoint

\* What a run is for is settled when it is made.
LEMMA RetriesStayAdditions ==
  ASSUME ImportsAssumption, RetryInvariant, [Next]_vars
  PROVE  RetryInvariant'
<1>1. Typed'
  BY TypesHold DEF RetryInvariant
<1>2. ASSUME NEW r \in Runs PROVE run'[r].retryOf # None => run'[r].mode = "upsert"
  <2>0. run \in [Runs -> Row] /\ run[r] \in Row /\ (run[r].retryOf # None => run[r].mode = "upsert")
    BY DEF RetryInvariant, Typed, RetriesAdd
  <2>1. CASE Live(r)
    BY <2>0, <2>1, RowsStay DEF RetryInvariant
  <2>2. CASE ~ Live(r)
    <3>1. ASSUME NEW q, NEW status, Finish(q, status)
          PROVE  run'[r].retryOf = run[r].retryOf /\ run'[r].mode = run[r].mode
      BY <2>0, <3>1 DEF Finish, Row
    <3>2. ASSUME NEW w \in Workers, Claim(w)
          PROVE  run'[r].retryOf = run[r].retryOf /\ run'[r].mode = run[r].mode
      <4>1. PICK q \in Runs :
              \/ Finish(q, "cancelled")
              \/ run' = [run EXCEPT ![q].status = "running", ![q].attempts = @ + 1]
        BY <3>2 DEF Claim
      <4>2. CASE run' = [run EXCEPT ![q].status = "running", ![q].attempts = @ + 1]
        BY <2>0, <4>2 DEF Row
      <4> QED
        BY <3>1, <4>1, <4>2
    <3>3. ASSUME NEW w \in Workers, Work(w) \/ Raise(w) \/ Crash(w)
          PROVE  run'[r].retryOf = run[r].retryOf /\ run'[r].mode = run[r].mode
      <4>1. \/ UNCHANGED run
            \/ \E status : Ends(w, status)
            \/ run' = [run EXCEPT ![wk[w].run].status = "queued"]
        BY <3>3 DEF Work, Fetch, ReadPage, StoreRecords, StoreRegister, CheckAgain, Commit, Cancelled, Raise, Crash
      <4>2. CASE run' = [run EXCEPT ![wk[w].run].status = "queued"]
        BY <2>0, <4>2 DEF Row
      <4> QED
        BY <3>1, <4>1, <4>2 DEF Ends
    <3>4. ASSUME NEW q \in Runs, CancelRunning(q) \/ CancelWrites(q)
          PROVE  run'[r].retryOf = run[r].retryOf /\ run'[r].mode = run[r].mode
      BY <2>0, <3>4 DEF CancelRunning, CancelWrites, Row
    <3>5. ASSUME NEW q \in Runs, NEW new \in Runs, RetryRejected(q, new)
          PROVE  run'[r].retryOf # None => run'[r].mode = "upsert"
      BY <2>0, <3>5 DEF RetryRejected, Created, Absent, RetryMode
    <3>6. ASSUME NEW q \in Runs, NEW kind, NEW mode, NEW es, Submit(q, kind, mode, es)
          PROVE  run'[r].retryOf # None => run'[r].mode = "upsert"
      BY <2>0, <3>6 DEF Submit, Created, Absent
    <3>7. ASSUME NEW q \in Runs, StartLooks(q) \/ StartCommits(q)
          PROVE  run'[r].retryOf # None => run'[r].mode = "upsert"
      BY <2>0, <3>7 DEF StartLooks, StartCommits, Created, Absent
    <3> QED
      BY <2>0, <3>2, <3>3, <3>4, <3>5, <3>6, <3>7 DEF Next, vars, CancelReads, Change, ResetCheckpoint
  <2> QED
    BY <2>1, <2>2
<1> QED
  BY <1>1, <1>2 DEF RetryInvariant, RetriesAdd

\* A commit removes whom it did not bring only where it replaces, and a retry does not.
LEMMA RetriesRemoveNoOne ==
  ASSUME RetryInvariant, Next
  PROVE  RemovesNoOneOnRetry
<1> SUFFICES ASSUME NEW e \in Employees, stored[e] # None, stored'[e] = None
             PROVE  \E w \in Workers : /\ wk[w].pc = "checked" /\ wk'[w].pc = "idle"
                                       /\ run[wk[w].run].retryOf = None
  BY DEF RemovesNoOneOnRetry
<1>1. PICK w \in Workers : Commit(w)
  BY DEF Next, data, Work, Submit, StartLooks, StartCommits, CancelRunning, CancelReads, CancelWrites,
         RetryRejected, Claim, Fetch, ReadPage, StoreRecords, StoreRegister, CheckAgain, Cancelled, Raise, Crash, Change,
         ResetCheckpoint
<1>2. PICK ok \in SUBSET wk[w].recs : stored' = Kept(run[wk[w].run].mode, ok)
  BY <1>1 DEF Commit
<1>3. run[wk[w].run].mode = "replace"
  <2>1. (\E v \in Versions : <<e, v>> \in ok) => (CHOOSE v \in Versions : <<e, v>> \in ok) \in Versions
    OBVIOUS
  <2>2. \A v \in Versions : v # None
    BY DEF Versions, None
  <2> QED
    BY <1>2, <2>1, <2>2 DEF Kept
<1>4. wk[w].run \in Runs /\ wk[w].pc = "checked" /\ wk' = [wk EXCEPT ![w] = Idle]
  BY <1>1 DEF Commit, Ends, Becomes, RetryInvariant, Typed, HoldsARun
<1>5. wk'[w].pc = "idle"
  BY <1>4 DEF RetryInvariant, Typed, Idle
<1> QED
  BY <1>3, <1>4, <1>5 DEF RetryInvariant, RetriesAdd

--------------------------------------------------------------------------------
(* The theorems.                                                           *)

\* Runs, sessions, records and the checkpoint keep their types (StudioImports.TypeOK).
THEOREM TypeCorrect ==
  ASSUME ImportsAssumption
  PROVE  Spec => []TypeOK
<1>1. Typed => TypeOK
  BY DEF Typed, TypeOK, Row, Session, Marks
<1> QED
  BY <1>1, FirstTypes, TypesHold, PTL DEF Spec

\* The checkpoint of a stream is ahead of the data only by what slipped: what the next incremental
\* sync will not fetch was stored, or reported as rejected, or written on a page that a sync had
\* read while it read on (sync.py:21-25, 333-334; connections.py:404-455).
THEOREM CheckpointHolds ==
  ASSUME ImportsAssumption
  PROVE  Spec => []CheckpointBehindData
<1>1. Init => CheckpointInvariant
  <2> SUFFICES ASSUME Init PROVE CheckpointInvariant
    OBVIOUS
  <2>1. \A w \in Workers : ~ Syncing(w)
    BY DEF Init, Syncing, Idle
  <2> QED
    BY <2>1, FirstTypes
    DEF Init, CheckpointInvariant, NoneAhead, FetchedTheRest, CheckpointBehindData, Reached
<1>2. CheckpointInvariant /\ [Next]_vars => CheckpointInvariant'
  BY CheckpointStaysBehind
<1>3. CheckpointInvariant => CheckpointBehindData
  BY DEF CheckpointInvariant
<1> QED
  BY <1>1, <1>2, <1>3, PTL DEF Spec

\* A run that ended was announced with the status it ended with, whoever ended it and however
\* often (runs.py:190-202).
THEOREM EndsAnnounced ==
  ASSUME ImportsAssumption
  PROVE  Spec => []EndedRunsAreAnnounced
<1>1. Init => Typed /\ EndedRunsAreAnnounced
  BY FirstTypes DEF Init, EndedRunsAreAnnounced, Absent, Terminal
<1>2. Typed /\ EndedRunsAreAnnounced /\ [Next]_vars => (Typed /\ EndedRunsAreAnnounced)'
  BY TypesHold, EndsAreAnnounced
<1> QED
  BY <1>1, <1>2, PTL DEF Spec

\* A retry of rejected records removes no one the run before it stored (imports.py:716-721).
THEOREM RetriesKeep ==
  ASSUME ImportsAssumption
  PROVE  Spec => RetryKeepsWhatWasStored
<1>1. Init => RetryInvariant
  BY FirstTypes DEF Init, RetryInvariant, RetriesAdd, Absent
<1>2. RetryInvariant /\ [Next]_vars => RetryInvariant'
  BY RetriesStayAdditions
<1>3. RetryInvariant /\ [Next]_vars => [RemovesNoOneOnRetry]_vars
  BY RetriesRemoveNoOne
<1> QED
  BY <1>1, <1>2, <1>3, PTL DEF Spec, RetryKeepsWhatWasStored

\* The three together: a stream loses nothing but what slips, an end is told, a retry adds (sync.py,
\* runs.py, imports.py).
THEOREM NothingLost ==
  ASSUME ImportsAssumption
  PROVE  Spec => SyncsLoseNothing
BY CheckpointHolds, EndsAnnounced, RetriesKeep, PTL DEF SyncsLoseNothing

================================================================================

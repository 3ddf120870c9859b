-------------------------- MODULE StudioWorkflowsProofs --------------------------
(***************************************************************************)
(* Theorems about workflow runs: no step takes effect twice, and a run     *)
(* that is under way knows the child it started.  For any workers, steps,  *)
(* retries and bounds, with crashes, exceptions, timeouts and cancels.     *)
(***************************************************************************)
EXTENDS StudioWorkflows, TLAPS

Steps == 1..FailureBranch

Statuses == Live \cup Ended \cup {"absent"}

\* A place in the definition, and the rows.
Place == [cursor : Steps, ref : Children \cup {None}, tries : Nat]
RunRow == [status : Statuses, attempts : Nat, cancel : BOOLEAN, late : BOOLEAN, at : Place]
ChildRow == [kind : {"none", "sync", "validate"}, status : Statuses, cancel : BOOLEAN, by : Runs \cup {None}]
WorkerRow == [pc : {"idle", "claimed", "stepping"}, run : Runs \cup {None}, at : Place, said : SUBSET Steps]

\* What the proofs use of the types.
Typed ==
  /\ run \in [Runs -> RunRow]
  /\ child \in [Children -> ChildRow]
  /\ wk \in [Workers -> WorkerRow]
  /\ \A w \in Workers : wk[w].pc = "idle" <=> wk[w].run = None
  /\ asked \in [run : Runs \cup {None}, ref : Children \cup {None}]
  /\ notices \in [Runs -> [Steps -> Nat]]

LEMMA Constants ==
  /\ Len(Actions) \in Nat /\ FailureBranch \in Nat /\ FailureBranch = Len(Actions) + 1
  /\ 1 \in Steps /\ FailureBranch \in Steps
  /\ \A i \in 1..Len(Actions) : i \in Steps /\ i + 1 \in Steps /\ i # FailureBranch
  /\ \A i \in Steps : i \in Nat /\ (i <= Len(Actions) \/ i = FailureBranch)
  /\ None \notin Runs /\ None \notin Children
  /\ Start \in Place /\ Start.cursor = 1 /\ Start.ref = None
  /\ Absent \in RunRow /\ Absent.status = "absent" /\ Absent.at = Start
  /\ NoChild \in ChildRow /\ NoChild.status = "absent" /\ NoChild.by = None
  /\ Idle \in WorkerRow /\ Idle.pc = "idle" /\ Idle.run = None /\ Idle.said = {} /\ Idle.at = Start
<1>1. /\ Len(Actions) \in Nat /\ FailureBranch = Len(Actions) + 1
  BY WorkflowAssumption DEF FailureBranch
<1>2. Start \in Place /\ Start.cursor = 1 /\ Start.ref = None
  BY <1>1 DEF Start, Place, Steps
<1>3. /\ Absent \in RunRow /\ Absent.status = "absent" /\ Absent.at = Start
      /\ NoChild \in ChildRow /\ NoChild.status = "absent" /\ NoChild.by = None
  BY <1>2 DEF Absent, RunRow, NoChild, ChildRow, Statuses
<1>4. Idle \in WorkerRow /\ Idle.pc = "idle" /\ Idle.run = None /\ Idle.said = {} /\ Idle.at = Start
  BY <1>2 DEF Idle, WorkerRow
<1>5. /\ FailureBranch \in Nat /\ 1 \in Steps /\ FailureBranch \in Steps
      /\ \A i \in 1..Len(Actions) : i \in Steps /\ i + 1 \in Steps /\ i # FailureBranch
      /\ \A i \in Steps : i \in Nat /\ (i <= Len(Actions) \/ i = FailureBranch)
  BY <1>1 DEF Steps
<1>6. None \notin Runs /\ None \notin Children
  BY WorkflowAssumption DEF None, Runs, Children
<1> QED
  BY <1>1, <1>2, <1>3, <1>4, <1>5, <1>6

--------------------------------------------------------------------------------
(* A step, seen from the runs and from their children.                     *)

\* No child of a run comes to life.
Calmer ==
  \A c \in Children : child'[c].status \in Live /\ child'[c].by \in Runs =>
    child[c].status \in Live /\ child[c].by = child'[c].by

OthersOf(w) == \A v \in Workers \ {w} : wk'[v] = wk[v]
OtherRuns(r) == \A k \in Runs \ {r} : run'[k] = run[k]

\* Nobody's work moves: a run is queued, told or cancelled.
Outside ==
  /\ wk' = wk /\ notices' = notices /\ Calmer
  /\ \A r \in Runs :
       \/ run'[r].at = run[r].at /\ (run'[r].status = run[r].status \/ run'[r].status = "cancelled")
       \/ run[r].status = "absent" /\ run'[r].status = "queued" /\ run'[r].at = Start

Claimed(w, r) ==
  /\ wk[w].pc = "idle"
  /\ run[r].status = "queued" \/ (run[r].status = "running" /\ \A v \in Workers : wk[v].run # r)
  /\ wk'[w].pc = "claimed" /\ wk'[w].run = r /\ wk'[w].said = {} /\ OthersOf(w)
  /\ run'[r].status = "running" /\ run'[r].at = run[r].at /\ OtherRuns(r)
  /\ notices' = notices /\ child' = child

Opened(w) ==
  /\ wk[w].pc = "claimed" /\ wk'[w].pc = "stepping" /\ wk'[w].run = wk[w].run
  /\ wk'[w].at = run[wk[w].run].at /\ wk'[w].said = wk[w].said /\ OthersOf(w)
  /\ run' = run /\ notices' = notices /\ child' = child

\* Its step is done: it was a notice, or its child has ended.
Advanced(w) ==
  /\ Stepping(w) /\ wk'[w].pc = "stepping" /\ wk'[w].run = wk[w].run
  /\ Action(w) = "notify" \/ (wk[w].at.ref # None /\ child[wk[w].at.ref].status \notin Live)
  /\ wk'[w].at.cursor = wk[w].at.cursor + 1 /\ wk'[w].at.ref = None
  /\ wk'[w].said \subseteq wk[w].said \cup {wk[w].at.cursor}
  /\ OthersOf(w) /\ run' = run /\ notices' = notices /\ child' = child

\* What becomes of a child when a step waits: it is the one it was, there is none that
\* lives, it is one that others started, or one that the step starts.
Waits(w, at) ==
  \/ child' = child /\ at.ref = wk[w].at.ref
  \/ child' = child /\ at.ref = None /\ (wk[w].at.ref = None \/ child[wk[w].at.ref].status \notin Live)
  \/ /\ wk[w].at.ref = None /\ Action(w) # "notify" /\ at.ref \in Children
     /\ \/ child' = child
        \/ child'[at.ref].by = wk[w].run /\ \A c \in Children \ {at.ref} : child'[c] = child[c]

Saved(w, status, at, said) ==
  LET r == wk[w].run IN
  /\ wk[w].pc = "stepping" /\ wk'[w] = Idle /\ OthersOf(w)
  /\ run'[r].status = status /\ run'[r].at = at /\ OtherRuns(r)
  /\ notices' = Said(r, said)
  /\ at.cursor = wk[w].at.cursor
  /\ \/ status = "queued" /\ said = wk[w].said /\ at.cursor <= Len(Actions) /\ Waits(w, at)
     \/ /\ status \in Ended /\ said \in {wk[w].said, wk[w].said \cup {FailureBranch}}
        /\ at = wk[w].at /\ child' = child

\* A worker lets go of its run where it had it: cancelled, raised or dead.
Released(w) ==
  LET r == wk[w].run IN
  /\ wk[w].pc # "idle" /\ wk'[w] = Idle /\ OthersOf(w)
  /\ run'[r].status \in {run[r].status, "queued", "failed", "cancelled"} /\ run'[r].at = run[r].at /\ OtherRuns(r)
  /\ notices' = notices /\ Calmer

Worked(w) ==
  \/ \E r \in Runs : Claimed(w, r)
  \/ Opened(w) \/ Advanced(w) \/ Released(w)
  \/ \E status \in Statuses, at \in Place, said \in SUBSET Steps : Saved(w, status, at, said)

\* What a cancel does to the children keeps their types and brings none to life.
LEMMA ToldTyped ==
  ASSUME Typed, NEW c \in Children \cup {None}, child' = Told(c)
  PROVE  child' \in [Children -> ChildRow] /\ Calmer
<1>1. ASSUME NEW d \in Children
      PROVE  /\ child'[d] \in ChildRow /\ child'[d].by = child[d].by
             /\ child'[d].status \in Live => child[d].status \in Live
  <2>1. child[d] \in ChildRow
    BY DEF Typed
  <2> DEFINE new == [child[d] EXCEPT !.cancel = TRUE, !.status = IF @ = "queued" THEN "cancelled" ELSE @]
  <2>2. /\ new \in ChildRow /\ new.by = child[d].by
        /\ new.status = IF child[d].status = "queued" THEN "cancelled" ELSE child[d].status
    BY <2>1 DEF ChildRow, Statuses, Ended
  <2>3. child'[d] = IF d = c /\ child[d].status \in Live THEN new ELSE child[d]
    BY DEF Told
  <2> HIDE DEF new
  <2> QED
    BY <2>1, <2>2, <2>3
<1>2. child' = [d \in Children |-> child'[d]]
  BY DEF Told
<1> QED
  BY <1>1, <1>2 DEF Calmer

\* The worker's commit.
LEMMA CommitTyped ==
  ASSUME Typed, NEW w \in Workers, wk[w].pc # "idle", NEW status \in Statuses, NEW attempts \in Nat,
         NEW at \in Place, NEW said \in SUBSET Steps, Commits(w, status, attempts, at, said)
  PROVE  LET r == wk[w].run IN
         /\ r \in Runs
         /\ run' \in [Runs -> RunRow] /\ notices' \in [Runs -> [Steps -> Nat]]
         /\ wk' \in [Workers -> WorkerRow] /\ \A v \in Workers : wk'[v].pc = "idle" <=> wk'[v].run = None
         /\ wk'[w] = Idle /\ OthersOf(w)
         /\ run'[r].status = status /\ run'[r].at = at /\ OtherRuns(r)
         /\ notices' = Said(r, said)
<1> DEFINE r == wk[w].run
<1>1. r \in Runs
  BY DEF Typed, WorkerRow
<1>2. /\ run' \in [Runs -> RunRow] /\ run'[r].status = status /\ run'[r].at = at /\ OtherRuns(r)
  <2> DEFINE new == [run[r] EXCEPT !.status = status, !.attempts = attempts, !.at = at]
  <2>1. run[r] \in RunRow
    BY <1>1 DEF Typed
  <2>2. new \in RunRow /\ new.status = status /\ new.at = at
    BY <2>1 DEF RunRow
  <2>3. run' = [run EXCEPT ![r] = new]
    BY DEF Commits
  <2> HIDE DEF new, r
  <2> QED
    BY <1>1, <2>2, <2>3 DEF Typed, OtherRuns
<1>3. notices' \in [Runs -> [Steps -> Nat]] /\ notices' = Said(r, said)
  <2> DEFINE new == [s \in Steps |-> IF s \in said THEN notices[r][s] + 1 ELSE notices[r][s]]
  <2>1. notices' = Said(r, said) /\ notices' = [notices EXCEPT ![r] = new]
    BY DEF Commits, Said, Steps
  <2>2. notices[r] \in [Steps -> Nat]
    BY <1>1 DEF Typed
  <2>3. new \in [Steps -> Nat]
    BY <2>2
  <2> HIDE DEF new, r
  <2> QED
    BY <2>1, <2>3 DEF Typed
<1>4. /\ wk' \in [Workers -> WorkerRow] /\ wk'[w] = Idle /\ OthersOf(w)
      /\ \A v \in Workers : wk'[v].pc = "idle" <=> wk'[v].run = None
  <2>1. wk' = [wk EXCEPT ![w] = Idle]
    BY DEF Commits
  <2> QED
    BY <2>1, Constants DEF Typed, OthersOf
<1> HIDE DEF r
<1> QED
  BY <1>1, <1>2, <1>3, <1>4 DEF r

\* Work of people, time and the children.
LEMMA OutsideTyped ==
  ASSUME Typed,
         \/ \E r \in Runs : Fire(r) \/ CancelRunning(r) \/ CancelReads(r) \/ TimePasses(r)
         \/ \E c \in Children : \/ ChildMoves(c) \/ CancelChild(c)
                               \/ \E i \in DOMAIN Actions : StartChild(c, Actions[i])
         \/ CancelWrites
  PROVE  Typed' /\ Outside
<1>0. /\ run \in [Runs -> RunRow] /\ child \in [Children -> ChildRow]
      /\ asked \in [run : Runs \cup {None}, ref : Children \cup {None}]
      /\ \A r \in Runs : run[r] \in RunRow
      /\ \A c \in Children : child[c] \in ChildRow
  BY DEF Typed
<1>1. child' = child => Calmer
  BY DEF Calmer
<1>2. ASSUME NEW r \in Runs, NEW new \in RunRow, run' = [run EXCEPT ![r] = new], wk' = wk, notices' = notices,
             child' \in [Children -> ChildRow], Calmer,
             asked' \in [run : Runs \cup {None}, ref : Children \cup {None}],
             \/ new.at = run[r].at /\ (new.status = run[r].status \/ new.status = "cancelled")
             \/ run[r].status = "absent" /\ new.status = "queued" /\ new.at = Start
      PROVE  Typed' /\ Outside
  <2>1. run' \in [Runs -> RunRow] /\ run'[r] = new /\ \A k \in Runs \ {r} : run'[k] = run[k]
    BY <1>0, <1>2
  <2> QED
    BY <1>2, <2>1 DEF Typed, Outside
<1>3. ASSUME NEW r \in Runs, Fire(r) PROVE Typed' /\ Outside
  <2> DEFINE new == [Absent EXCEPT !.status = "queued"]
  <2>1. new \in RunRow /\ new.status = "queued" /\ new.at = Start
    BY Constants DEF RunRow, Statuses, Live
  <2>2. /\ run' = [run EXCEPT ![r] = new] /\ run[r].status = "absent"
        /\ UNCHANGED <<child, wk, asked, notices>>
    BY <1>3 DEF Fire
  <2> HIDE DEF new
  <2> QED
    BY <1>0, <1>1, <1>2, <2>1, <2>2
<1>4. ASSUME NEW r \in Runs, CancelRunning(r) PROVE Typed' /\ Outside
  <2> DEFINE new == [run[r] EXCEPT !.cancel = TRUE]
  <2>1. new \in RunRow /\ new.status = run[r].status /\ new.at = run[r].at
    BY <1>0 DEF RunRow
  <2>2. run' = [run EXCEPT ![r] = new] /\ UNCHANGED <<child, wk, asked, notices>>
    BY <1>4 DEF CancelRunning
  <2> HIDE DEF new
  <2> QED
    BY <1>0, <1>1, <1>2, <2>1, <2>2
<1>5. ASSUME NEW r \in Runs, TimePasses(r) PROVE Typed' /\ Outside
  <2> DEFINE new == [run[r] EXCEPT !.late = TRUE]
  <2>1. new \in RunRow /\ new.status = run[r].status /\ new.at = run[r].at
    BY <1>0 DEF RunRow
  <2>2. run' = [run EXCEPT ![r] = new] /\ UNCHANGED <<child, wk, asked, notices>>
    BY <1>5 DEF TimePasses
  <2> HIDE DEF new
  <2> QED
    BY <1>0, <1>1, <1>2, <2>1, <2>2
<1>6. ASSUME NEW r \in Runs, CancelReads(r) PROVE Typed' /\ Outside
  <2>1. /\ asked' = [run |-> r, ref |-> run[r].at.ref] /\ UNCHANGED <<run, child, wk, notices>>
    BY <1>6 DEF CancelReads
  <2>2. run[r].at.ref \in Children \cup {None}
    BY <1>0 DEF RunRow, Place
  <2> QED
    BY <1>1, <2>1, <2>2 DEF Typed, Outside
<1>7. ASSUME CancelWrites PROVE Typed' /\ Outside
  <2> DEFINE r == asked.run
             new == [run[r] EXCEPT !.status = "cancelled", !.cancel = TRUE]
  <2>1. /\ r # None /\ asked' = NobodyAsks /\ child' = Told(asked.ref) /\ UNCHANGED <<wk, notices>>
        /\ run' = [run EXCEPT ![r].status = "cancelled", ![r].cancel = TRUE]
    BY <1>7 DEF CancelWrites
  <2>2. r \in Runs /\ asked.ref \in Children \cup {None}
    BY <1>0, <2>1
  <2>3. run' = [run EXCEPT ![r] = new]
    BY <1>0, <2>1, <2>2
  <2>4. new \in RunRow /\ new.status = "cancelled" /\ new.at = run[r].at
    <3>1. run[r] \in RunRow /\ "cancelled" \in Statuses
      BY <1>0, <2>2 DEF Statuses, Ended
    <3> HIDE DEF r
    <3> QED
      BY <3>1 DEF RunRow
  <2>5. child' \in [Children -> ChildRow] /\ Calmer
    BY <2>1, <2>2, ToldTyped
  <2>6. asked' \in [run : Runs \cup {None}, ref : Children \cup {None}]
    BY <2>1 DEF NobodyAsks
  <2> HIDE DEF new, r
  <2> QED
    BY <1>2, <2>1, <2>2, <2>3, <2>4, <2>5, <2>6
<1>8. ASSUME child' \in [Children -> ChildRow], Calmer, UNCHANGED <<run, wk, asked, notices>>
      PROVE  Typed' /\ Outside
  BY <1>8 DEF Typed, Outside
<1>9. ASSUME NEW c \in Children, NEW new \in ChildRow, child' = [child EXCEPT ![c] = new],
             new.status \in Live => new.by = None \/ (child[c].status \in Live /\ child[c].by = new.by)
      PROVE  child' \in [Children -> ChildRow] /\ Calmer
  <2>1. child'[c] = new /\ \A d \in Children \ {c} : child'[d] = child[d]
    BY <1>0, <1>9
  <2> QED
    BY <1>0, <1>9, <2>1, Constants DEF Calmer
<1>10. ASSUME NEW c \in Children, ChildMoves(c) PROVE Typed' /\ Outside
  <2>1. PICK s \in Statuses : child[c].status \in Live /\ child' = [child EXCEPT ![c].status = s]
    BY <1>10 DEF ChildMoves, Statuses, Live
  <2> DEFINE new == [child[c] EXCEPT !.status = s]
  <2>2. new \in ChildRow /\ new.by = child[c].by /\ child' = [child EXCEPT ![c] = new]
    BY <1>0, <2>1 DEF ChildRow
  <2> HIDE DEF new
  <2> QED
    BY <1>8, <1>9, <1>10, <2>1, <2>2 DEF ChildMoves
<1>11. ASSUME NEW c \in Children, CancelChild(c) PROVE Typed' /\ Outside
  BY <1>8, <1>11, ToldTyped DEF CancelChild
<1>12. ASSUME NEW c \in Children, NEW i \in DOMAIN Actions, StartChild(c, Actions[i]) PROVE Typed' /\ Outside
  <2> DEFINE new == [NoChild EXCEPT !.kind = Actions[i], !.status = "queued"]
  <2>1. Actions[i] \in {"sync", "validate"}
    <3>1. Actions[i] \in {"sync", "validate", "notify"}
      BY WorkflowAssumption
    <3> QED
      BY <1>12, <3>1 DEF StartChild
  <2>2. new \in ChildRow /\ new.by = None
    BY <2>1, Constants DEF ChildRow, Statuses, Live
  <2>3. child' = [child EXCEPT ![c] = new] /\ UNCHANGED <<run, wk, asked, notices>>
    BY <1>12 DEF StartChild
  <2> HIDE DEF new
  <2> QED
    BY <1>8, <1>9, <2>2, <2>3
<1> QED
  BY <1>3, <1>4, <1>5, <1>6, <1>7, <1>10, <1>11, <1>12

\* Work of a worker.
LEMMA WorkTyped ==
  ASSUME Typed, NEW w \in Workers, Claim(w) \/ Process(w) \/ Raise(w) \/ Crash(w)
  PROVE  Typed' /\ (Outside \/ Worked(w))
<1> DEFINE r == wk[w].run
<1>0. /\ run \in [Runs -> RunRow] /\ child \in [Children -> ChildRow]
      /\ wk \in [Workers -> WorkerRow] /\ wk[w] \in WorkerRow /\ wk[w].at \in Place /\ wk[w].said \in SUBSET Steps
      /\ \A k \in Runs : run[k] \in RunRow /\ run[k].at \in Place
      /\ wk[w].pc # "idle" => r \in Runs
      /\ notices \in [Runs -> [Steps -> Nat]]
      /\ \A v \in Workers : wk[v].pc = "idle" <=> wk[v].run = None
      /\ asked \in [run : Runs \cup {None}, ref : Children \cup {None}]
  BY DEF Typed, WorkerRow, RunRow
<1>a. child' = child => Calmer
  BY DEF Calmer
<1>b. ASSUME NEW new \in WorkerRow, wk' = [wk EXCEPT ![w] = new], new.pc = "idle" <=> new.run = None
      PROVE  /\ wk' \in [Workers -> WorkerRow] /\ wk'[w] = new /\ OthersOf(w)
             /\ \A v \in Workers : wk'[v].pc = "idle" <=> wk'[v].run = None
  BY <1>0, <1>b DEF OthersOf
<1>c. ASSUME NEW k \in Runs, NEW new \in RunRow, run' = [run EXCEPT ![k] = new]
      PROVE  run' \in [Runs -> RunRow] /\ run'[k] = new /\ OtherRuns(k)
  BY <1>0, <1>c DEF OtherRuns
<1>1. CASE Claim(w)
  <2>1. PICK k \in Runs :
          /\ run[k].status = "queued" \/ (run[k].status = "running" /\ \A v \in Workers : wk[v].run # k)
          /\ IF run[k].cancel /\ run[k].status = "queued"
               THEN run' = [run EXCEPT ![k].status = "cancelled"] /\ UNCHANGED wk
               ELSE /\ run' = [run EXCEPT ![k].status = "running", ![k].attempts = @ + 1]
                    /\ wk' = [wk EXCEPT ![w] = [Idle EXCEPT !.pc = "claimed", !.run = k]]
    BY <1>1 DEF Claim
  <2>2. wk[w].pc = "idle" /\ UNCHANGED <<child, asked, notices>>
    BY <1>1 DEF Claim
  <2>3. CASE run[k].cancel /\ run[k].status = "queued"
    <3> DEFINE new == [run[k] EXCEPT !.status = "cancelled"]
    <3>1. new \in RunRow /\ new.status = "cancelled" /\ new.at = run[k].at
      BY <1>0 DEF RunRow, Statuses, Ended
    <3>2. run' = [run EXCEPT ![k] = new] /\ wk' = wk
      BY <2>1, <2>3
    <3> HIDE DEF new
    <3>3. run' \in [Runs -> RunRow] /\ run'[k] = new /\ OtherRuns(k)
      BY <1>c, <3>1, <3>2
    <3>4. Outside
      BY <1>a, <2>2, <3>1, <3>2, <3>3 DEF Outside, OtherRuns
    <3> QED
      BY <1>0, <2>2, <3>2, <3>3, <3>4 DEF Typed
  <2>4. CASE ~(run[k].cancel /\ run[k].status = "queued")
    <3> DEFINE new == [run[k] EXCEPT !.status = "running", !.attempts = @ + 1]
               work == [Idle EXCEPT !.pc = "claimed", !.run = k]
    <3>1. new \in RunRow /\ new.status = "running" /\ new.at = run[k].at
      <4>1. run[k] \in RunRow /\ run[k].attempts + 1 \in Nat /\ "running" \in Statuses
        BY <1>0 DEF RunRow, Statuses, Live
      <4> QED
        BY <4>1 DEF RunRow
    <3>2. work \in WorkerRow /\ work.pc = "claimed" /\ work.run = k /\ work.said = {}
      BY Constants DEF WorkerRow
    <3>3. run' = [run EXCEPT ![k] = new] /\ wk' = [wk EXCEPT ![w] = work]
      BY <1>0, <2>1, <2>4
    <3> HIDE DEF new, work
    <3>4. run' \in [Runs -> RunRow] /\ run'[k] = new /\ OtherRuns(k)
      BY <1>c, <3>1, <3>3
    <3>5. /\ wk' \in [Workers -> WorkerRow] /\ wk'[w] = work /\ OthersOf(w)
          /\ \A v \in Workers : wk'[v].pc = "idle" <=> wk'[v].run = None
      BY <1>b, <3>2, <3>3, Constants
    <3>6. Claimed(w, k)
      BY <2>1, <2>2, <3>1, <3>2, <3>4, <3>5 DEF Claimed
    <3> QED
      BY <1>0, <2>2, <3>4, <3>5, <3>6 DEF Typed, Worked
  <2> QED
    BY <2>3, <2>4
<1>2. ASSUME NEW k \in Runs, k = r, wk[w].pc # "idle", wk' = [wk EXCEPT ![w] = Idle], NEW new \in RunRow,
             run' = [run EXCEPT ![k] = new], new.at = run[k].at,
             new.status \in {run[k].status, "queued", "failed", "cancelled"},
             notices' = notices, asked' = asked, Calmer, child' \in [Children -> ChildRow]
      PROVE  Typed' /\ Released(w)
  <2>1. run' \in [Runs -> RunRow] /\ run'[k] = new /\ OtherRuns(k)
    BY <1>c, <1>2
  <2>2. /\ wk' \in [Workers -> WorkerRow] /\ wk'[w] = Idle /\ OthersOf(w)
        /\ \A v \in Workers : wk'[v].pc = "idle" <=> wk'[v].run = None
    BY <1>b, <1>2, Constants
  <2> QED
    BY <1>0, <1>2, <2>1, <2>2 DEF Typed, Released
<1>3. CASE Raise(w)
  <2> DEFINE status == IF run[r].attempts < MaxAttempts THEN "queued" ELSE "failed"
             new == [run[r] EXCEPT !.status = status]
  <2>1. /\ wk[w].pc # "idle" /\ wk' = [wk EXCEPT ![w] = Idle] /\ notices' = notices
        /\ run' = [run EXCEPT ![r].status = status] /\ UNCHANGED <<child, asked>>
    BY <1>3 DEF Raise, Survives
  <2>2. status \in Statuses /\ status \in {"queued", "failed"}
    BY DEF Statuses, Live, Ended
  <2> HIDE DEF status
  <2>3. run' = [run EXCEPT ![r] = new] /\ new \in RunRow /\ new.status = status /\ new.at = run[r].at
    BY <1>0, <2>1, <2>2 DEF RunRow
  <2> HIDE DEF new
  <2> QED
    BY <1>0, <1>a, <1>2, <2>1, <2>2, <2>3 DEF Worked
<1>4. CASE Crash(w)
  <2>1. /\ wk[w].pc # "idle" /\ wk' = [wk EXCEPT ![w] = Idle] /\ UNCHANGED <<run, child, asked, notices>>
    BY <1>4 DEF Crash
  <2>2. run' = [run EXCEPT ![r] = run[r]] /\ run[r] \in RunRow
    BY <1>0, <2>1
  <2> QED
    BY <1>0, <1>a, <1>2, <2>1, <2>2 DEF Worked
<1>5. CASE Begin(w)
  <2>1. wk[w].pc = "claimed" /\ asked' = asked /\ r \in Runs
    BY <1>0, <1>5 DEF Begin
  <2>2. CASE run[r].cancel
    <3> DEFINE new == [run[r] EXCEPT !.status = "cancelled"]
    <3>1. /\ child' = Told(run[r].at.ref) /\ run' = [run EXCEPT ![r].status = "cancelled"]
          /\ wk' = [wk EXCEPT ![w] = Idle] /\ notices' = notices
      BY <1>5, <2>2 DEF Begin
    <3>2. run' = [run EXCEPT ![r] = new] /\ new \in RunRow /\ new.status = "cancelled" /\ new.at = run[r].at
      BY <1>0, <2>1, <3>1 DEF RunRow, Statuses, Ended
    <3>3. run[r].at.ref \in Children \cup {None}
      BY <1>0, <2>1 DEF Place
    <3>4. child' \in [Children -> ChildRow] /\ Calmer
      BY <3>1, <3>3, ToldTyped
    <3> HIDE DEF new
    <3> QED
      BY <1>0, <1>2, <2>1, <3>1, <3>2, <3>4 DEF Worked
  <2>3. CASE ~run[r].cancel
    <3> DEFINE new == [wk[w] EXCEPT !.pc = "stepping", !.at = run[r].at]
    <3>1. wk' = [wk EXCEPT ![w].pc = "stepping", ![w].at = run[r].at] /\ UNCHANGED <<run, child, notices>>
      BY <1>5, <2>3 DEF Begin
    <3>2. /\ wk' = [wk EXCEPT ![w] = new] /\ new \in WorkerRow
          /\ new.pc = "stepping" /\ new.run = r /\ new.at = run[r].at /\ new.said = wk[w].said
      BY <1>0, <2>1, <3>1 DEF WorkerRow
    <3> HIDE DEF new
    <3>3. /\ wk' \in [Workers -> WorkerRow] /\ wk'[w] = new /\ OthersOf(w)
          /\ \A v \in Workers : wk'[v].pc = "idle" <=> wk'[v].run = None
      BY <1>0, <1>b, <2>1, <3>2, Constants
    <3>4. Opened(w)
      BY <2>1, <3>1, <3>2, <3>3 DEF Opened
    <3> QED
      BY <1>0, <2>1, <3>1, <3>3, <3>4 DEF Typed, Worked
  <2> QED
    BY <2>2, <2>3
\* The commits, and a step that is done.
<1>6. ASSUME wk[w].pc = "stepping", NEW status \in Statuses, NEW attempts \in Nat, NEW at \in Place,
             NEW said \in SUBSET Steps, Commits(w, status, attempts, at, said),
             at.cursor = wk[w].at.cursor, asked' = asked, child' \in [Children -> ChildRow],
             \/ status = "queued" /\ said = wk[w].said /\ at.cursor <= Len(Actions) /\ Waits(w, at)
             \/ /\ status \in Ended /\ said \in {wk[w].said, wk[w].said \cup {FailureBranch}}
                /\ at = wk[w].at /\ child' = child
      PROVE  Typed' /\ Worked(w)
  <2>1. Typed'
    BY <1>0, <1>6, CommitTyped DEF Typed
  <2>2. Saved(w, status, at, said)
    BY <1>6, CommitTyped DEF Saved
  <2> QED
    BY <2>1, <2>2 DEF Worked
<1>7. ASSUME Stepping(w), NEW at \in Place, Requeues(w, at), at.cursor = wk[w].at.cursor, asked' = asked,
             child' \in [Children -> ChildRow], Waits(w, at)
      PROVE  Typed' /\ Worked(w)
  <2> DEFINE made == run[r].attempts
             attempts == IF made > 0 THEN made - 1 ELSE 0
  <2>1. wk[w].pc = "stepping" /\ wk[w].at.cursor <= Len(Actions) /\ r \in Runs
    BY <1>0, <1>7 DEF Stepping
  <2>2. attempts \in Nat
    BY <1>0, <2>1 DEF RunRow
  <2>3. Commits(w, "queued", attempts, at, wk[w].said)
    BY <1>7 DEF Requeues
  <2>4. "queued" \in Statuses
    BY DEF Statuses, Live
  <2> HIDE DEF attempts
  <2> QED
    BY <1>0, <1>6, <1>7, <2>1, <2>2, <2>3, <2>4
<1>8. ASSUME wk[w].pc = "stepping", NEW status \in Ended, NEW said \in SUBSET Steps, Finishes(w, status, said),
             said \in {wk[w].said, wk[w].said \cup {FailureBranch}}, UNCHANGED <<child, asked>>
      PROVE  Typed' /\ Worked(w)
  <2>1. status \in Statuses /\ run[r].attempts \in Nat /\ wk[w].at \in Place
    BY <1>0, <1>8 DEF Statuses, RunRow
  <2>2. Commits(w, status, run[r].attempts, wk[w].at, said)
    BY <1>8 DEF Finishes
  <2> QED
    BY <1>0, <1>6, <1>8, <2>1, <2>2
<1>9. ASSUME wk[w].pc = "stepping", Fails(w), UNCHANGED <<child, asked>>
      PROVE  Typed' /\ Worked(w)
  <2>1. wk[w].said \cup {FailureBranch} \in SUBSET Steps /\ "failed" \in Ended
    BY <1>0, Constants DEF Ended
  <2> QED
    BY <1>8, <1>9, <2>1 DEF Fails
<1>10. ASSUME Stepping(w), NEW tries \in Nat, StepFails(w, tries), UNCHANGED <<child, asked>>,
              wk[w].at.ref = None \/ child[wk[w].at.ref].status \notin Live
       PROVE  Typed' /\ Worked(w)
  <2> DEFINE at == [wk[w].at EXCEPT !.ref = None, !.tries = tries]
  <2>1. at \in Place /\ at.cursor = wk[w].at.cursor /\ at.ref = None
    BY <1>0 DEF Place
  <2>2. Requeues(w, at) \/ Fails(w)
    BY <1>10 DEF StepFails
  <2> HIDE DEF at
  <2>3. Waits(w, at)
    BY <1>10, <2>1 DEF Waits
  <2> QED
    BY <1>0, <1>7, <1>9, <1>10, <2>1, <2>2, <2>3 DEF Stepping
<1>11. ASSUME Stepping(w), NEW said \in SUBSET {wk[w].at.cursor}, StepDone(w, said), UNCHANGED <<child, asked>>,
              Action(w) = "notify" \/ (wk[w].at.ref # None /\ child[wk[w].at.ref].status \notin Live)
       PROVE  Typed' /\ Worked(w)
  <2> DEFINE at == [Start EXCEPT !.cursor = wk[w].at.cursor + 1]
             new == [wk[w] EXCEPT !.at = at, !.said = wk[w].said \cup said]
  <2>1. wk[w].pc = "stepping" /\ wk[w].at.cursor \in Steps /\ wk[w].at.cursor + 1 \in Steps /\ r \in Runs
    BY <1>0, <1>11, Constants DEF Stepping, Place, Steps
  <2>2. at \in Place /\ at.cursor = wk[w].at.cursor + 1 /\ at.ref = None
    BY <2>1, Constants DEF Place
  <2>3. wk' = [wk EXCEPT ![w].at = at, ![w].said = wk[w].said \cup said] /\ UNCHANGED <<run, notices>>
    BY <1>0, <1>11 DEF StepDone
  <2> HIDE DEF at
  <2>4. /\ wk' = [wk EXCEPT ![w] = new] /\ new \in WorkerRow
        /\ new.pc = "stepping" /\ new.run = r /\ new.at = at /\ new.said = wk[w].said \cup said
    BY <1>0, <2>1, <2>2, <2>3 DEF WorkerRow
  <2> HIDE DEF new
  <2>5. /\ wk' \in [Workers -> WorkerRow] /\ wk'[w] = new /\ OthersOf(w)
        /\ \A v \in Workers : wk'[v].pc = "idle" <=> wk'[v].run = None
    BY <1>0, <1>b, <2>1, <2>4, Constants
  <2>6. Advanced(w)
    BY <1>11, <2>2, <2>3, <2>4, <2>5 DEF Advanced
  <2> QED
    BY <1>0, <1>11, <2>3, <2>5, <2>6 DEF Typed, Worked
<1>12. CASE TimesOut(w)
  BY <1>9, <1>12 DEF TimesOut, Stepping
<1>13. CASE StartStep(w)
  <2> DEFINE tries == wk[w].at.tries + 1
             at(c) == [wk[w].at EXCEPT !.tries = tries, !.ref = c]
  <2>1. /\ Stepping(w) /\ Action(w) # "notify" /\ wk[w].at.ref = None /\ asked' = asked
        /\ \/ \E c \in NextChild :
                /\ child' = [child EXCEPT ![c] = [NoChild EXCEPT !.kind = Action(w), !.status = "queued", !.by = r]]
                /\ Requeues(w, Referring([wk[w].at EXCEPT !.tries = tries], c))
           \/ \E c \in LiveOf(Action(w)) :
                Requeues(w, Referring([wk[w].at EXCEPT !.tries = tries], c)) /\ UNCHANGED child
           \/ StepFails(w, tries) /\ UNCHANGED child
    BY <1>13 DEF StartStep
  <2>2. tries \in Nat /\ r \in Runs
    BY <1>0, <2>1 DEF Place, Stepping
  <2>3. ASSUME NEW c \in Children
        PROVE  /\ at(c) \in Place /\ at(c).cursor = wk[w].at.cursor /\ at(c).ref = c
               /\ Referring([wk[w].at EXCEPT !.tries = tries], c) = at(c)
    BY <1>0, <2>2 DEF Place, Referring
  <2> HIDE DEF at
  <2>4. ASSUME NEW c \in NextChild,
               child' = [child EXCEPT ![c] = [NoChild EXCEPT !.kind = Action(w), !.status = "queued", !.by = r]],
               Requeues(w, at(c))
        PROVE  Typed' /\ Worked(w)
    <3> DEFINE new == [NoChild EXCEPT !.kind = Action(w), !.status = "queued", !.by = r]
    <3>1. Action(w) \in {"sync", "validate"}
      <4>1. wk[w].at.cursor \in 1..Len(Actions)
        BY <1>0, <2>1, Constants DEF Stepping, Place, Steps
      <4> QED
        BY <2>1, <4>1, WorkflowAssumption DEF Action
    <3>2. new \in ChildRow /\ new.by = r
      BY <2>2, <3>1, Constants DEF ChildRow, Statuses, Live
    <3>3. c \in Children
      BY DEF NextChild
    <3> HIDE DEF new
    <3>4. child' \in [Children -> ChildRow] /\ child'[c] = new /\ \A d \in Children \ {c} : child'[d] = child[d]
      BY <1>0, <2>4, <3>2, <3>3 DEF new
    <3>5. Waits(w, at(c))
      BY <2>1, <2>3, <3>2, <3>3, <3>4 DEF Waits
    <3> QED
      BY <1>7, <2>1, <2>3, <2>4, <3>3, <3>4, <3>5
  <2>5. ASSUME NEW c \in LiveOf(Action(w)), Requeues(w, at(c)), UNCHANGED child
        PROVE  Typed' /\ Worked(w)
    <3>1. c \in Children
      BY DEF LiveOf
    <3>2. Waits(w, at(c))
      BY <2>1, <2>3, <2>5, <3>1 DEF Waits
    <3> QED
      BY <1>0, <1>7, <2>1, <2>3, <2>5, <3>1, <3>2
  <2>6. ASSUME StepFails(w, tries), UNCHANGED child PROVE Typed' /\ Worked(w)
    <3> HIDE DEF tries
    <3> QED
      BY <1>10, <2>1, <2>2, <2>6
  <2>7. NextChild \subseteq Children /\ LiveOf(Action(w)) \subseteq Children
    BY DEF NextChild, LiveOf
  <2> HIDE DEF tries
  <2> QED
    BY <2>1, <2>3, <2>4, <2>5, <2>6, <2>7
<1>14. CASE CheckStep(w)
  <2> DEFINE c == wk[w].at.ref
  <2>1. /\ Stepping(w) /\ c # None /\ UNCHANGED <<child, asked>>
        /\ \/ Requeues(w, wk[w].at)
           \/ child[c].status \notin Live /\ StepDone(w, {})
           \/ child[c].status \notin Live /\ StepFails(w, wk[w].at.tries)
    BY <1>14 DEF CheckStep, Live, Ended
  <2>2. wk[w].at.tries \in Nat
    BY <1>0 DEF Place
  <2>3. child' = child => Waits(w, wk[w].at)
    BY DEF Waits
  <2> HIDE DEF c
  <2>4. CASE Requeues(w, wk[w].at)
    BY <1>0, <1>7, <2>1, <2>3, <2>4
  <2>5. CASE child[c].status \notin Live /\ StepDone(w, {})
    BY <1>11, <2>1, <2>5 DEF c
  <2>6. CASE child[c].status \notin Live /\ StepFails(w, wk[w].at.tries)
    BY <1>10, <2>1, <2>2, <2>6 DEF c
  <2> QED
    BY <2>1, <2>4, <2>5, <2>6
<1>15. CASE Notify(w)
  BY <1>11, <1>15 DEF Notify
<1>16. CASE Complete(w)
  <2>1. PICK s \in {"completed", "partially_completed"} : Finishes(w, s, wk[w].said)
    BY <1>16 DEF Complete
  <2>2. wk[w].pc = "stepping" /\ UNCHANGED <<child, asked>> /\ s \in Ended
    BY <1>16 DEF Complete, Ended
  <2> QED
    BY <1>0, <1>8, <2>1, <2>2
<1> QED
  BY <1>1, <1>3, <1>4, <1>5, <1>12, <1>13, <1>14, <1>15, <1>16 DEF Process

\* The types are kept, and every step is one of these.
LEMMA StepTyped ==
  ASSUME Typed, Next
  PROVE  Typed' /\ (Outside \/ \E w \in Workers : Worked(w))
<1>1. ASSUME NEW w \in Workers, Claim(w) \/ Process(w) \/ Raise(w) \/ Crash(w)
      PROVE  Typed' /\ (Outside \/ \E v \in Workers : Worked(v))
  BY <1>1, WorkTyped
<1>2. CASE \E w \in Workers : Claim(w) \/ Process(w) \/ Raise(w) \/ Crash(w)
  BY <1>1, <1>2
<1>3. CASE ~\E w \in Workers : Claim(w) \/ Process(w) \/ Raise(w) \/ Crash(w)
  BY <1>3, OutsideTyped DEF Next
<1> QED
  BY <1>2, <1>3

\* Runs, their children, the sessions of the workers and the notices keep their types, and a
\* session has a run exactly while it is not idle.
THEOREM TypeCorrect == Spec => []Typed
<1>1. Init => Typed
  <2> SUFFICES ASSUME Init PROVE Typed
    OBVIOUS
  <2>1. NobodyAsks \in [run : Runs \cup {None}, ref : Children \cup {None}]
    BY DEF NobodyAsks
  <2>2. notices \in [Runs -> [Steps -> Nat]]
    BY DEF Init, Steps
  <2> QED
    BY <2>1, <2>2, Constants DEF Init, Typed
<1>2. Typed /\ [Next]_vars => Typed'
  <2>1. CASE UNCHANGED vars
    BY <2>1 DEF vars, Typed
  <2> QED
    BY <2>1, StepTyped
<1> QED
  BY <1>1, <1>2, PTL DEF Spec

--------------------------------------------------------------------------------
(* Each step takes effect once.                                            *)

\* A worker that has a run is the only one, and the run is running, or cancelled meanwhile.
OneWorkerEach ==
  /\ \A w \in Workers : wk[w].run # None => run[wk[w].run].status \in {"running", "cancelled"}
  /\ \A w, v \in Workers : wk[w].run = wk[v].run /\ wk[w].run # None => w = v

\* What a run has announced lies behind it; its failure branch is the end of it.
AnnouncedIsBehind ==
  \A r \in Runs :
    /\ run[r].status = "absent" => run[r].at = Start
    /\ \A s \in Steps : notices[r][s] <= 1
    /\ \A s \in 1..Len(Actions) : notices[r][s] > 0 => s < run[r].at.cursor
    /\ notices[r][FailureBranch] > 0 =>
         run[r].status \in Ended /\ \A w \in Workers : wk[w].run # r

\* What a session is about to announce lies between where its run is and where it has got.
SaidIsBetween ==
  \A w \in Workers :
    /\ wk[w].pc = "claimed" => wk[w].said = {}
    /\ wk[w].pc = "stepping" =>
         \A s \in wk[w].said : run[wk[w].run].at.cursor <= s /\ s < wk[w].at.cursor /\ s <= Len(Actions)
    /\ wk[w].pc = "stepping" => run[wk[w].run].at.cursor <= wk[w].at.cursor

\* The inductive invariant.
StepInvariant == OneWorkerEach /\ AnnouncedIsBehind /\ SaidIsBetween

\* How often a step was announced after a commit.
LEMMA SaidOnce ==
  ASSUME Typed, NEW r \in Runs, NEW said, notices' = Said(r, said), NEW s \in Steps
  PROVE  /\ notices'[r][s] = IF s \in said THEN notices[r][s] + 1 ELSE notices[r][s]
         /\ notices[r][s] \in Nat
         /\ \A k \in Runs \ {r} : notices'[k] = notices[k]
  BY DEF Typed, Said, Steps

LEMMA StepStep ==
  ASSUME Typed, StepInvariant, [Next]_vars
  PROVE  StepInvariant'
<1>a. OneWorkerEach /\ AnnouncedIsBehind /\ SaidIsBetween
  BY DEF StepInvariant
<1>b. \A at \in Place : at.cursor \in Nat
  BY Constants DEF Place
<1>c. \A k \in Runs : run[k] \in RunRow /\ run[k].at \in Place
  BY DEF Typed, RunRow
<1>d. \A k \in Runs : run[k].at.cursor \in Nat
  BY <1>b, <1>c
<1>e. \A w \in Workers : wk[w] \in WorkerRow /\ wk[w].at \in Place
  BY DEF Typed, WorkerRow
<1>f. \A w \in Workers : wk[w].at.cursor \in Nat
  BY <1>b, <1>e
<1>g. \A w \in Workers : /\ wk[w].said \subseteq Steps
                         /\ (wk[w].pc = "idle") <=> (wk[w].run = None)
                         /\ wk[w].pc # "idle" => wk[w].run \in Runs
  BY DEF Typed, WorkerRow
<1>h. \A k \in Runs, s \in Steps : notices[k][s] \in Nat
  BY DEF Typed
<1>1. CASE UNCHANGED vars
  BY <1>1 DEF vars, StepInvariant, OneWorkerEach, AnnouncedIsBehind, SaidIsBetween
<1>2. CASE Outside
  <2>1. OneWorkerEach'
    BY <1>a, <1>c, <1>d, <1>e, <1>f, <1>g, <1>h, <1>2 DEF Outside, OneWorkerEach
  <2>2. \A r \in Runs : run'[r].at = run[r].at
    BY <1>a, <1>c, <1>d, <1>e, <1>f, <1>g, <1>h, <1>2 DEF Outside, AnnouncedIsBehind
  <2>3. AnnouncedIsBehind'
    <3> SUFFICES ASSUME NEW r \in Runs
                 PROVE  /\ run'[r].status = "absent" => run'[r].at = Start
                        /\ notices[r][FailureBranch] > 0 =>
                             run'[r].status \in Ended /\ \A w \in Workers : wk[w].run # r
      BY <1>a, <1>c, <1>d, <1>e, <1>f, <1>g, <1>h, <1>2, <2>2 DEF Outside, AnnouncedIsBehind
    <3> QED
      BY <1>a, <1>c, <1>d, <1>e, <1>f, <1>g, <1>h, <1>2, <2>2 DEF Outside, AnnouncedIsBehind, Ended
  <2>4. SaidIsBetween'
    BY <1>a, <1>c, <1>d, <1>e, <1>f, <1>g, <1>h, <1>2, <2>2 DEF Outside, SaidIsBetween
  <2> QED
    BY <2>1, <2>3, <2>4 DEF StepInvariant
<1>3. ASSUME NEW w \in Workers, Worked(w) PROVE StepInvariant'
  <2>1. ASSUME NEW r \in Runs, Claimed(w, r) PROVE StepInvariant'
    \* The run was queued, or its worker died: nobody had it.
    <3>1. \A v \in Workers : wk[v].run # r
      BY <1>a, <1>c, <1>d, <1>e, <1>f, <1>g, <1>h, <2>1, Constants DEF Claimed, OneWorkerEach
    <3>2. OneWorkerEach'
      BY <1>a, <1>c, <1>d, <1>e, <1>f, <1>g, <1>h, <2>1, <3>1 DEF Claimed, OneWorkerEach, OthersOf, OtherRuns
    <3>3. AnnouncedIsBehind'
      <4>1. ~(notices[r][FailureBranch] > 0)
        BY <1>a, <1>c, <1>d, <1>e, <1>f, <1>g, <1>h, <2>1 DEF Claimed, AnnouncedIsBehind, Ended
      <4> QED
        BY <1>a, <1>c, <1>d, <1>e, <1>f, <1>g, <1>h, <2>1, <4>1 DEF Claimed, AnnouncedIsBehind, OthersOf, OtherRuns
    <3>4. SaidIsBetween'
      BY <1>a, <1>c, <1>d, <1>e, <1>f, <1>g, <1>h, <2>1, <3>1 DEF Claimed, SaidIsBetween, OthersOf, OtherRuns
    <3> QED
      BY <3>2, <3>3, <3>4 DEF StepInvariant
  <2>2. CASE Opened(w)
    <3>1. OneWorkerEach' /\ AnnouncedIsBehind'
      BY <1>a, <1>c, <1>d, <1>e, <1>f, <1>g, <1>h, <2>2 DEF Opened, OneWorkerEach, AnnouncedIsBehind, OthersOf
    <3>2. SaidIsBetween'
      BY <1>a, <1>c, <1>d, <1>e, <1>f, <1>g, <1>h, <2>2 DEF Opened, SaidIsBetween, OthersOf
    <3> QED
      BY <3>1, <3>2 DEF StepInvariant
  <2>3. CASE Advanced(w)
    <3>1. OneWorkerEach' /\ AnnouncedIsBehind'
      BY <1>a, <1>c, <1>d, <1>e, <1>f, <1>g, <1>h, <2>3 DEF Advanced, OneWorkerEach, AnnouncedIsBehind, OthersOf
    <3>2. SaidIsBetween'
      <4> SUFFICES ASSUME NEW v \in Workers
                   PROVE  /\ wk'[v].pc = "claimed" => wk'[v].said = {}
                          /\ wk'[v].pc = "stepping" =>
                               \A s \in wk'[v].said : /\ run[wk'[v].run].at.cursor <= s
                                                      /\ s < wk'[v].at.cursor /\ s <= Len(Actions)
                          /\ wk'[v].pc = "stepping" => run[wk'[v].run].at.cursor <= wk'[v].at.cursor
        BY <2>3 DEF Advanced, SaidIsBetween
      <4>1. CASE v # w
        BY <1>a, <1>c, <1>d, <1>e, <1>f, <1>g, <1>h, <2>3, <4>1 DEF Advanced, SaidIsBetween, OthersOf
      <4>2. CASE v = w
        <5>1. /\ wk'[w].pc = "stepping" /\ wk[w].pc = "stepping" /\ wk'[w].run = wk[w].run
              /\ wk[w].at.cursor <= Len(Actions) /\ wk'[w].at.cursor = wk[w].at.cursor + 1
              /\ wk'[w].said \subseteq wk[w].said \cup {wk[w].at.cursor}
          BY <2>3 DEF Advanced, Stepping
        <5>2. /\ wk[w].at.cursor \in Nat /\ wk[w].run \in Runs /\ run[wk[w].run].at.cursor \in Nat
              /\ \A s \in wk[w].said : s \in Nat
          BY <1>a, <1>c, <1>d, <1>e, <1>f, <1>g, <1>h, <5>1, Constants
        <5>3. /\ run[wk[w].run].at.cursor <= wk[w].at.cursor
              /\ \A s \in wk[w].said : run[wk[w].run].at.cursor <= s /\ s < wk[w].at.cursor /\ s <= Len(Actions)
          BY <1>a, <1>c, <1>d, <1>e, <1>f, <1>g, <1>h, <5>1 DEF SaidIsBetween
        <5> QED
          BY <4>2, <5>1, <5>2, <5>3
      <4> QED
        BY <4>1, <4>2
    <3> QED
      BY <3>1, <3>2 DEF StepInvariant
  <2>4. CASE Released(w)
    <3> DEFINE r == wk[w].run
    <3>1. /\ r \in Runs /\ wk'[w] = Idle /\ \A v \in Workers \ {w} : wk'[v] = wk[v] /\ wk[v].run # r
          /\ run'[r].at = run[r].at /\ \A k \in Runs \ {r} : run'[k] = run[k]
          /\ run'[r].status \in {"running", "queued", "failed", "cancelled"} /\ notices' = notices
      BY <1>a, <1>c, <1>d, <1>e, <1>f, <1>g, <1>h, <2>4 DEF Released, OneWorkerEach, OthersOf, OtherRuns
    <3>2. notices[r][FailureBranch] <= 0
      BY <1>a, <1>c, <1>d, <1>e, <1>f, <1>g, <1>h, <2>4, Constants DEF Released, AnnouncedIsBehind
    <3> HIDE DEF r
    <3>3. OneWorkerEach'
      BY <1>a, <1>c, <1>d, <1>e, <1>f, <1>g, <1>h, <3>1, Constants DEF OneWorkerEach
    <3>4. AnnouncedIsBehind'
      <4> SUFFICES ASSUME NEW k \in Runs
                   PROVE  /\ run'[k].status = "absent" => run'[k].at = Start
                          /\ run'[k].at = run[k].at
                          /\ notices[k][FailureBranch] > 0 =>
                               run'[k].status \in Ended /\ \A v \in Workers : wk'[v].run # k
        BY <1>a, <1>c, <1>d, <1>e, <1>f, <1>g, <1>h, <3>1 DEF AnnouncedIsBehind
      <4>1. CASE k = r
        BY <1>a, <1>c, <1>d, <1>e, <1>f, <1>g, <1>h, <3>1, <3>2, <4>1, Constants
      <4>2. CASE k # r
        BY <1>a, <1>c, <1>d, <1>e, <1>f, <1>g, <1>h, <3>1, <4>2, Constants DEF AnnouncedIsBehind
      <4> QED
        BY <4>1, <4>2
    <3>5. SaidIsBetween'
      BY <1>a, <1>c, <1>d, <1>e, <1>f, <1>g, <1>h, <3>1, Constants DEF SaidIsBetween
    <3> QED
      BY <3>3, <3>4, <3>5 DEF StepInvariant
  <2>5. ASSUME NEW status \in Statuses, NEW at \in Place, NEW said \in SUBSET Steps, Saved(w, status, at, said)
        PROVE  StepInvariant'
    <3> DEFINE r == wk[w].run
    <3>1. /\ r \in Runs /\ wk[w].pc = "stepping" /\ wk'[w] = Idle
          /\ \A v \in Workers \ {w} : wk'[v] = wk[v] /\ wk[v].run # r
          /\ run'[r].status = status /\ run'[r].at = at /\ \A k \in Runs \ {r} : run'[k] = run[k]
          /\ notices' = Said(r, said) /\ at.cursor = wk[w].at.cursor /\ at.cursor \in Nat
          /\ status \in Ended \cup {"queued"}
          /\ FailureBranch \in said => status \in Ended
          /\ said \subseteq wk[w].said \cup {FailureBranch}
      <4>1. r \in Runs /\ wk[w].pc = "stepping" /\ \A v \in Workers \ {w} : wk[v].run # r
        BY <1>a, <1>c, <1>d, <1>e, <1>f, <1>g, <1>h, <2>5 DEF Saved, OneWorkerEach
      <4>2. FailureBranch \notin wk[w].said
        BY <1>a, <1>c, <1>d, <1>e, <1>f, <1>g, <1>h, <4>1, Constants DEF SaidIsBetween
      <4> QED
        BY <1>a, <1>c, <1>d, <1>e, <1>f, <1>g, <1>h, <2>5, <4>1, <4>2 DEF Saved, OthersOf, OtherRuns
    <3>2. /\ run[r].at.cursor <= wk[w].at.cursor
          /\ \A s \in wk[w].said : run[r].at.cursor <= s /\ s < wk[w].at.cursor /\ s <= Len(Actions)
          /\ ~(notices[r][FailureBranch] > 0)
      BY <1>a, <1>c, <1>d, <1>e, <1>f, <1>g, <1>h, <3>1 DEF SaidIsBetween, AnnouncedIsBehind
    <3> HIDE DEF r
    <3>3. OneWorkerEach'
      BY <1>a, <1>c, <1>d, <1>e, <1>f, <1>g, <1>h, <3>1, Constants DEF OneWorkerEach
    <3>4. SaidIsBetween'
      BY <1>a, <1>c, <1>d, <1>e, <1>f, <1>g, <1>h, <3>1, Constants DEF SaidIsBetween
    \* What it announces now was not announced before, and is behind it now.
    <3>5. ASSUME NEW s \in 1..Len(Actions)
          PROVE  notices'[r][s] <= 1 /\ (notices'[r][s] > 0 => s < at.cursor)
      <4>1. s \in Steps /\ s # FailureBranch /\ s \in Nat
        BY Constants
      <4>2. notices'[r][s] = (IF s \in said THEN notices[r][s] + 1 ELSE notices[r][s]) /\ notices[r][s] \in Nat
        BY <3>1, <4>1, SaidOnce
      <4>3. notices[r][s] <= 1 /\ (notices[r][s] > 0 => s < run[r].at.cursor)
        BY <1>a, <1>c, <1>d, <1>e, <1>f, <1>g, <1>h, <3>1, <4>1 DEF AnnouncedIsBehind
      <4>4. s \in said => run[r].at.cursor <= s /\ s < wk[w].at.cursor
        BY <3>1, <3>2, <4>1
      <4>5. run[r].at.cursor \in Nat /\ wk[w].at.cursor \in Nat
        BY <1>a, <1>c, <1>d, <1>e, <1>f, <1>g, <1>h, <3>1
      <4> QED
        BY <3>1, <3>2, <4>1, <4>2, <4>3, <4>4, <4>5
    <3>6. /\ notices'[r][FailureBranch] <= 1
          /\ notices'[r][FailureBranch] > 0 => status \in Ended
      <4>1. /\ notices'[r][FailureBranch] = (IF FailureBranch \in said THEN notices[r][FailureBranch] + 1
                                            ELSE notices[r][FailureBranch])
            /\ notices[r][FailureBranch] \in Nat
        BY <3>1, Constants, SaidOnce
      <4> QED
        BY <3>1, <3>2, <4>1
    <3>7. \A k \in Runs \ {r} : notices'[k] = notices[k]
      BY <3>1, Constants, SaidOnce
    <3>8. AnnouncedIsBehind'
      <4> SUFFICES ASSUME NEW k \in Runs
                   PROVE  /\ run'[k].status = "absent" => run'[k].at = Start
                          /\ \A s \in Steps : notices'[k][s] <= 1
                          /\ \A s \in 1..Len(Actions) : notices'[k][s] > 0 => s < run'[k].at.cursor
                          /\ notices'[k][FailureBranch] > 0 =>
                               run'[k].status \in Ended /\ \A v \in Workers : wk'[v].run # k
        BY DEF AnnouncedIsBehind
      <4>1. CASE k = r
        <5>1. \A s \in Steps : s \in 1..Len(Actions) \/ s = FailureBranch
          BY Constants DEF Steps
        <5> QED
          BY <3>1, <3>5, <3>6, <4>1, <5>1, Constants DEF Ended
      <4>2. CASE k # r
        <5>1. run'[k] = run[k] /\ notices'[k] = notices[k]
          BY <3>1, <3>7, <4>2
        <5>2. \A v \in Workers : wk[v].run # k => wk'[v].run # k
          BY <3>1, <4>2, Constants
        <5> QED
          BY <1>a, <1>c, <1>d, <1>e, <1>f, <1>g, <1>h, <5>1, <5>2 DEF AnnouncedIsBehind
      <4> QED
        BY <4>1, <4>2
    <3> QED
      BY <3>3, <3>4, <3>8 DEF StepInvariant
  <2> QED
    BY <1>3, <2>1, <2>2, <2>3, <2>4, <2>5 DEF Worked
<1> QED
  BY <1>1, <1>2, <1>3, StepTyped

\* Whatever fails, is retried, times out, is cancelled or dies, a step of a run notifies
\* people at most once, and so does its failure branch.
THEOREM OnceEach == Spec => [](StepInvariant /\ EachStepTakesEffectOnce)
<1>1. Init => StepInvariant
  BY Constants DEF Init, StepInvariant, OneWorkerEach, AnnouncedIsBehind, SaidIsBetween, Steps
<1>2. Typed /\ StepInvariant /\ [Next]_vars => StepInvariant'
  BY StepStep
<1>3. StepInvariant => EachStepTakesEffectOnce
  BY DEF StepInvariant, AnnouncedIsBehind, EachStepTakesEffectOnce, Steps
<1> QED
  BY <1>1, <1>2, <1>3, TypeCorrect, PTL DEF Spec

--------------------------------------------------------------------------------
(* No child is lost.                                                       *)

\* A step that waits is not a notice, in the row and in the session.
WaitsForWork(at) == at.ref # None => at.cursor <= Len(Actions) /\ Actions[at.cursor] # "notify"

\* A live child that a run started is the one it waits for, in the row and in the session
\* of the worker that has it, whatever the row's status is meanwhile.
Known(c, r) ==
  child[c].by = r /\ child[c].status \in Live =>
    /\ run[r].status # "absent"
    /\ run[r].status \in Live \/ (\E w \in Workers : wk[w].run = r) => run[r].at.ref = c
    /\ \A w \in Workers : wk[w].run = r /\ wk[w].pc = "stepping" => wk[w].at.ref = c

\* The inductive invariant.
ChildInvariant ==
  /\ \A r \in Runs : WaitsForWork(run[r].at)
  /\ \A w \in Workers : wk[w].pc = "stepping" => WaitsForWork(wk[w].at)
  /\ \A c \in Children, r \in Runs : Known(c, r)

LEMMA ChildStep ==
  ASSUME Typed, OneWorkerEach, ChildInvariant, [Next]_vars
  PROVE  ChildInvariant'
<1>0. /\ \A w \in Workers : /\ wk[w].pc = "idle" <=> wk[w].run = None
                            /\ wk[w].pc # "idle" => wk[w].run \in Runs
                            /\ wk[w].at.ref \in Children \cup {None}
      /\ \A w \in Workers : wk[w].run # None => run[wk[w].run].status \in {"running", "cancelled"}
      /\ \A w, v \in Workers : wk[w].run = wk[v].run /\ wk[w].run # None => w = v
      /\ \A r \in Runs : WaitsForWork(run[r].at)
      /\ \A w \in Workers : wk[w].pc = "stepping" => WaitsForWork(wk[w].at)
      /\ \A c \in Children, r \in Runs : Known(c, r)
  BY Constants DEF ChildInvariant, Typed, WorkerRow, Place, OneWorkerEach
<1>1. CASE UNCHANGED vars
  BY <1>1 DEF vars, ChildInvariant, Known, WaitsForWork
<1>2. CASE Outside
  <2>1. ASSUME NEW c \in Children, NEW r \in Runs PROVE Known(c, r)'
    <3> SUFFICES ASSUME child'[c].by = r, child'[c].status \in Live
                 PROVE  /\ run'[r].status # "absent"
                        /\ run'[r].status \in Live \/ (\E w \in Workers : wk'[w].run = r) => run'[r].at.ref = c
                        /\ \A w \in Workers : wk'[w].run = r /\ wk'[w].pc = "stepping" => wk'[w].at.ref = c
      BY DEF Known
    <3>1. child[c].by = r /\ child[c].status \in Live
      BY <1>2 DEF Outside, Calmer
    <3>2. /\ run[r].status # "absent"
          /\ run'[r].at = run[r].at /\ (run'[r].status = run[r].status \/ run'[r].status = "cancelled")
      BY <1>0, <1>2, <3>1 DEF Outside, Known
    <3> QED
      BY <1>0, <1>2, <3>1, <3>2 DEF Outside, Known, Live
  <2>2. \A r \in Runs : WaitsForWork(run'[r].at)
    BY <1>0, <1>2, Constants DEF Outside, WaitsForWork
  <2> QED
    BY <1>0, <1>2, <2>1, <2>2 DEF ChildInvariant, Outside, WaitsForWork
<1>3. ASSUME NEW w \in Workers, Worked(w) PROVE ChildInvariant'
  <2>1. ASSUME NEW r \in Runs, Claimed(w, r) PROVE ChildInvariant'
    <3>1. ASSUME NEW c \in Children, NEW k \in Runs PROVE Known(c, k)'
      <4>1. \A v \in Workers : wk'[v].pc = "stepping" => v # w /\ wk'[v] = wk[v]
        BY <2>1 DEF Claimed, OthersOf
      <4>2. run'[k].at = run[k].at /\ child' = child /\ (run'[k].status = "absent" => run[k].status = "absent")
        BY <2>1 DEF Claimed, OtherRuns
      <4>3. run'[k].status \in Live \/ (\E v \in Workers : wk'[v].run = k)
              => run[k].status \in Live \/ (\E v \in Workers : wk[v].run = k)
        BY <2>1 DEF Claimed, OtherRuns, OthersOf, Live
      <4> QED
        BY <1>0, <4>1, <4>2, <4>3 DEF Known
    <3>2. \A k \in Runs : run'[k].at = run[k].at
      BY <2>1 DEF Claimed, OtherRuns
    <3>3. \A v \in Workers : wk'[v].pc = "stepping" => wk'[v] = wk[v]
      BY <2>1 DEF Claimed, OthersOf
    <3> QED
      BY <1>0, <3>1, <3>2, <3>3 DEF ChildInvariant, WaitsForWork
  <2>2. CASE Opened(w)
    <3>1. ASSUME NEW c \in Children, NEW k \in Runs PROVE Known(c, k)'
      BY <1>0, <2>2 DEF Opened, OthersOf, Known
    <3> QED
      BY <1>0, <2>2, <3>1 DEF Opened, OthersOf, ChildInvariant, WaitsForWork
  <2>3. CASE Advanced(w)
    <3> DEFINE r == wk[w].run
    <3>1. r \in Runs /\ wk[w].pc = "stepping"
      BY <1>0, <2>3 DEF Advanced, Stepping
    \* What it waited for has ended, or it waited for nothing: no child of the run lives.
    <3>2. \A c \in Children : ~(child[c].by = r /\ child[c].status \in Live)
      <4> SUFFICES ASSUME NEW c \in Children, child[c].by = r, child[c].status \in Live PROVE FALSE
        OBVIOUS
      <4>1. wk[w].at.ref = c
        BY <1>0, <3>1 DEF Known
      <4>2. Action(w) # "notify"
        BY <1>0, <3>1, <4>1, Constants DEF WaitsForWork, Action
      <4> QED
        BY <2>3, <4>1, <4>2 DEF Advanced
    <3> HIDE DEF r
    <3>3. ASSUME NEW c \in Children, NEW k \in Runs PROVE Known(c, k)'
      <4>1. CASE k = r
        BY <2>3, <3>2, <4>1 DEF Advanced, Known
      <4>2. CASE k # r
        BY <1>0, <2>3, <4>2 DEF Advanced, OthersOf, Known, r
      <4> QED
        BY <4>1, <4>2
    <3> QED
      BY <1>0, <2>3, <3>3 DEF Advanced, OthersOf, ChildInvariant, WaitsForWork
  <2>4. CASE Released(w)
    <3> DEFINE r == wk[w].run
    <3>1. /\ r \in Runs /\ \A k \in Runs : run'[k].at = run[k].at
          /\ \A k \in Runs \ {r} : run'[k] = run[k]
          /\ run'[r].status # "absent"
          /\ \A v \in Workers : wk'[v].run \in Runs => v # w /\ wk'[v] = wk[v]
          /\ \A v \in Workers : wk'[v].pc = "stepping" => v # w /\ wk'[v] = wk[v]
      BY <1>0, <2>4, Constants DEF Released, OthersOf, OtherRuns
    <3>2. ASSUME NEW c \in Children, NEW k \in Runs PROVE Known(c, k)'
      <4> SUFFICES ASSUME child'[c].by = k, child'[c].status \in Live
                   PROVE  /\ run'[k].status # "absent"
                          /\ run'[k].status \in Live \/ (\E v \in Workers : wk'[v].run = k) => run'[k].at.ref = c
                          /\ \A v \in Workers : wk'[v].run = k /\ wk'[v].pc = "stepping" => wk'[v].at.ref = c
        BY DEF Known
      <4>1. child[c].by = k /\ child[c].status \in Live
        BY <2>4 DEF Released, Calmer
      <4>2. /\ run[k].status # "absent"
            /\ run[k].status \in Live \/ (\E v \in Workers : wk[v].run = k) => run[k].at.ref = c
            /\ \A v \in Workers : wk[v].run = k /\ wk[v].pc = "stepping" => wk[v].at.ref = c
        BY <1>0, <4>1 DEF Known
      <4>3. CASE k = r
        BY <3>1, <4>2, <4>3
      <4>4. CASE k # r
        BY <3>1, <4>2, <4>4
      <4> QED
        BY <4>3, <4>4
    <3> HIDE DEF r
    <3> QED
      BY <1>0, <3>1, <3>2 DEF ChildInvariant, WaitsForWork
  <2>5. ASSUME NEW status \in Statuses, NEW at \in Place, NEW said \in SUBSET Steps, Saved(w, status, at, said)
        PROVE  ChildInvariant'
    <3> DEFINE r == wk[w].run
    <3>1. /\ r \in Runs /\ wk[w].pc = "stepping" /\ wk'[w] = Idle
          /\ \A v \in Workers \ {w} : wk'[v] = wk[v] /\ wk[v].run # r
          /\ run'[r].status = status /\ run'[r].at = at /\ \A k \in Runs \ {r} : run'[k] = run[k]
          /\ at.cursor = wk[w].at.cursor /\ status # "absent"
          /\ \/ status = "queued" /\ at.cursor <= Len(Actions) /\ Waits(w, at)
             \/ status \in Ended /\ child' = child
      BY <1>0, <2>5 DEF Saved, OthersOf, OtherRuns, Ended
    <3>2. \A v \in Workers : wk'[v].run # r
      BY <1>0, <3>1, Constants
    <3>3. \A v \in Workers : wk'[v].pc = "stepping" => v # w /\ wk'[v] = wk[v]
      BY <3>1, Constants
    <3>4. \A c \in Children : child[c].by = r /\ child[c].status \in Live => wk[w].at.ref = c
      BY <1>0, <3>1 DEF Known
    \* The children of the run itself.
    <3>5. ASSUME NEW c \in Children, NEW k \in Runs, k = r PROVE Known(c, k)'
      <4> SUFFICES ASSUME child'[c].by = r, child'[c].status \in Live, status \in Live
                   PROVE  at.ref = c
        <5> HIDE DEF r
        <5> QED
          BY <3>1, <3>2, <3>5 DEF Known
      <4>1. status = "queued" /\ Waits(w, at)
        BY <3>1 DEF Live, Ended
      <4>2. CASE child' = child
        <5>1. wk[w].at.ref = c
          BY <3>4, <4>2
        <5> QED
          BY <4>1, <4>2, <5>1, Constants DEF Waits
      <4>3. CASE child' # child
        <5>1. wk[w].at.ref = None /\ \A d \in Children \ {at.ref} : child'[d] = child[d]
          BY <4>1, <4>3 DEF Waits
        <5> QED
          BY <3>4, <5>1, Constants
      <4> QED
        BY <4>2, <4>3
    \* Those of others.
    <3>6. ASSUME NEW c \in Children, NEW k \in Runs, k # r PROVE Known(c, k)'
      <4> SUFFICES ASSUME child'[c].by = k, child'[c].status \in Live
                   PROVE  /\ run'[k].status # "absent"
                          /\ run'[k].status \in Live \/ (\E v \in Workers : wk'[v].run = k) => run'[k].at.ref = c
                          /\ \A v \in Workers : wk'[v].run = k /\ wk'[v].pc = "stepping" => wk'[v].at.ref = c
        BY DEF Known
      <4>1. child'[c] = child[c]
        BY <3>1, <3>6 DEF Waits
      <4>2. run'[k] = run[k] /\ \A v \in Workers : wk'[v].run = k => wk'[v] = wk[v]
        BY <3>1, <3>6, Constants
      <4> QED
        BY <1>0, <4>1, <4>2 DEF Known
    <3>7. WaitsForWork(at)
      <4>1. WaitsForWork(wk[w].at)
        BY <1>0, <3>1
      <4>2. CASE status = "queued" /\ Waits(w, at)
        <5>1. at.ref = wk[w].at.ref \/ at.ref = None \/ Action(w) # "notify"
          BY <4>2 DEF Waits
        <5> QED
          BY <3>1, <4>1, <4>2, <5>1 DEF WaitsForWork, Action, Ended
      <4>3. CASE status \in Ended
        BY <2>5, <4>1, <4>3 DEF Saved, Ended
      <4> QED
        BY <3>1, <4>2, <4>3
    <3> HIDE DEF r
    <3> QED
      BY <1>0, <3>1, <3>3, <3>5, <3>6, <3>7 DEF ChildInvariant, WaitsForWork
  <2> QED
    BY <1>3, <2>1, <2>2, <2>3, <2>4, <2>5 DEF Worked
<1> QED
  BY <1>1, <1>2, <1>3, StepTyped

\* While a run is under way, the live sync or validation it started is the one its step
\* waits for: a later look or a cancel finds it.
THEOREM NoneLost == Spec => [](ChildInvariant /\ NoOrphanChild)
<1>1. Init => ChildInvariant
  BY Constants DEF Init, ChildInvariant, Known, WaitsForWork, Live
<1>2. Typed /\ StepInvariant /\ ChildInvariant /\ [Next]_vars => ChildInvariant'
  BY ChildStep DEF StepInvariant
<1>3. ChildInvariant => NoOrphanChild
  BY DEF ChildInvariant, Known, NoOrphanChild
<1> QED
  BY <1>1, <1>2, <1>3, TypeCorrect, OnceEach, PTL DEF Spec
==================================================================================

------------------------- MODULE ValidationQueueProofs -------------------------
(***************************************************************************)
(* Theorems of ValidationQueue, for any workers, months and bounds: types, *)
(* one live job of a month; and about the runs that the queue and the      *)
(* synchronous endpoint write: each month's runs are one chain, and the    *)
(* chain keeps the run ledger.  However slow a worker is, a job points at  *)
(* the newest run that names it.  While no live worker outlasts its lease, *)
(* the lease is a lock, a finished job stays finished, and only a job that *)
(* succeeded has a run, one.                                               *)
(***************************************************************************)
EXTENDS ValidationQueue, FiniteSetTheorems, TLAPS

\* A finite set of integers has a greatest element.
LEMMA MaxProperties ==
  ASSUME NEW S, S \subseteq Int, IsFiniteSet(S), S # {}
  PROVE  Max(S) \in S /\ \A x \in S : x <= Max(S)
<1> DEFINE Above(x) == {y \in S : x < y}
           A == {Above(x) : x \in S}
<1>1. A # {} /\ A \subseteq FiniteSubsetsOf(S)
  <2>1. A # {}
    OBVIOUS
  <2>2. \A U \in A : U \in SUBSET S
    OBVIOUS
  <2> QED
    BY <2>1, <2>2, FS_FiniteSubsetsOfFinite
<1>2. PICK U \in A : \A V \in A : <<V, U>> \notin StrictSubsetOrdering(S)
  <2> HIDE DEF A
  <2> QED
    BY <1>1, FS_StrictSubsetOrderingWellFounded, WFMin
<1>3. PICK x \in S : U = Above(x)
  OBVIOUS
<1>4. \A y \in S : y <= x
  <2> SUFFICES ASSUME NEW y \in S, x < y PROVE FALSE
    OBVIOUS
  <2>1. Above(y) \in A
    OBVIOUS
  <2>2. y \in U /\ y \notin Above(y)
    BY <1>3
  <2>3. Above(y) \subseteq U /\ U \subseteq S
    <3>1. \A z \in S : x < y /\ y < z => x < z
      <4> x \in Int /\ y \in Int /\ \A z \in S : z \in Int
        OBVIOUS
      <4> QED
        OBVIOUS
    <3> QED
      BY <1>3, <3>1
  <2>4. <<Above(y), U>> \in StrictSubsetOrdering(S)
    <3> HIDE DEF Above
    <3> QED
      BY <2>2, <2>3 DEF StrictSubsetOrdering
  <2> QED
    BY <1>2, <2>1, <2>4
<1> QED
  BY <1>4 DEF Max

\* A finite set of integers has a least element.
LEMMA MinProperties ==
  ASSUME NEW S, S \subseteq Int, IsFiniteSet(S), S # {}
  PROVE  Min(S) \in S /\ \A x \in S : Min(S) <= x
<1> DEFINE Below(x) == {y \in S : y < x}
           B == {Below(x) : x \in S}
<1>1. B # {} /\ B \subseteq FiniteSubsetsOf(S)
  <2>1. B # {}
    OBVIOUS
  <2>2. \A U \in B : U \in SUBSET S
    OBVIOUS
  <2> QED
    BY <2>1, <2>2, FS_FiniteSubsetsOfFinite
<1>2. PICK U \in B : \A V \in B : <<V, U>> \notin StrictSubsetOrdering(S)
  <2> HIDE DEF B
  <2> QED
    BY <1>1, FS_StrictSubsetOrderingWellFounded, WFMin
<1>3. PICK x \in S : U = Below(x)
  OBVIOUS
<1>4. \A y \in S : x <= y
  <2> SUFFICES ASSUME NEW y \in S, y < x PROVE FALSE
    OBVIOUS
  <2>1. Below(y) \in B
    OBVIOUS
  <2>2. y \in U /\ y \notin Below(y)
    BY <1>3
  <2>3. Below(y) \subseteq U /\ U \subseteq S
    <3>1. \A z \in S : y < x /\ z < y => z < x
      <4> x \in Int /\ y \in Int /\ \A z \in S : z \in Int
        OBVIOUS
      <4> QED
        OBVIOUS
    <3> QED
      BY <1>3, <3>1
  <2>4. <<Below(y), U>> \in StrictSubsetOrdering(S)
    <3> HIDE DEF Below
    <3> QED
      BY <2>2, <2>3 DEF StrictSubsetOrdering
  <2> QED
    BY <1>2, <2>1, <2>4
<1> QED
  BY <1>4 DEF Min

--------------------------------------------------------------------------------
(* Type correctness.                                                       *)

\* What a flush leaves in a column is what was there or what the session holds.
LEMMA FlushType ==
  ASSUME NEW row \in JobRow, NEW seen \in JobRow, NEW mine \in JobRow
  PROVE  /\ Flush(row, seen, mine) \in JobRow
         /\ \A c \in DOMAIN row : Flush(row, seen, mine)[c] \in {row[c], mine[c]}
<1> DEFINE new == Flush(row, seen, mine)
<1>1. \A c \in DOMAIN row : new[c] \in {row[c], mine[c]}
  BY DEF Flush
<1>2. new = [state |-> new.state, period |-> new.period, owner |-> new.owner,
             beat |-> new.beat, attempts |-> new.attempts, cancel |-> new.cancel,
             run |-> new.run, retryOf |-> new.retryOf]
  BY DEF Flush, JobRow
<1>3. DOMAIN row = {"state", "period", "owner", "beat", "attempts", "cancel", "run", "retryOf"}
  BY DEF JobRow
<1>4. new \in JobRow
  <2> HIDE DEF new
  <2> QED
    BY <1>1, <1>2, <1>3 DEF JobRow
<1> QED
  BY <1>1, <1>4

\* Any set of positions of the run table is a finite set of integers.
LEMMA RunsAreFinite ==
  ASSUME runs \in Seq(RunRow), NEW S, S \subseteq DOMAIN runs
  PROVE  IsFiniteSet(S) /\ S \subseteq Int
<1>1. DOMAIN runs = 1..Len(runs) /\ Len(runs) \in Nat
  OBVIOUS
<1>2. IsFiniteSet(1..Len(runs))
  BY <1>1, FS_Interval
<1> QED
  BY <1>1, <1>2, FS_Subset

\* What record_run reads.
LEMMA ReadPreviousType ==
  ASSUME runs \in Seq(RunRow), NEW p
  PROVE  ReadPrevious(p) \in Reading
<1> DEFINE R == RunsOf(p)
           N == {runs[r].number : r \in R}
           number == [r \in R |-> runs[r].number]
<1>1. R \subseteq DOMAIN runs /\ CurrentRuns(p) \subseteq DOMAIN runs
  BY DEF RunsOf, CurrentRuns
<1>2. \A r \in R : runs[r].number \in Nat
  <2>1. \A r \in DOMAIN runs : runs[r] \in RunRow
    OBVIOUS
  <2>2. \A x \in RunRow : x.number \in Nat
    BY DEF RunRow
  <2> QED
    BY <1>1, <2>1, <2>2
<1>3. IsFiniteSet(N)
  <2>1. number \in Surjection(R, N)
    BY DEF Surjection
  <2>2. IsFiniteSet(R)
    BY <1>1, RunsAreFinite
  <2> QED
    BY <2>1, <2>2, FS_Surjection
<1>4. R # {} => Max(N) \in Nat
  <2> SUFFICES ASSUME R # {} PROVE Max(N) \in Nat
    OBVIOUS
  <2>1. N # {} /\ N \subseteq Int /\ N \subseteq Nat
    BY <1>2
  <2>2. Max(N) \in N
    <3> HIDE DEF N
    <3> QED
      BY <1>3, <2>1, MaxProperties
  <2> HIDE DEF N
  <2> QED
    BY <2>1, <2>2
<1> QED
  BY <1>1, <1>4 DEF ReadPrevious, Reading

\* A superseded run is still a run.
LEMMA SupersededType ==
  ASSUME NEW x \in RunRow, NEW n \in Nat
  PROVE  [x EXCEPT !.status = "superseded", !.next = n] \in RunRow
BY DEF RunRow

\* What record_run leaves: one more run, and the runs it superseded.
LEMMA RecordedType ==
  ASSUME runs \in Seq(RunRow), NEW p \in Periods, NEW j \in Jobs \cup {0}, NEW prev \in Reading
  PROVE  /\ Recorded(p, j, prev) \in Seq(RunRow)
         /\ Len(Recorded(p, j, prev)) = Len(runs) + 1
         /\ DOMAIN runs \subseteq DOMAIN Recorded(p, j, prev)
<1> DEFINE old == [r \in DOMAIN runs |->
                     IF r \in prev.cur
                     THEN [runs[r] EXCEPT !.status = "superseded", !.next = Len(runs) + 1]
                     ELSE runs[r]]
           new == [period |-> p, job |-> j, number |-> prev.top + 1,
                   status |-> "current", next |-> NoRun]
<1>1. old \in Seq(RunRow) /\ Len(old) = Len(runs)
  <2>1. \A r \in DOMAIN runs : runs[r] \in RunRow
    OBVIOUS
  <2>4. DOMAIN runs = 1..Len(runs) /\ Len(runs) \in Nat
    OBVIOUS
  <2>2. \A x \in RunRow : [x EXCEPT !.status = "superseded", !.next = Len(runs) + 1] \in RunRow
    <3> DEFINE n == Len(runs) + 1
    <3>1. n \in Nat
      BY <2>4
    <3> HIDE DEF n
    <3>2. \A x \in RunRow : [x EXCEPT !.status = "superseded", !.next = n] \in RunRow
      BY <3>1, SupersededType
    <3> QED
      BY <3>2 DEF n
  <2>3. \A r \in DOMAIN runs : old[r] \in RunRow
    BY <2>1, <2>2
  <2>5. old \in [1..Len(runs) -> RunRow]
    BY <2>3, <2>4
  <2> HIDE DEF old
  <2> QED
    BY <2>4, <2>5
<1>2. new \in RunRow
  BY DEF RunRow, Reading, NoRun
<1>3. Recorded(p, j, prev) = Append(old, new)
  BY DEF Recorded
<1> HIDE DEF old, new
<1> QED
  BY <1>1, <1>2, <1>3

\* What the code makes of a live row is a live row of the same month.
Alike(r, new) == new \in JobRow /\ new.state # "absent" /\ new.period = r.period

\* What a claim, a heartbeat, succeed, mark_cancelled and fail make of a live row is
\* a live row of the same month.
LEMMA RowTypes ==
  ASSUME NEW r \in JobRow, r.state # "absent"
  PROVE  /\ \A w \in Workers :
              Alike(r, [r EXCEPT !.state = "running", !.owner = w, !.beat = "fresh",
                                 !.attempts = @ + 1])
         /\ Alike(r, [r EXCEPT !.beat = "fresh"])
         /\ \A n \in Nat :
              Alike(r, [r EXCEPT !.state = "succeeded", !.owner = None, !.run = n])
         /\ Alike(r, MarkCancelled(r))
         /\ \A permanent \in BOOLEAN : Alike(r, Fail(r, permanent))
<1> USE DEF Alike, JobRow, JobStates, Active, Terminal
<1>1. ASSUME NEW w \in Workers
      PROVE  Alike(r, [r EXCEPT !.state = "running", !.owner = w, !.beat = "fresh",
                                !.attempts = @ + 1])
  <2> DEFINE n == r.attempts + 1
  <2>1. n \in Nat
    OBVIOUS
  <2>2. Alike(r, [r EXCEPT !.state = "running", !.owner = w, !.beat = "fresh", !.attempts = n])
    <3> HIDE DEF n
    <3> QED
      BY <2>1
  <2> QED
    BY <2>2
<1>2. Alike(r, [r EXCEPT !.beat = "fresh"])
  OBVIOUS
<1>3. ASSUME NEW n \in Nat
      PROVE  Alike(r, [r EXCEPT !.state = "succeeded", !.owner = None, !.run = n])
  OBVIOUS
<1>4. Alike(r, MarkCancelled(r))
  BY DEF MarkCancelled
<1>5. ASSUME NEW permanent \in BOOLEAN
      PROVE  Alike(r, Fail(r, permanent))
  BY DEF Fail
<1> QED
  BY <1>1, <1>2, <1>3, <1>4, <1>5

\* A flush of a live row read and a live row held leaves a live row.
LEMMA FlushAlike ==
  ASSUME NEW row \in JobRow, NEW seen \in JobRow, NEW mine,
         row.state # "absent", seen.period = row.period, Alike(seen, mine)
  PROVE  Alike(row, Flush(row, seen, mine))
<1>1. mine \in JobRow
  BY DEF Alike
<1>2. "state" \in DOMAIN row /\ "period" \in DOMAIN row
  BY DEF JobRow
<1> QED
  BY <1>1, <1>2, FlushType DEF Alike

\* A worker's variables.
WorkerRow == [pc : Pcs, job : Jobs \cup {0}, seen : JobRow, prev : Reading, exc : Exceptions]

\* An idle worker, an absent job and an empty reading have their types.
LEMMA IdleType == Idle \in WorkerRow /\ Absent \in JobRow /\ NothingRead \in Reading
BY DEF Idle, Absent, NothingRead, WorkerRow, JobRow, Reading, Pcs, Exceptions, NoRun, None, JobStates

\* What holds of a worker's variables when its row is not absent.
Busy(x) ==
  /\ x.pc # "idle" => x.job \in Jobs /\ job[x.job].state # "absent"
  /\ x.pc \in {"recording", "writing", "closing"} =>
       x.seen.state # "absent" /\ x.seen.period = job[x.job].period

\* No job appears, disappears or changes its month.
JobsKept ==
  /\ job' \in [Jobs -> JobRow]
  /\ \A j \in Jobs : /\ job'[j].state = "absent" <=> job[j].state = "absent"
                     /\ job'[j].period = job[j].period

\* A step that gives a live job another live row of the same month.
LEMMA JobStepKeeps ==
  ASSUME job \in [Jobs -> JobRow], NEW j \in Jobs, NEW new \in JobRow,
         job[j].state # "absent", new.state # "absent", new.period = job[j].period,
         job' = [job EXCEPT ![j] = new]
  PROVE  JobsKept
BY DEF JobsKept

\* A step of one worker keeps the types if it keeps its own.
LEMMA WorkerStepType ==
  ASSUME TypeOK, JobsKept, NEW w \in Workers, NEW x \in WorkerRow, Busy(x),
         wk' = [wk EXCEPT ![w] = x], crashes' \in Nat, UNCHANGED <<runs, cancelling, sync>>
  PROVE  TypeOK'
<1>1. Reading' = Reading /\ WorkerRow' = WorkerRow
  BY DEF Reading, WorkerRow
<1>2. wk \in [Workers -> WorkerRow] /\ \A v \in Workers : Busy(wk[v])
  BY DEF TypeOK, WorkerRow, Busy
<1>3. wk' \in [Workers -> WorkerRow] /\ \A v \in Workers : Busy(wk'[v])
  BY <1>2
<1>4. \A v \in Workers : Busy(wk[v])'
  BY <1>2, <1>3 DEF Busy, JobsKept, WorkerRow
<1>5. /\ job' \in [Jobs -> JobRow]
      /\ \A j \in Jobs : job'[j].state # "absent" => job'[j].period \in Periods
      /\ cancelling' \subseteq {j \in Jobs : job'[j].state # "absent"}
  BY DEF TypeOK, JobsKept
<1> QED
  BY <1>1, <1>3, <1>4, <1>5 DEF TypeOK, WorkerRow, Busy

\* A worker that raises holds its job still.
LEMMA RaisedType ==
  ASSUME TypeOK, NEW w \in Workers, wk[w].pc # "idle", NEW e \in Exceptions
  PROVE  Raised(w, e) \in WorkerRow /\ Busy(Raised(w, e))
BY IdleType DEF TypeOK, Raised, Idle, WorkerRow, Busy, Pcs

\* A step of the API or of time keeps them if it forgets no job.
LEMMA ApiStepType ==
  ASSUME TypeOK, job' \in [Jobs -> JobRow],
         \A j \in Jobs : job[j].state # "absent" =>
                           job'[j].state # "absent" /\ job'[j].period = job[j].period,
         \A j \in Jobs : job'[j].state # "absent" => job'[j].period \in Periods,
         cancelling' \subseteq {j \in Jobs : job[j].state # "absent"},
         UNCHANGED <<runs, wk, sync, crashes>>
  PROVE  TypeOK'
<1>1. Reading' = Reading /\ WorkerRow' = WorkerRow
  BY DEF Reading, WorkerRow
<1>2. wk \in [Workers -> WorkerRow] /\ \A v \in Workers : Busy(wk[v])
  BY DEF TypeOK, WorkerRow, Busy
<1>3. \A v \in Workers : Busy(wk[v])'
  BY <1>2 DEF Busy, WorkerRow
<1> QED
  BY <1>1, <1>2, <1>3 DEF TypeOK, WorkerRow, Busy

\* The types hold initially and every step keeps them.
THEOREM TypeCorrect == Spec => []TypeOK
<1>1. Init => TypeOK
  <2> SUFFICES ASSUME Init PROVE TypeOK
    OBVIOUS
  <2>1. \A j \in Jobs : job[j] \in JobRow /\ job[j].state = "absent"
    BY IdleType DEF Init, Absent
  <2>2. \A w \in Workers : wk[w] \in WorkerRow /\ wk[w].pc = "idle"
    BY IdleType DEF Init, Idle
  <2>3. \A p \in Periods : sync[p] \in [busy : BOOLEAN, prev : Reading]
    BY IdleType DEF Init
  <2>4. runs \in Seq(RunRow) /\ cancelling = {} /\ crashes \in Nat
    BY DEF Init
  <2> QED
    BY <2>1, <2>2, <2>3, <2>4 DEF Init, TypeOK, WorkerRow
<1>2. TypeOK /\ [Next]_vars => TypeOK'
  <2> SUFFICES ASSUME TypeOK, [Next]_vars PROVE TypeOK'
    OBVIOUS
  <2>0. job \in [Jobs -> JobRow] /\ wk \in [Workers -> WorkerRow] /\ crashes \in Nat
    BY DEF TypeOK, WorkerRow
  <2>1. ASSUME NEW j \in Jobs, NEW p \in Periods, NEW old \in Jobs \cup {0}, Enqueue(j, p, old)
        PROVE  TypeOK'
    <3> DEFINE new == [Absent EXCEPT !.state = "queued", !.period = p, !.retryOf = old]
    <3>1. new \in JobRow /\ new.state = "queued" /\ new.period = p
      BY DEF Absent, JobRow, JobStates, Active, None, NoRun
    <3>2. job' = [job EXCEPT ![j] = new] /\ job[j].state = "absent"
      BY <2>1 DEF Enqueue
    <3> HIDE DEF new
    <3> QED
      BY <2>0, <2>1, <3>1, <3>2, ApiStepType DEF Enqueue, TypeOK
  <2>2. ASSUME NEW j \in Jobs, CheckCancel(j)
        PROVE  TypeOK'
    BY <2>2 DEF CheckCancel, Active, Reading, TypeOK
  <2>3. ASSUME NEW j \in Jobs, WriteCancel(j)
        PROVE  TypeOK'
    <3> DEFINE new == [job[j] EXCEPT !.cancel = TRUE,
                                     !.state = IF @ = "queued" THEN "cancelled" ELSE @]
    <3>1. job[j].state # "absent" /\ job[j] \in JobRow
      BY <2>3 DEF WriteCancel, TypeOK
    <3>2. new \in JobRow /\ new.state # "absent" /\ new.period = job[j].period
      BY <3>1 DEF JobRow, JobStates, Terminal
    <3>3. job' = [job EXCEPT ![j] = new]
      BY <2>3 DEF WriteCancel
    <3>4. JobsKept
      <4> HIDE DEF new
      <4> QED
        BY <2>0, <3>1, <3>2, <3>3, JobStepKeeps
    <3> QED
      BY <2>3, <3>4, ApiStepType DEF WriteCancel, TypeOK, JobsKept
  <2>4. ASSUME NEW p \in Periods, SyncRead(p)
        PROVE  TypeOK'
    BY <2>4, ReadPreviousType DEF SyncRead, Reading, TypeOK
  <2>5. ASSUME NEW j \in Jobs, LeaseLapse(j)
        PROVE  TypeOK'
    <3>1. /\ job' \in [Jobs -> JobRow]
          /\ \A k \in Jobs : job'[k].state = job[k].state /\ job'[k].period = job[k].period
      BY <2>0, <2>5 DEF LeaseLapse, JobRow
    <3> QED
      BY <2>5, <3>1, ApiStepType DEF LeaseLapse, TypeOK
  <2>6. ASSUME NEW w \in Workers, NEW j \in Jobs, ClaimSelect(w, j)
        PROVE  TypeOK'
    <3> DEFINE x == [Idle EXCEPT !.pc = "claiming", !.job = j]
    <3>1. x \in WorkerRow /\ x.pc = "claiming" /\ x.job = j
      BY IdleType DEF WorkerRow, Idle, Pcs
    <3>2. Busy(x) /\ JobsKept
      BY <2>0, <2>6, <3>1 DEF ClaimSelect, Claimable, Busy, JobsKept
    <3> HIDE DEF x
    <3> QED
      BY <2>0, <2>6, <3>1, <3>2, WorkerStepType DEF ClaimSelect, x
  <2>7. ASSUME NEW w \in Workers, ClaimUpdate(w)
        PROVE  TypeOK'
    <3> DEFINE j == wk[w].job
               new == [job[j] EXCEPT !.state = "running", !.owner = w, !.beat = "fresh",
                                     !.attempts = @ + 1]
               x == [wk[w] EXCEPT !.pc = "claimed"]
    <3>1. j \in Jobs /\ job[j] \in JobRow /\ job[j].state # "absent" /\ wk[w] \in WorkerRow
      BY <2>0, <2>7 DEF ClaimUpdate, TypeOK
    <3>2. x \in WorkerRow /\ Busy(x) /\ Idle \in WorkerRow /\ Busy(Idle)
      BY <3>1, IdleType DEF WorkerRow, Pcs, Busy, Idle
    <3>3. CASE Claimable(j)
      <4>1. Alike(job[j], new)
        <5> HIDE DEF j
        <5> QED
          BY <3>1, RowTypes
      <4>2. job' = [job EXCEPT ![j] = new] /\ wk' = [wk EXCEPT ![w] = x]
        BY <2>7, <3>3 DEF ClaimUpdate
      <4>3. JobsKept
        <5> HIDE DEF new
        <5> QED
          BY <2>0, <3>1, <4>1, <4>2, JobStepKeeps DEF Alike
      <4> HIDE DEF x, j, new
      <4> QED
        BY <2>0, <2>7, <3>2, <4>2, <4>3, WorkerStepType DEF ClaimUpdate
    <3>4. CASE ~Claimable(j)
      <4>1. JobsKept /\ wk' = [wk EXCEPT ![w] = Idle]
        BY <2>0, <2>7, <3>4 DEF ClaimUpdate, JobsKept
      <4> QED
        BY <2>0, <2>7, <3>2, <4>1, WorkerStepType DEF ClaimUpdate
    <3> QED
      BY <3>3, <3>4
  <2>8. ASSUME NEW w \in Workers, Begin(w)
        PROVE  TypeOK'
    <3> DEFINE j == wk[w].job
               new == [job[j] EXCEPT !.beat = "fresh"]
               x == [wk[w] EXCEPT !.pc = "loading"]
    <3>1. j \in Jobs /\ job[j] \in JobRow /\ job[j].state # "absent" /\ wk[w] \in WorkerRow
      BY <2>0, <2>8 DEF Begin, TypeOK
    <3>2. x \in WorkerRow /\ Busy(x)
      BY <3>1 DEF WorkerRow, Pcs, Busy
    <3>3. CASE job[j].cancel
      <4>1. JobsKept /\ wk' = [wk EXCEPT ![w] = Raised(w, "JobCancelled")]
        BY <2>0, <2>8, <3>3 DEF Begin, JobsKept
      <4> QED
        BY <2>0, <2>8, <3>1, <4>1, RaisedType, WorkerStepType DEF Begin, Exceptions
    <3>4. CASE ~job[j].cancel
      <4>1. job' = [job EXCEPT ![j] = new] /\ wk' = [wk EXCEPT ![w] = x]
        BY <2>8, <3>4 DEF Begin
      <4>2. Alike(job[j], new)
        <5> HIDE DEF j
        <5> QED
          BY <3>1, RowTypes
      <4>3. JobsKept
        <5> HIDE DEF new
        <5> QED
          BY <2>0, <3>1, <4>1, <4>2, JobStepKeeps DEF Alike
      <4> HIDE DEF x, j, new
      <4> QED
        BY <2>0, <2>8, <3>2, <4>1, <4>3, WorkerStepType DEF Begin
    <3> QED
      BY <3>3, <3>4
  <2>9. ASSUME NEW w \in Workers, Load(w)
        PROVE  TypeOK'
    <3> DEFINE j == wk[w].job
               new == [job[j] EXCEPT !.beat = "fresh"]
               x == [wk[w] EXCEPT !.pc = "validating"]
    <3>1. j \in Jobs /\ job[j] \in JobRow /\ job[j].state # "absent" /\ wk[w] \in WorkerRow
      BY <2>0, <2>9 DEF Load, TypeOK
    <3>2. x \in WorkerRow /\ Busy(x)
      BY <3>1 DEF WorkerRow, Pcs, Busy
    <3>3. job' = [job EXCEPT ![j] = new] /\ wk' = [wk EXCEPT ![w] = x]
      BY <2>9 DEF Load
    <3>4. Alike(job[j], new)
      <4> HIDE DEF j
      <4> QED
        BY <3>1, RowTypes
    <3>5. JobsKept
      <4> HIDE DEF new
      <4> QED
        BY <2>0, <3>1, <3>3, <3>4, JobStepKeeps DEF Alike
    <3> HIDE DEF x, j, new
    <3> QED
      BY <2>0, <2>9, <3>2, <3>3, <3>5, WorkerStepType DEF Load
  <2>10. ASSUME NEW w \in Workers, NEW next \in {"validating", "recording"}, ProgressTo(w, next)
         PROVE  TypeOK'
    <3> DEFINE j == wk[w].job
               read == [job[j] EXCEPT !.beat = "fresh"]
               x == IF read.cancel THEN Raised(w, "JobCancelled")
                    ELSE IF next = "recording" THEN [wk[w] EXCEPT !.pc = next, !.seen = read]
                    ELSE wk[w]
    <3>1. j \in Jobs /\ job[j] \in JobRow /\ job[j].state # "absent" /\ wk[w] \in WorkerRow
      BY <2>0, <2>10 DEF ProgressTo, TypeOK
    <3>2. Alike(job[j], read)
      <4> HIDE DEF j
      <4> QED
        BY <3>1, RowTypes
    <3>3. job' = [job EXCEPT ![j] = read] /\ wk' = [wk EXCEPT ![w] = x]
      BY <2>10 DEF ProgressTo
    <3>4. JobsKept
      <4> HIDE DEF read
      <4> QED
        BY <2>0, <3>1, <3>2, <3>3, JobStepKeeps DEF Alike
    <3>5. x \in WorkerRow /\ Busy(x)
      <4>1. Raised(w, "JobCancelled") \in WorkerRow /\ Busy(Raised(w, "JobCancelled"))
        BY <2>10, RaisedType DEF ProgressTo, Exceptions
      <4>2. wk[w].pc = "validating"
        BY <2>10 DEF ProgressTo
      <4> HIDE DEF read
      <4> QED
        BY <3>1, <3>2, <4>1, <4>2 DEF WorkerRow, Pcs, Busy, Alike
    <3> HIDE DEF x, j, read
    <3> QED
      BY <2>0, <2>10, <3>3, <3>4, <3>5, WorkerStepType DEF ProgressTo
  <2>11. ASSUME NEW w \in Workers, ReadRuns(w)
         PROVE  TypeOK'
    <3> DEFINE read == ReadPrevious(job[wk[w].job].period)
               x == [wk[w] EXCEPT !.pc = "writing", !.prev = read]
    <3>1. wk' = [wk EXCEPT ![w] = x] /\ JobsKept
      BY <2>0, <2>11 DEF ReadRuns, JobsKept
    <3>2. read \in Reading
      BY ReadPreviousType DEF TypeOK
    <3>3. x \in WorkerRow /\ Busy(x)
      <4> HIDE DEF read
      <4> QED
        BY <2>0, <2>11, <3>2 DEF ReadRuns, TypeOK, WorkerRow, Pcs, Busy
    <3> HIDE DEF x
    <3> QED
      BY <2>0, <2>11, <3>1, <3>3, WorkerStepType DEF ReadRuns
  <2>12. ASSUME NEW w \in Workers, Throw(w)
         PROVE  TypeOK'
    <3>1. /\ wk[w].pc # "idle" /\ JobsKept
          /\ \E e \in Exceptions : wk' = [wk EXCEPT ![w] = Raised(w, e)]
      BY <2>0, <2>12 DEF Throw, JobsKept, Exceptions
    <3> QED
      BY <2>0, <2>12, <3>1, RaisedType, WorkerStepType DEF Throw
  <2>13. ASSUME NEW w \in Workers, Reread(w)
         PROVE  TypeOK'
    <3> DEFINE x == [wk[w] EXCEPT !.pc = "closing", !.seen = job[wk[w].job]]
    <3>1. wk' = [wk EXCEPT ![w] = x] /\ JobsKept
      BY <2>0, <2>13 DEF Reread, JobsKept
    <3>2. x \in WorkerRow /\ Busy(x)
      BY <2>0, <2>13 DEF Reread, TypeOK, WorkerRow, Pcs, Busy
    <3> HIDE DEF x
    <3> QED
      BY <2>0, <2>13, <3>1, <3>2, WorkerStepType DEF Reread
  <2>14. ASSUME NEW w \in Workers, Crash(w)
         PROVE  TypeOK'
    <3>1. Idle \in WorkerRow /\ Busy(Idle) /\ JobsKept /\ crashes' \in Nat
      BY <2>0, <2>14, IdleType DEF Crash, JobsKept, Busy, Idle
    <3> QED
      BY <2>0, <2>14, <3>1, WorkerStepType DEF Crash
  <2>15. ASSUME NEW w \in Workers, Close(w)
         PROVE  TypeOK'
    <3> DEFINE j == wk[w].job
               seen == wk[w].seen
               mine == IF wk[w].exc = "JobCancelled" THEN MarkCancelled(seen)
                       ELSE Fail(seen, wk[w].exc = "PermanentJobError")
               new == Flush(job[j], seen, mine)
    <3>1. /\ j \in Jobs /\ job[j] \in JobRow /\ job[j].state # "absent"
          /\ seen \in JobRow /\ seen.state # "absent" /\ seen.period = job[j].period
      BY <2>0, <2>15 DEF Close, TypeOK, WorkerRow
    <3>2. Alike(seen, mine)
      <4> HIDE DEF seen
      <4> QED
        BY <3>1, RowTypes
    <3>3. Alike(job[j], new)
      <4> HIDE DEF mine, j, seen
      <4> QED
        BY <3>1, <3>2, FlushAlike
    <3>4. Idle \in WorkerRow /\ Busy(Idle)
      BY IdleType DEF Busy, Idle
    <3>5. JobsKept
      <4>1. job' = job \/ job' = [job EXCEPT ![j] = new]
        BY <2>15 DEF Close
      <4> HIDE DEF j, new
      <4>2. CASE job' = job
        BY <2>0, <4>2 DEF JobsKept
      <4> QED
        BY <2>0, <3>1, <3>3, <4>1, <4>2, JobStepKeeps DEF Alike
    <3> QED
      BY <2>0, <2>15, <3>4, <3>5, WorkerStepType DEF Close
  <2>16. ASSUME NEW p \in Periods, SyncRecord(p)
         PROVE  TypeOK'
    <3> DEFINE after == Recorded(p, 0, sync[p].prev)
    <3>1. sync[p].prev \in Reading
      BY DEF TypeOK
    <3>2. runs' \in Seq(RunRow) /\ DOMAIN runs \subseteq DOMAIN runs'
      <4>1. after \in Seq(RunRow) /\ DOMAIN runs \subseteq DOMAIN after
        BY <3>1, RecordedType DEF TypeOK
      <4> HIDE DEF after
      <4> QED
        BY <2>16, <4>1 DEF SyncRecord, TypeOK, after
    <3>3. NothingRead \in Reading' /\ \A r \in Reading : r \in Reading'
      BY <3>2, IdleType DEF Reading
    <3> QED
      BY <2>16, <3>2, <3>3 DEF SyncRecord, TypeOK
  <2>17. ASSUME NEW w \in Workers, Record(w)
         PROVE  TypeOK'
    <3> DEFINE j == wk[w].job
               p == job[j].period
               seen == wk[w].seen
               mine == [seen EXCEPT !.state = "succeeded", !.owner = None,
                                    !.run = Len(runs) + 1]
               flushed == Flush(job[j], seen, mine)
               new == [flushed EXCEPT !.beat = "fresh"]
               after == Recorded(p, j, wk[w].prev)
    <3>1. /\ j \in Jobs /\ job[j] \in JobRow /\ job[j].state # "absent" /\ p \in Periods
          /\ seen \in JobRow /\ seen.state # "absent" /\ seen.period = p
          /\ wk[w].prev \in Reading /\ wk[w].pc = "writing" /\ Len(runs) + 1 \in Nat
      BY <2>0, <2>17 DEF Record, TypeOK, WorkerRow
    <3>2. CASE RunRefused(p, wk[w].prev)
      <4>1. JobsKept /\ wk' = [wk EXCEPT ![w] = Raised(w, "IntegrityError")]
        BY <2>0, <2>17, <3>2 DEF Record, JobsKept
      <4>2. UNCHANGED <<runs, cancelling, sync, crashes>>
        BY <2>17, <3>2 DEF Record
      <4> QED
        BY <2>0, <3>1, <4>1, <4>2, RaisedType, WorkerStepType DEF Exceptions
    <3>3. CASE ~RunRefused(p, wk[w].prev)
      <4>1. /\ job' = [job EXCEPT ![j] = new] /\ runs' = after
            /\ wk' = [wk EXCEPT ![w] = Idle] /\ UNCHANGED <<cancelling, sync, crashes>>
        BY <2>17, <3>3 DEF Record
      <4>2. Alike(seen, mine)
        <5> DEFINE n == Len(runs) + 1
        <5>1. n \in Nat
          BY <3>1
        <5>2. Alike(seen, [seen EXCEPT !.state = "succeeded", !.owner = None, !.run = n])
          <6> HIDE DEF n, seen
          <6> QED
            BY <3>1, <5>1, RowTypes
        <5> QED
          BY <5>2
      <4>3. Alike(job[j], flushed)
        <5> HIDE DEF mine, j, seen
        <5> QED
          BY <3>1, <4>2, FlushAlike
      <4>4. Alike(job[j], new)
        <5> HIDE DEF flushed
        <5> QED
          BY <4>3, RowTypes DEF Alike
      <4>5. JobsKept
        <5> HIDE DEF j, new
        <5> QED
          BY <2>0, <3>1, <4>1, <4>4, JobStepKeeps DEF Alike
      <4>6. runs' \in Seq(RunRow) /\ DOMAIN runs \subseteq DOMAIN runs'
        <5>1. after \in Seq(RunRow) /\ DOMAIN runs \subseteq DOMAIN after
          BY <3>1, RecordedType DEF TypeOK
        <5> HIDE DEF after
        <5> QED
          BY <4>1, <5>1
      <4>7. Reading \subseteq Reading'
        BY <4>6 DEF Reading
      <4>8. Idle \in WorkerRow' /\ WorkerRow \subseteq WorkerRow'
        BY <4>7, IdleType DEF WorkerRow
      <4>9. /\ wk' \in [Workers -> WorkerRow']
            /\ \A v \in Workers : wk'[v] = wk[v] \/ wk'[v].pc = "idle"
        <5> HIDE DEF j, new
        <5> QED
          BY <2>0, <4>1, <4>8 DEF Idle
      <4>10. \A v \in Workers : Busy(wk[v])'
        <5>1. \A v \in Workers : Busy(wk[v])
          BY DEF TypeOK, Busy
        <5> QED
          BY <2>0, <4>5, <4>9, <5>1 DEF Busy, JobsKept, WorkerRow
      <4>11. /\ \A k \in Jobs : job'[k].state # "absent" => job'[k].period \in Periods
             /\ cancelling' \subseteq {k \in Jobs : job'[k].state # "absent"}
        BY <4>1, <4>5 DEF TypeOK, JobsKept
      <4>12. sync' \in [Periods -> [busy : BOOLEAN, prev : Reading']]
        BY <4>1, <4>7 DEF TypeOK
      <4> HIDE DEF after, new, j
      <4> QED
        BY <4>1, <4>5, <4>6, <4>9, <4>10, <4>11, <4>12
        DEF TypeOK, JobsKept, WorkerRow, Busy
    <3> QED
      BY <3>2, <3>3
  <2>18. CASE UNCHANGED vars
    BY <2>18 DEF vars, TypeOK, Reading
  <2> QED
    BY <2>1, <2>2, <2>3, <2>4, <2>5, <2>6, <2>7, <2>8, <2>9, <2>10, <2>11, <2>12, <2>13,
       <2>14, <2>15, <2>16, <2>17, <2>18
    DEF Next, Api, Work, Claim, Submit, Retry, Progress, LastProgress, TypeOK
<1>3. QED
  BY <1>1, <1>2, PTL DEF Spec

--------------------------------------------------------------------------------
(* A month's live work.                                                    *)

\* No two live jobs can arise where none arises.
LEMMA NoNewLiveJob ==
  ASSUME OneActivePerPeriod,
         \A j \in Jobs : job'[j].state \in Active =>
                           job[j].state \in Active /\ job'[j].period = job[j].period
  PROVE  OneActivePerPeriod'
BY DEF OneActivePerPeriod

\* A row the index lets in leaves a month one live job at most.
LEMMA IndexKeepsOne ==
  ASSUME job \in [Jobs -> JobRow], OneActivePerPeriod, NEW j \in Jobs, NEW new,
         ~IndexRefuses(j, new), job' = [job EXCEPT ![j] = new]
  PROVE  OneActivePerPeriod'
BY DEF OneActivePerPeriod, IndexRefuses, ActiveOn

\* A month never has two live jobs, whatever the workers, the retries and the
\* cancellations do, and however slow a worker is.
THEOREM OneActive == Spec => []OneActivePerPeriod
<1>1. Init => OneActivePerPeriod
  BY DEF Init, OneActivePerPeriod, Absent, Active
<1>2. TypeOK /\ OneActivePerPeriod /\ [Next]_vars => OneActivePerPeriod'
  <2> SUFFICES ASSUME TypeOK, OneActivePerPeriod, [Next]_vars
               PROVE  OneActivePerPeriod'
    OBVIOUS
  <2>0. job \in [Jobs -> JobRow]
    BY DEF TypeOK
  <2>1. ASSUME NEW j \in Jobs, NEW p \in Periods, NEW old \in Jobs \cup {0}, Enqueue(j, p, old)
        PROVE  OneActivePerPeriod'
    BY <2>0, <2>1, IndexKeepsOne DEF Enqueue
  <2>2. ASSUME NEW j \in Jobs, WriteCancel(j)
        PROVE  OneActivePerPeriod'
    <3>1. /\ \A k \in Jobs : job'[k].period = job[k].period
          /\ \A k \in Jobs : job'[k].state \in {job[k].state, "cancelled"}
      BY <2>0, <2>2 DEF WriteCancel, JobRow
    <3> QED
      BY <3>1, NoNewLiveJob DEF Active
  <2>3. ASSUME NEW j \in Jobs, LeaseLapse(j)
        PROVE  OneActivePerPeriod'
    <3>1. \A k \in Jobs : job'[k].state = job[k].state /\ job'[k].period = job[k].period
      BY <2>0, <2>3 DEF LeaseLapse, JobRow
    <3> QED
      BY <3>1, NoNewLiveJob
  <2>4. ASSUME NEW w \in Workers, ClaimUpdate(w)
        PROVE  OneActivePerPeriod'
    <3>1. /\ \A k \in Jobs : job'[k].period = job[k].period
          /\ \A k \in Jobs : job'[k].state = job[k].state \/ job[k].state \in Active
      BY <2>0, <2>4, SMTT(30) DEF ClaimUpdate, Claimable, JobRow, Active
    <3> QED
      BY <3>1, NoNewLiveJob
  <2>5. ASSUME NEW w \in Workers,
               Begin(w) \/ Load(w) \/ ProgressTo(w, "validating") \/ ProgressTo(w, "recording")
        PROVE  OneActivePerPeriod'
    <3>1. \A k \in Jobs : job'[k].state = job[k].state /\ job'[k].period = job[k].period
      BY <2>0, <2>5 DEF Begin, Load, ProgressTo, JobRow
    <3> QED
      BY <3>1, NoNewLiveJob
  <2>6. ASSUME NEW w \in Workers, Record(w)
        PROVE  OneActivePerPeriod'
    <3> DEFINE j == wk[w].job
               seen == wk[w].seen
               mine == [seen EXCEPT !.state = "succeeded", !.owner = None,
                                    !.run = Len(runs) + 1]
               flushed == Flush(job[j], seen, mine)
               new == [flushed EXCEPT !.beat = "fresh"]
    <3>1. job[j] \in JobRow /\ seen \in JobRow
      BY <2>0, <2>6 DEF Record, TypeOK
    <3>2. /\ flushed.state \in {job[j].state, "succeeded"} /\ flushed.period = job[j].period
          /\ new.state = flushed.state /\ new.period = flushed.period
      BY <3>1 DEF Flush, JobRow
    <3>3. job' = job \/ job' = [job EXCEPT ![j] = new]
      BY <2>6 DEF Record
    <3> HIDE DEF j, new, flushed
    <3> QED
      BY <2>0, <3>2, <3>3, NoNewLiveJob DEF Active
  <2>7. ASSUME NEW w \in Workers, Close(w)
        PROVE  OneActivePerPeriod'
    <3> DEFINE j == wk[w].job
               seen == wk[w].seen
               mine == IF wk[w].exc = "JobCancelled" THEN MarkCancelled(seen)
                       ELSE Fail(seen, wk[w].exc = "PermanentJobError")
               new == Flush(job[j], seen, mine)
    <3>1. j \in Jobs
      BY <2>7 DEF Close, TypeOK
    <3>2. job' = job \/ (~IndexRefuses(j, new) /\ job' = [job EXCEPT ![j] = new])
      BY <2>7 DEF Close
    <3> HIDE DEF j, new
    <3> QED
      BY <2>0, <3>1, <3>2, IndexKeepsOne, NoNewLiveJob
  <2>8. CASE UNCHANGED job
    BY <2>8, NoNewLiveJob
  <2> QED
    BY <2>1, <2>2, <2>3, <2>4, <2>5, <2>6, <2>7, <2>8
    DEF Next, Api, Work, Claim, Submit, Retry, Progress, LastProgress, TypeOK, vars,
        CheckCancel, SyncRead, SyncRecord, ClaimSelect, ReadRuns, Throw, Reread, Crash
<1>3. QED
  BY <1>1, <1>2, TypeCorrect, PTL DEF Spec

--------------------------------------------------------------------------------
\* A month's later runs have higher numbers.
NumbersRise ==
  \A p \in Periods : \A r, s \in RunsOf(p) : r < s => runs[r].number < runs[s].number

\* What was read of month p: it is what a read would find now, or a run has been
\* recorded since and the index will refuse this reader's.
Faithful(p, prev) ==
  prev.cur \subseteq RunsOf(p) /\ (RunRefused(p, prev) \/ prev = ReadPrevious(p))

\* Everyone about to write a run has read its month faithfully.
ReadingsHold ==
  /\ \A w \in Workers : wk[w].pc = "writing" => Faithful(job[wk[w].job].period, wk[w].prev)
  /\ \A p \in Periods : sync[p].busy => Faithful(p, sync[p].prev)

\* The inductive invariant.
ChainInvariant == RunHistoryIsAChain /\ NumbersRise /\ ReadingsHold

--------------------------------------------------------------------------------
(* One run more.                                                           *)

\* A run of month p is recorded by one who read prev, and becomes run n.
Records(p, j, prev, n) ==
  /\ runs' = Recorded(p, j, prev)
  /\ n = Len(runs) + 1

\* Run indices are positions of the table, and each position holds a run row.
LEMMA RunsAreNumbered ==
  ASSUME runs \in Seq(RunRow)
  PROVE  /\ DOMAIN runs \subseteq Nat /\ Len(runs) \in Nat
         /\ \A r \in DOMAIN runs : r < Len(runs) + 1
         /\ \A p \in Periods : RunsOf(p) \subseteq DOMAIN runs
         /\ \A p \in Periods : CurrentRuns(p) \subseteq RunsOf(p)
         /\ \A r \in DOMAIN runs : runs[r] \in RunRow
BY DEF RunsOf, CurrentRuns

\* The rows after it, one by one.
RowsAfter(p, prev, n) ==
  /\ n \in Nat /\ n \notin DOMAIN runs
  /\ DOMAIN runs' = DOMAIN runs \cup {n}
  /\ \A r \in DOMAIN runs :
       /\ r < n
       /\ runs'[r].period = runs[r].period
       /\ runs'[r].number = runs[r].number
       /\ r \notin prev.cur => runs'[r] = runs[r]
       /\ r \in prev.cur => runs'[r].status = "superseded" /\ runs'[r].next = n
  /\ runs'[n].period = p /\ runs'[n].number = prev.top + 1
  /\ runs'[n].status = "current" /\ runs'[n].next = NoRun

\* record_run adds one row, and touches only those of the runs it read as current.
LEMMA RecordedRows ==
  ASSUME runs \in Seq(RunRow), NEW p \in Periods, NEW j \in Jobs \cup {0}, NEW prev \in Reading,
         NEW n, Records(p, j, prev, n)
  PROVE  RowsAfter(p, prev, n)
<1> DEFINE old == [r \in DOMAIN runs |->
                     IF r \in prev.cur
                     THEN [runs[r] EXCEPT !.status = "superseded", !.next = Len(runs) + 1]
                     ELSE runs[r]]
           new == [period |-> p, job |-> j, number |-> prev.top + 1,
                   status |-> "current", next |-> NoRun]
<1>1. DOMAIN runs = 1..Len(runs) /\ Len(runs) \in Nat
  OBVIOUS
<1>2. Recorded(p, j, prev) = Append(old, new) /\ n = Len(runs) + 1
  BY DEF Recorded, Records
<1>3. old \in [1..Len(runs) -> {old[r] : r \in DOMAIN runs}]
  BY <1>1
<1>4. /\ DOMAIN Append(old, new) = 1..n
      /\ \A r \in 1..Len(runs) : Append(old, new)[r] = old[r]
      /\ Append(old, new)[n] = new
  <2> HIDE DEF old, new
  <2> QED
    BY <1>1, <1>2, <1>3
<1>5. /\ DOMAIN runs' = DOMAIN runs \cup {n} /\ n \notin DOMAIN runs /\ n \in Nat
      /\ \A r \in DOMAIN runs : r < n /\ runs'[r] = old[r]
      /\ runs'[n] = new
  <2> HIDE DEF old, new
  <2> QED
    BY <1>1, <1>2, <1>4 DEF Records
<1>6. \A r \in DOMAIN runs :
        /\ old[r].period = runs[r].period /\ old[r].number = runs[r].number
        /\ r \notin prev.cur => old[r] = runs[r]
        /\ r \in prev.cur => old[r].status = "superseded" /\ old[r].next = n
  <2>1. \A r \in DOMAIN runs : runs[r] \in RunRow
    OBVIOUS
  <2> QED
    BY <1>2, <2>1 DEF RunRow
<1>7. /\ new.period = p /\ new.number = prev.top + 1
      /\ new.status = "current" /\ new.next = NoRun
  OBVIOUS
<1> HIDE DEF old, new
<1> QED
  BY <1>5, <1>6, <1>7 DEF RowsAfter

\* The runs of each month after it, and those that are current.
MonthsAfter(p, prev, n) ==
  /\ RunsOf(p)' = RunsOf(p) \cup {n}
  /\ CurrentRuns(p)' = (CurrentRuns(p) \ prev.cur) \cup {n}
  /\ \A q \in Periods \ {p} : /\ RunsOf(q)' = RunsOf(q)
                              /\ CurrentRuns(q)' = CurrentRuns(q)
                              /\ \A r \in RunsOf(q) : runs'[r] = runs[r]

\* Seen by month: the month written to gains a run, which is its current one; the
\* other months keep theirs.
LEMMA RecordedMonths ==
  ASSUME runs \in Seq(RunRow), NEW p \in Periods, NEW j \in Jobs \cup {0}, NEW prev \in Reading,
         prev.cur \subseteq RunsOf(p), NEW n, Records(p, j, prev, n)
  PROVE  MonthsAfter(p, prev, n)
<1>0. RowsAfter(p, prev, n)
  BY RecordedRows
<1>1. RunsOf(p)' = RunsOf(p) \cup {n}
  BY <1>0 DEF RunsOf, RowsAfter
<1>2. CurrentRuns(p)' = (CurrentRuns(p) \ prev.cur) \cup {n}
  BY <1>0, <1>1 DEF CurrentRuns, RunsOf, RowsAfter
<1>3. ASSUME NEW q \in Periods, q # p
      PROVE  /\ RunsOf(q)' = RunsOf(q)
             /\ CurrentRuns(q)' = CurrentRuns(q)
             /\ \A r \in RunsOf(q) : runs'[r] = runs[r]
  <2>1. RunsOf(q)' = RunsOf(q)
    BY <1>0, <1>3 DEF RunsOf, RowsAfter
  <2>2. \A r \in RunsOf(q) : runs'[r] = runs[r]
    BY <1>0, <1>3 DEF RunsOf, RowsAfter
  <2> QED
    BY <2>1, <2>2 DEF CurrentRuns
<1> QED
  BY <1>1, <1>2, <1>3 DEF MonthsAfter

--------------------------------------------------------------------------------
(* The chain.                                                              *)

Earlier(p, r) == {s \in RunsOf(p) : s < r}
Later(p, r) == {s \in RunsOf(p) : s > r}

\* One link of RunHistoryIsAChain.
Linked(p, r) ==
  /\ runs[r].number = 1 + (IF Earlier(p, r) = {} THEN 0 ELSE runs[Max(Earlier(p, r))].number)
  /\ IF Later(p, r) = {}
     THEN runs[r].status = "current" /\ runs[r].next = NoRun
     ELSE runs[r].status = "superseded" /\ runs[r].next = Min(Later(p, r))

\* The chain invariant, one link at a time.
LEMMA ChainIsLinks == RunHistoryIsAChain <=> \A p \in Periods : \A r \in RunsOf(p) : Linked(p, r)
BY DEF RunHistoryIsAChain, Linked, Earlier, Later

\* What a reader finds: the number of the last run and the last run itself.
LEMMA ReadPreviousIsTheLast ==
  ASSUME runs \in Seq(RunRow), NEW p \in Periods, RunHistoryIsAChain, NumbersRise
  PROVE  /\ ReadPrevious(p).cur = CurrentRuns(p)
         /\ RunsOf(p) = {} => ReadPrevious(p).top = 0 /\ CurrentRuns(p) = {}
         /\ RunsOf(p) # {} => /\ ReadPrevious(p).top = runs[Max(RunsOf(p))].number
                              /\ CurrentRuns(p) = {Max(RunsOf(p))}
         /\ \A r \in RunsOf(p) : runs[r].number <= ReadPrevious(p).top
<1> DEFINE R == RunsOf(p)
           N == {runs[r].number : r \in R}
           number == [r \in R |-> runs[r].number]
<1>1. R \subseteq DOMAIN runs /\ R \subseteq Int /\ IsFiniteSet(R)
  BY RunsAreFinite DEF RunsOf
<1>2. \A r \in R : runs[r].number \in Nat
  <2>1. \A r \in DOMAIN runs : runs[r] \in RunRow
    OBVIOUS
  <2>2. \A x \in RunRow : x.number \in Nat
    BY DEF RunRow
  <2> QED
    BY <1>1, <2>1, <2>2
<1>3. CASE R = {}
  BY <1>3 DEF ReadPrevious, CurrentRuns
<1>4. CASE R # {}
  <2>1. Max(R) \in R /\ \A r \in R : r <= Max(R)
    <3> HIDE DEF R
    <3> QED
      BY <1>1, <1>4, MaxProperties
  <2>2. Max(N) \in N /\ \A x \in N : x <= Max(N)
    <3>1. number \in Surjection(R, N)
      BY DEF Surjection
    <3>2. IsFiniteSet(N)
      BY <1>1, <3>1, FS_Surjection
    <3>3. N \subseteq Int /\ N # {}
      BY <1>2, <1>4
    <3> HIDE DEF N
    <3> QED
      BY <3>2, <3>3, MaxProperties
  <2>3. Max(N) = runs[Max(R)].number
    <3>1. PICK r \in R : runs[r].number = Max(N)
      BY <2>2
    <3>2. runs[Max(R)].number <= Max(N) /\ runs[Max(R)].number \in Nat /\ runs[r].number \in Nat
      BY <1>2, <2>1, <2>2
    <3>3. r < Max(R) => runs[r].number < runs[Max(R)].number
      BY <2>1 DEF NumbersRise
    <3>4. r = Max(R) \/ r < Max(R)
      BY <1>1, <2>1
    <3> QED
      BY <3>1, <3>2, <3>3, <3>4
  <2>4. \A r \in R : Later(p, r) = {} <=> r = Max(R)
    <3>1. \A r \in R : r = Max(R) \/ r < Max(R)
      BY <1>1, <2>1
    <3>2. \A r \in R : r < Max(R) => Max(R) \in Later(p, r)
      BY <1>1, <2>1 DEF Later
    <3>3. Later(p, Max(R)) = {}
      BY <1>1, <2>1 DEF Later
    <3> QED
      BY <3>1, <3>2, <3>3, <1>1
  <2>5. CurrentRuns(p) = {Max(R)}
    <3>1. \A r \in R : runs[r].status = "current" <=> r = Max(R)
      BY <2>4, ChainIsLinks DEF Linked
    <3> QED
      BY <2>1, <3>1 DEF CurrentRuns
  <2>6. ReadPrevious(p).top = Max(N) /\ ReadPrevious(p).cur = CurrentRuns(p)
    BY <1>4 DEF ReadPrevious
  <2>7. \A r \in R : runs[r].number <= Max(N)
    BY <2>2
  <2> HIDE DEF N
  <2> QED
    BY <1>4, <2>3, <2>5, <2>6, <2>7
<1> QED
  BY <1>3, <1>4

\* A faithful reader's run is the next link.
LEMMA RecordedChain ==
  ASSUME runs \in Seq(RunRow), NEW p \in Periods, NEW j \in Jobs \cup {0}, NEW prev \in Reading,
         RunHistoryIsAChain, NumbersRise,
         Faithful(p, prev), ~RunRefused(p, prev), NEW n, Records(p, j, prev, n)
  PROVE  RunHistoryIsAChain' /\ NumbersRise'
<1>1. prev = ReadPrevious(p) /\ prev.cur \subseteq RunsOf(p)
  BY DEF Faithful
<1>2. RowsAfter(p, prev, n) /\ MonthsAfter(p, prev, n)
  BY <1>1, RecordedRows, RecordedMonths
<1>3. \A q \in Periods : /\ RunsOf(q) \subseteq DOMAIN runs /\ RunsOf(q) \subseteq Int
                         /\ IsFiniteSet(RunsOf(q))
  BY RunsAreFinite DEF RunsOf
<1>4. \A q \in Periods : \A r \in RunsOf(q) :
        /\ r < n /\ runs'[r].number = runs[r].number
        /\ Earlier(q, r)' = Earlier(q, r)
  BY <1>2, <1>3 DEF RowsAfter, MonthsAfter, Earlier
<1>5. \A q \in Periods : \A r \in RunsOf(q) :
        Earlier(q, r) # {} => runs'[Max(Earlier(q, r))].number = runs[Max(Earlier(q, r))].number
  <2> SUFFICES ASSUME NEW q \in Periods, NEW r \in RunsOf(q), Earlier(q, r) # {}
               PROVE  runs'[Max(Earlier(q, r))].number = runs[Max(Earlier(q, r))].number
    OBVIOUS
  <2>1. Earlier(q, r) \subseteq RunsOf(q) /\ IsFiniteSet(Earlier(q, r))
    BY <1>3, FS_Subset DEF Earlier
  <2>2. Max(Earlier(q, r)) \in RunsOf(q)
    BY <1>3, <2>1, MaxProperties
  <2> QED
    BY <1>4, <2>2
<1>6. ASSUME NEW q \in Periods, NEW r \in RunsOf(q)
      PROVE  runs'[r].number = 1 + (IF Earlier(q, r)' = {} THEN 0
                                    ELSE runs'[Max(Earlier(q, r)')].number)
  BY <1>4, <1>5, ChainIsLinks DEF Linked
<1>7. ASSUME NEW q \in Periods, q # p, NEW r \in RunsOf(q)
      PROVE  Linked(q, r)'
  <2>1. runs'[r] = runs[r] /\ Later(q, r)' = Later(q, r)
    BY <1>2, <1>7 DEF MonthsAfter, Later
  <2> QED
    BY <1>6, <2>1, ChainIsLinks DEF Linked
<1>8. ASSUME NEW r \in RunsOf(p)
      PROVE  Linked(p, r)'
  <2>1. Later(p, r)' = Later(p, r) \cup {n} /\ n \in Int
    BY <1>2, <1>4 DEF MonthsAfter, RowsAfter, Later
  <2>2. r \in CurrentRuns(p) <=> Later(p, r) = {}
    BY ChainIsLinks DEF Linked, CurrentRuns
  <2>3. CASE Later(p, r) = {}
    <3>1. runs'[r].status = "superseded" /\ runs'[r].next = n
      BY <1>1, <1>2, <1>3, <2>2, <2>3, ReadPreviousIsTheLast DEF RowsAfter
    <3>2. Min({n}) = n
      BY <2>1 DEF Min
    <3> QED
      BY <1>6, <2>1, <2>3, <3>1, <3>2 DEF Linked
  <2>4. CASE Later(p, r) # {}
    <3>1. runs'[r] = runs[r]
      BY <1>1, <1>2, <1>3, <2>2, <2>4, ReadPreviousIsTheLast DEF RowsAfter
    <3>2. Later(p, r) \subseteq RunsOf(p) /\ IsFiniteSet(Later(p, r)) /\ Later(p, r) \subseteq Int
      BY <1>3, FS_Subset DEF Later
    <3>3. Min(Later(p, r)) \in Later(p, r) /\ \A s \in Later(p, r) : Min(Later(p, r)) <= s
      BY <2>4, <3>2, MinProperties
    <3>4. IsFiniteSet(Later(p, r) \cup {n}) /\ Later(p, r) \cup {n} \subseteq Int
      BY <2>1, <3>2, FS_AddElement
    <3>5. /\ Min(Later(p, r) \cup {n}) \in Later(p, r) \cup {n}
          /\ \A s \in Later(p, r) \cup {n} : Min(Later(p, r) \cup {n}) <= s
      BY <3>4, MinProperties
    <3>6. Min(Later(p, r) \cup {n}) = Min(Later(p, r))
      <4>1. Min(Later(p, r)) < n
        BY <1>4, <3>2, <3>3
      <4> DEFINE L == Later(p, r)
                 a == Min(L)
                 b == Min(L \cup {n})
      <4>2. a \in L /\ a \in Int /\ n \in Int /\ a < n /\ \A s \in L : a <= s
        BY <2>1, <3>2, <3>3, <4>1
      <4>3. b \in L \cup {n} /\ b \in Int /\ b <= a
        BY <2>1, <3>2, <3>5, <4>2
      <4> HIDE DEF a, b, L
      <4>4. b # n
        BY <4>2, <4>3
      <4>5. a <= b
        BY <4>2, <4>3, <4>4
      <4>6. a = b
        BY <4>2, <4>3, <4>5
      <4> QED
        BY <4>6 DEF a, b, L
    <3> QED
      BY <1>6, <2>1, <2>4, <3>1, <3>6, ChainIsLinks DEF Linked
  <2> QED
    BY <2>3, <2>4
<1>9. Linked(p, n)'
  <2>1. Earlier(p, n)' = RunsOf(p) /\ Later(p, n)' = {}
    BY <1>2, <1>3, <1>4 DEF MonthsAfter, RowsAfter, Earlier, Later
  <2>2. RunsOf(p) # {} => Max(RunsOf(p)) \in RunsOf(p)
    BY <1>3, MaxProperties
  <2>3. prev.top = IF RunsOf(p) = {} THEN 0 ELSE runs'[Max(RunsOf(p))].number
    BY <1>1, <1>4, <2>2, ReadPreviousIsTheLast
  <2>4. prev.top \in Nat
    BY DEF Reading
  <2> QED
    BY <1>2, <2>1, <2>3, <2>4 DEF RowsAfter, Linked
<1>10. RunHistoryIsAChain'
  <2>1. \A q \in Periods : \A r \in RunsOf(q)' : Linked(q, r)'
    BY <1>2, <1>7, <1>8, <1>9 DEF MonthsAfter
  <2> QED
    BY <2>1 DEF RunHistoryIsAChain, Linked, Earlier, Later
<1>11. NumbersRise'
  <2>1. \A r \in RunsOf(p) : runs[r].number <= prev.top /\ runs[r].number \in Nat
    <3>1. \A r \in RunsOf(p) : runs[r].number <= prev.top
      BY <1>1, ReadPreviousIsTheLast
    <3>2. \A r \in DOMAIN runs : runs[r] \in RunRow
      OBVIOUS
    <3>3. \A x \in RunRow : x.number \in Nat
      BY DEF RunRow
    <3> QED
      BY <1>3, <3>1, <3>2, <3>3
  <2>2. prev.top \in Nat
    BY DEF Reading
  <2>3. \A r \in RunsOf(p) : runs'[r].number < runs'[n].number
    BY <1>2, <1>4, <2>1, <2>2 DEF RowsAfter
  <2>4. ASSUME NEW q \in Periods, NEW r \in RunsOf(q), NEW s \in RunsOf(q), r < s
        PROVE  runs'[r].number < runs'[s].number
    BY <1>4, <2>4 DEF NumbersRise
  <2>5. ~(n < n) /\ \A r \in RunsOf(p) : ~(n < r)
    BY <1>2, <1>3, <1>4 DEF RowsAfter
  <2>6. ASSUME NEW q \in Periods, NEW r \in RunsOf(q)', NEW s \in RunsOf(q)', r < s
        PROVE  runs'[r].number < runs'[s].number
    <3>1. CASE q = p /\ (r = n \/ s = n)
      <4>1. RunsOf(p)' = RunsOf(p) \cup {n}
        BY <1>2 DEF MonthsAfter
      <4>2. r \in RunsOf(p) \cup {n} /\ s \in RunsOf(p) \cup {n}
        BY <3>1, <4>1
      <4>3. r # n
        BY <2>5, <2>6, <4>2
      <4> QED
        BY <2>3, <3>1, <4>2, <4>3
    <3>2. CASE ~(q = p /\ (r = n \/ s = n))
      <4>1. r \in RunsOf(q) /\ s \in RunsOf(q)
        BY <1>2, <2>6, <3>2 DEF MonthsAfter
      <4> QED
        BY <2>4, <2>6, <4>1
    <3> QED
      BY <3>1, <3>2
  <2> QED
    BY <2>6 DEF NumbersRise
<1> QED
  BY <1>10, <1>11

--------------------------------------------------------------------------------
(* The readers.                                                            *)

\* A run recorded by another leaves a reading faithful: it is of another month,
\* or the reader will be refused.
LEMMA RecordedFaithful ==
  ASSUME runs \in Seq(RunRow), NEW p \in Periods, NEW j \in Jobs \cup {0}, NEW prev \in Reading,
         prev.cur \subseteq RunsOf(p), NEW n, Records(p, j, prev, n),
         NEW q \in Periods, NEW other \in Reading, Faithful(q, other)
  PROVE  Faithful(q, other)'
<1>1. RowsAfter(p, prev, n) /\ MonthsAfter(p, prev, n)
  BY RecordedRows, RecordedMonths
<1>2. CASE q = p
  <2>1. other.cur \subseteq RunsOf(p) /\ n \in CurrentRuns(p)' /\ RunsOf(p)' = RunsOf(p) \cup {n}
    BY <1>1, <1>2 DEF Faithful, MonthsAfter
  <2>2. n \notin other.cur
    BY <1>1, <2>1 DEF RowsAfter, RunsOf
  <2> QED
    BY <1>2, <2>1, <2>2 DEF Faithful, RunRefused
<1>3. CASE q # p
  <2>1. /\ RunsOf(q)' = RunsOf(q) /\ CurrentRuns(q)' = CurrentRuns(q)
        /\ \A r \in RunsOf(q) : runs'[r] = runs[r]
    BY <1>1, <1>3 DEF MonthsAfter
  <2>2. {runs'[r].number : r \in RunsOf(q)} = {runs[r].number : r \in RunsOf(q)}
    BY <2>1
  <2>3. ReadPrevious(q)' = ReadPrevious(q)
    BY <2>1, <2>2 DEF ReadPrevious
  <2> QED
    BY <2>1, <2>3 DEF Faithful, RunRefused
<1> QED
  BY <1>2, <1>3

\* What a reader reads is faithful.
LEMMA ReadPreviousFaithful ==
  ASSUME NEW p
  PROVE  Faithful(p, ReadPrevious(p))
BY DEF Faithful, ReadPrevious, CurrentRuns

\* A job keeps its month for good.
LEMMA PeriodsKept ==
  ASSUME TypeOK, [Next]_vars
  PROVE  \A j \in Jobs : job[j].state # "absent" => job'[j].period = job[j].period
<1>0. job \in [Jobs -> JobRow]
  BY DEF TypeOK
<1>1. ASSUME NEW j \in Jobs, NEW p \in Periods, NEW old \in Jobs \cup {0}, Enqueue(j, p, old)
      PROVE  \A k \in Jobs : job[k].state # "absent" => job'[k].period = job[k].period
  BY <1>0, <1>1 DEF Enqueue
<1>2. ASSUME NEW j \in Jobs, WriteCancel(j) \/ LeaseLapse(j)
      PROVE  \A k \in Jobs : job'[k].period = job[k].period
  BY <1>0, <1>2 DEF WriteCancel, LeaseLapse, JobRow
<1>3. ASSUME NEW w \in Workers,
             ClaimUpdate(w) \/ Begin(w) \/ Load(w) \/ ProgressTo(w, "validating")
               \/ ProgressTo(w, "recording")
      PROVE  \A k \in Jobs : job'[k].period = job[k].period
  <2>1. CASE ClaimUpdate(w)
    <3> DEFINE j == wk[w].job
    <3>1. CASE Claimable(j)
      <4>1. job' = [job EXCEPT ![j].state = "running", ![j].owner = w, ![j].beat = "fresh",
                               ![j].attempts = @ + 1]
        BY <2>1, <3>1 DEF ClaimUpdate
      <4> QED
        BY <1>0, <4>1 DEF JobRow
    <3>2. CASE ~ Claimable(j)
      BY <2>1, <3>2 DEF ClaimUpdate
    <3> QED
      BY <3>1, <3>2
  <2>2. CASE Begin(w)
    BY <1>0, <2>2 DEF Begin, JobRow
  <2>3. CASE Load(w)
    BY <1>0, <2>3 DEF Load, JobRow
  <2>4. CASE ProgressTo(w, "validating") \/ ProgressTo(w, "recording")
    BY <1>0, <2>4 DEF ProgressTo, JobRow
  <2>5. QED
    BY <1>3, <2>1, <2>2, <2>3, <2>4
<1>4. ASSUME NEW w \in Workers, Record(w) \/ Close(w)
      PROVE  \A k \in Jobs : job'[k].period = job[k].period
  <2> DEFINE j == wk[w].job
             seen == wk[w].seen
             done == [seen EXCEPT !.state = "succeeded", !.owner = None, !.run = Len(runs) + 1]
             recorded == [Flush(job[j], seen, done) EXCEPT !.beat = "fresh"]
             mine == IF wk[w].exc = "JobCancelled" THEN MarkCancelled(seen)
                     ELSE Fail(seen, wk[w].exc = "PermanentJobError")
             closed == Flush(job[j], seen, mine)
  <2>1. j \in Jobs /\ job[j] \in JobRow /\ seen \in JobRow
    BY <1>0, <1>4 DEF Record, Close, TypeOK
  <2>2. recorded.period = job[j].period
    BY <2>1 DEF Flush, JobRow
  <2>3. closed.period = job[j].period
    <3>1. mine.period = seen.period
      BY <2>1 DEF MarkCancelled, Fail, JobRow
    <3> HIDE DEF mine
    <3> QED
      BY <2>1, <3>1 DEF Flush, JobRow
  <2>4. job' = job \/ job' = [job EXCEPT ![j] = recorded] \/ job' = [job EXCEPT ![j] = closed]
    BY <1>4 DEF Record, Close
  <2> HIDE DEF j, recorded, closed
  <2> QED
    BY <1>0, <2>1, <2>2, <2>3, <2>4
<1>5. CASE UNCHANGED job
  BY <1>5
<1> QED
  BY <1>1, <1>2, <1>3, <1>4, <1>5
  DEF Next, Api, Work, Claim, Submit, Retry, Progress, LastProgress, vars, TypeOK,
      CheckCancel, SyncRead, SyncRecord, ClaimSelect, ReadRuns, Throw, Reread, Crash

\* A worker about to write a run has just read its month, or was about to already.
LEMMA WritersKept ==
  ASSUME TypeOK, [Next]_vars, NEW w \in Workers, wk'[w].pc = "writing"
  PROVE  \/ wk[w].pc = "writing" /\ wk'[w].job = wk[w].job /\ wk'[w].prev = wk[w].prev
         \/ ReadRuns(w)
<1>0. wk \in [Workers -> WorkerRow]
  BY DEF TypeOK, WorkerRow
<1>1. ASSUME NEW v \in Workers, NEW j \in Jobs, ClaimSelect(v, j)
      PROVE  wk'[w] = wk[w]
  BY <1>0, <1>1 DEF ClaimSelect, Idle
<1>2. ASSUME NEW v \in Workers, ClaimUpdate(v) \/ Begin(v) \/ Load(v)
      PROVE  wk'[w] = wk[w]
  <2>1. \/ wk' = [wk EXCEPT ![v] = Idle]
        \/ wk' = [wk EXCEPT ![v] = Raised(v, "JobCancelled")]
        \/ \E pc \in {"claimed", "loading", "validating"} : wk' = [wk EXCEPT ![v].pc = pc]
    BY <1>2 DEF ClaimUpdate, Begin, Load
  <2>2. Idle.pc = "idle" /\ Raised(v, "JobCancelled").pc = "failing"
    BY DEF Raised, Idle
  <2>3. \A pc \in {"claimed", "loading", "validating"} : [wk[v] EXCEPT !.pc = pc].pc = pc
    BY <1>0 DEF WorkerRow
  <2> QED
    BY <1>0, <2>1, <2>2, <2>3
<1>3. ASSUME NEW v \in Workers, Record(v) \/ Close(v) \/ Crash(v)
      PROVE  wk'[w] = wk[w]
  <2>1. \/ wk' = [wk EXCEPT ![v] = Idle]
        \/ wk' = [wk EXCEPT ![v] = Raised(v, "IntegrityError")]
    BY <1>3 DEF Record, Close, Crash
  <2>2. Idle.pc = "idle" /\ Raised(v, "IntegrityError").pc = "failing"
    BY DEF Raised, Idle
  <2> QED
    BY <1>0, <2>1, <2>2
<1>4. ASSUME NEW v \in Workers, Throw(v) \/ Reread(v)
      PROVE  wk'[w] = wk[w]
  <2>1. CASE Throw(v)
    BY <1>0, <2>1, ZenonT(60) DEF Throw, Raised, Idle, WorkerRow
  <2>2. CASE Reread(v)
    BY <1>0, <2>2 DEF Reread, Raised, Idle, WorkerRow
  <2> QED
    BY <1>4, <2>1, <2>2
<1>5. ASSUME NEW v \in Workers, ProgressTo(v, "validating") \/ ProgressTo(v, "recording")
      PROVE  wk'[w] = wk[w]
  <2> DEFINE read == [job[wk[v].job] EXCEPT !.beat = "fresh"]
  <2>1. \/ wk' = [wk EXCEPT ![v] = Raised(v, "JobCancelled")]
        \/ wk' = [wk EXCEPT ![v] = [@ EXCEPT !.pc = "recording", !.seen = read]]
        \/ wk' = [wk EXCEPT ![v] = @]
    BY <1>5 DEF ProgressTo
  <2> HIDE DEF read
  <2> QED
    BY <1>0, <2>1 DEF Raised, Idle, WorkerRow
<1>6. ASSUME NEW v \in Workers, ReadRuns(v)
      PROVE  wk'[w] = wk[w] \/ ReadRuns(w)
  BY <1>0, <1>6 DEF ReadRuns
<1>7. CASE UNCHANGED wk
  BY <1>7
<1> QED
  BY <1>1, <1>2, <1>3, <1>4, <1>5, <1>6, <1>7
  DEF Next, Api, Work, Claim, Submit, Retry, Enqueue, Progress, LastProgress, vars,
      CheckCancel, WriteCancel, SyncRead, SyncRecord, LeaseLapse

\* So has a synchronous validation about to write one.
LEMMA SyncKept ==
  ASSUME TypeOK, [Next]_vars, NEW p \in Periods, sync'[p].busy
  PROVE  sync'[p] = sync[p] \/ SyncRead(p)
<1>1. ASSUME NEW q \in Periods, SyncRead(q)
      PROVE  sync'[p] = sync[p] \/ SyncRead(p)
  BY <1>1 DEF SyncRead, TypeOK
<1>2. ASSUME NEW q \in Periods, SyncRecord(q)
      PROVE  sync'[p] = sync[p]
  BY <1>2 DEF SyncRecord, TypeOK
<1> QED
  BY <1>1, <1>2
  DEF Next, Api, Work, Claim, Submit, Retry, Enqueue, Progress, LastProgress, vars,
      CheckCancel, WriteCancel, LeaseLapse, ClaimSelect, ClaimUpdate, Begin, Load,
      ProgressTo, ReadRuns, Record, Throw, Reread, Close, Crash

--------------------------------------------------------------------------------
(* The theorems.                                                           *)

\* Every step leaves the runs alone or records one: the worker's or the
\* synchronous endpoint's, of a month it read faithfully and is not refused.
Writes(p, j, prev) ==
  /\ p \in Periods /\ j \in Jobs \cup {0} /\ prev \in Reading
  /\ Faithful(p, prev) /\ ~RunRefused(p, prev)
  /\ Records(p, j, prev, Len(runs) + 1)

\* A step that changes the runs is one writing of a run by a faithful reader, and
\* every other step leaves the table alone.
LEMMA RunsStep ==
  ASSUME TypeOK, ReadingsHold, [Next]_vars
  PROVE  runs' = runs \/ \E p, j, prev : Writes(p, j, prev)
<1>1. ASSUME NEW w \in Workers, Record(w), runs' # runs
      PROVE  Writes(job[wk[w].job].period, wk[w].job, wk[w].prev)
  <2>1. wk[w].pc = "writing" /\ wk[w].job \in Jobs /\ job[wk[w].job].state # "absent"
    BY <1>1 DEF Record, TypeOK
  <2>2. job[wk[w].job].period \in Periods /\ wk[w].prev \in Reading
    BY <2>1 DEF TypeOK
  <2>3. ~RunRefused(job[wk[w].job].period, wk[w].prev)
    BY <1>1 DEF Record
  <2>4. runs' = Recorded(job[wk[w].job].period, wk[w].job, wk[w].prev)
    BY <1>1, <2>3 DEF Record
  <2> QED
    BY <2>1, <2>2, <2>3, <2>4 DEF Writes, Records, ReadingsHold
<1>2. ASSUME NEW p \in Periods, SyncRecord(p), runs' # runs
      PROVE  Writes(p, 0, sync[p].prev)
  <2>1. sync[p].busy /\ sync[p].prev \in Reading
    BY <1>2 DEF SyncRecord, TypeOK
  <2> QED
    BY <1>2, <2>1 DEF SyncRecord, Writes, Records, ReadingsHold
<1> QED
  BY <1>1, <1>2
  DEF Next, Api, Work, Claim, Submit, Retry, Enqueue, Progress, LastProgress, vars,
      CheckCancel, WriteCancel, SyncRead, LeaseLapse, ClaimSelect, ClaimUpdate, Begin, Load,
      ProgressTo, ReadRuns, Throw, Reread, Close, Crash

\* The chain of each month's runs is never broken, by any number of workers,
\* retries and synchronous validations.
THEOREM ChainHolds == Spec => []ChainInvariant
<1>1. Init => ChainInvariant
  BY DEF Init, ChainInvariant, RunHistoryIsAChain, NumbersRise, ReadingsHold, RunsOf, Idle
<1>2. TypeOK /\ TypeOK' /\ ChainInvariant /\ [Next]_vars => ChainInvariant'
  <2> SUFFICES ASSUME TypeOK, TypeOK', ChainInvariant, [Next]_vars
               PROVE  ChainInvariant'
    OBVIOUS
  <2>0. runs \in Seq(RunRow) /\ RunHistoryIsAChain /\ NumbersRise /\ ReadingsHold
    BY DEF TypeOK, ChainInvariant
  <2>1. RunHistoryIsAChain' /\ NumbersRise'
    <3>1. CASE runs' = runs
      <4>1. \A p \in Periods : RunsOf(p)' = RunsOf(p)
        BY <3>1 DEF RunsOf
      <4>2. NumbersRise'
        BY <2>0, <3>1, <4>1 DEF NumbersRise
      <4>3. ASSUME NEW p \in Periods, NEW r \in RunsOf(p)
            PROVE  Linked(p, r)'
        <5>1. Earlier(p, r)' = Earlier(p, r) /\ Later(p, r)' = Later(p, r)
          BY <4>1 DEF Earlier, Later
        <5>2. Linked(p, r)
          BY <2>0, ChainIsLinks
        <5> QED
          BY <3>1, <5>1, <5>2 DEF Linked
      <4>4. \A p \in Periods : \A r \in RunsOf(p)' : Linked(p, r)'
        BY <4>1, <4>3
      <4> QED
        BY <4>2, <4>4 DEF RunHistoryIsAChain, Linked, Earlier, Later
    <3>2. ASSUME NEW p, NEW j, NEW prev, Writes(p, j, prev)
          PROVE  RunHistoryIsAChain' /\ NumbersRise'
      <4>1. /\ p \in Periods /\ j \in Jobs \cup {0} /\ prev \in Reading
            /\ Faithful(p, prev) /\ ~RunRefused(p, prev)
            /\ Records(p, j, prev, Len(runs) + 1)
        BY <3>2 DEF Writes
      <4> QED
        BY <2>0, <4>1, RecordedChain
    <3> QED
      BY <2>0, <3>1, <3>2, RunsStep
  <2>2. ASSUME NEW q \in Periods, NEW other \in Reading, Faithful(q, other)
        PROVE  Faithful(q, other)'
    <3>1. CASE runs' = runs
      BY <2>2, <3>1, SMTT(30) DEF Faithful, RunRefused, ReadPrevious, CurrentRuns, RunsOf
    <3>2. ASSUME NEW p, NEW j, NEW prev, Writes(p, j, prev)
          PROVE  Faithful(q, other)'
      BY <2>0, <2>2, <3>2, RecordedFaithful DEF Writes, Faithful
    <3> QED
      BY <2>0, <3>1, <3>2, RunsStep
  <2>3. ASSUME NEW w \in Workers, wk'[w].pc = "writing"
        PROVE  Faithful(job[wk[w].job].period, wk[w].prev)'
    <3>1. CASE ReadRuns(w)
      <4> DEFINE p == job[wk[w].job].period
      <4>1. UNCHANGED <<job, runs>> /\ wk'[w].job = wk[w].job /\ wk'[w].prev = ReadPrevious(p)
        BY <3>1, SMTT(30) DEF ReadRuns, TypeOK
      <4>2. Faithful(p, ReadPrevious(p))
        BY ReadPreviousFaithful
      <4> QED
        BY <4>1, <4>2 DEF Faithful, RunRefused, ReadPrevious, CurrentRuns, RunsOf
    <3>2. CASE wk[w].pc = "writing" /\ wk'[w].job = wk[w].job /\ wk'[w].prev = wk[w].prev
      <4>1. wk[w].job \in Jobs /\ job[wk[w].job].state # "absent" /\ wk[w].prev \in Reading
        BY <3>2 DEF TypeOK
      <4>2. job[wk[w].job].period \in Periods
        BY <4>1 DEF TypeOK
      <4>3. job'[wk'[w].job].period = job[wk[w].job].period
        BY <3>2, <4>1, PeriodsKept
      <4>4. Faithful(job[wk[w].job].period, wk[w].prev)
        BY <2>0, <3>2 DEF ReadingsHold
      <4>5. ASSUME NEW x \in Periods, NEW y \in Reading, Faithful(x, y),
                   x = job'[wk'[w].job].period, y = wk'[w].prev
            PROVE  Faithful(job[wk[w].job].period, wk[w].prev)'
        <5>1. Faithful(x, y)'
          BY <2>2, <4>5
        <5> QED
          BY <4>5, <5>1 DEF Faithful, RunRefused, ReadPrevious, CurrentRuns, RunsOf
      <4> QED
        BY <3>2, <4>1, <4>2, <4>3, <4>4, <4>5
    <3> QED
      BY <2>3, <3>1, <3>2, WritersKept
  <2>4. ASSUME NEW p \in Periods, sync'[p].busy
        PROVE  Faithful(p, sync[p].prev)'
    <3>1. CASE SyncRead(p)
      <4>1. runs' = runs /\ sync'[p].prev = ReadPrevious(p)
        BY <3>1 DEF SyncRead, TypeOK
      <4>2. Faithful(p, ReadPrevious(p))
        BY ReadPreviousFaithful
      <4> QED
        BY <4>1, <4>2 DEF Faithful, RunRefused, ReadPrevious, CurrentRuns, RunsOf
    <3>2. CASE sync'[p] = sync[p]
      <4>1. sync[p].prev \in Reading /\ Faithful(p, sync[p].prev)
        BY <2>0, <2>4, <3>2 DEF TypeOK, ReadingsHold
      <4>2. ASSUME NEW y \in Reading, Faithful(p, y), y = sync'[p].prev
            PROVE  Faithful(p, sync[p].prev)'
        <5>1. Faithful(p, y)'
          BY <2>2, <4>2
        <5> QED
          BY <4>2, <5>1 DEF Faithful, RunRefused, ReadPrevious, CurrentRuns, RunsOf
      <4> QED
        BY <3>2, <4>1, <4>2
    <3> QED
      BY <2>4, <3>1, <3>2, SyncKept
  <2> QED
    BY <2>1, <2>3, <2>4 DEF ChainInvariant, ReadingsHold
<1>3. QED
  BY <1>1, <1>2, TypeCorrect, PTL DEF Spec

\* A month's runs are one chain: the invariant the runs check, for any number of
\* workers, months, jobs and validations.
THEOREM RunHistory == Spec => []RunHistoryIsAChain
BY ChainHolds, PTL DEF ChainInvariant

--------------------------------------------------------------------------------
(* The ledger.                                                             *)

Answer(p) == IF CurrentRuns(p) = {} THEN NoRun ELSE Max(CurrentRuns(p))
Past(p) == RunsOf(p) \ CurrentRuns(p)

\* What a month's chain says of its answer.
LEMMA AnswerIsTheLast ==
  ASSUME TypeOK, ChainInvariant, NEW p \in Periods
  PROVE  /\ CurrentRuns(p) = {Answer(p)} \ {NoRun}
         /\ CurrentRuns(p) \subseteq DOMAIN runs /\ Past(p) \subseteq DOMAIN runs
         /\ Answer(p) \in DOMAIN runs \cup {NoRun}
<1>1. runs \in Seq(RunRow) /\ RunHistoryIsAChain /\ NumbersRise
  BY DEF TypeOK, ChainInvariant
<1>2. RunsOf(p) \subseteq DOMAIN runs /\ CurrentRuns(p) \subseteq DOMAIN runs
  BY DEF RunsOf, CurrentRuns
<1>3. \A r \in DOMAIN runs : r # NoRun /\ r \in Int
  BY <1>1 DEF NoRun
<1>4. CASE CurrentRuns(p) = {}
  BY <1>2, <1>4 DEF Answer, Past
<1>5. CASE CurrentRuns(p) # {}
  <2>1. PICK m : CurrentRuns(p) = {m}
    BY <1>1, <1>5, ReadPreviousIsTheLast
  <2>2. m \in DOMAIN runs /\ m # NoRun /\ m \in Int
    BY <1>2, <1>3, <2>1
  <2>3. Max({m}) = m
    BY <2>2 DEF Max
  <2> QED
    BY <1>2, <1>5, <2>1, <2>2, <2>3 DEF Answer, Past
<1> QED
  BY <1>4, <1>5

\* The queue implements the ledger: a month's answer is only ever replaced by a
\* run nobody has seen, and the run it replaces is kept for good.
THEOREM LedgerIsKept == Spec => KeepsTheLedger
<1>1. Init => Ledger!Init
  BY DEF Init, Ledger!Init, CurrentRuns, RunsOf
<1>2. TypeOK /\ ChainInvariant /\ [Next]_vars => [Ledger!Next]_(Ledger!ledgerVars)
  <2> SUFFICES ASSUME TypeOK, ChainInvariant, [Next]_vars
               PROVE  [Ledger!Next]_(Ledger!ledgerVars)
    OBVIOUS
  <2>1. CASE runs' = runs
    BY <2>1 DEF Ledger!ledgerVars, CurrentRuns, RunsOf
  <2>2. ASSUME NEW p, NEW j, NEW prev, Writes(p, j, prev)
        PROVE  Ledger!Next
    <3> DEFINE n == Len(runs) + 1
    <3>1. /\ p \in Periods /\ j \in Jobs \cup {0} /\ prev \in Reading /\ runs \in Seq(RunRow)
          /\ Faithful(p, prev) /\ ~RunRefused(p, prev) /\ Records(p, j, prev, n)
      BY <2>2 DEF Writes, TypeOK
    <3> HIDE DEF n
    <3>2. prev.cur = CurrentRuns(p) /\ prev.cur \subseteq RunsOf(p)
      BY <3>1 DEF Faithful, ReadPrevious, CurrentRuns
    <3>3. RowsAfter(p, prev, n) /\ MonthsAfter(p, prev, n)
      BY <3>1, <3>2, RecordedRows, RecordedMonths
    <3>4. n \in Nat /\ n \notin DOMAIN runs /\ n # NoRun
      BY <3>1, <3>3 DEF RowsAfter, Records, NoRun
    <3>5. CurrentRuns(p)' = {n} /\ RunsOf(p)' = RunsOf(p) \cup {n}
      BY <3>2, <3>3 DEF MonthsAfter
    <3>6. Answer(p)' = n
      <4>1. Max({n}) = n
        BY <3>4 DEF Max
      <4> QED
        BY <3>5, <4>1 DEF Answer
    <3>7. Past(p)' = Past(p) \cup ({Answer(p)} \ {NoRun})
      <4>1. CurrentRuns(p) = {Answer(p)} \ {NoRun} /\ CurrentRuns(p) \subseteq RunsOf(p)
        BY <3>1, AnswerIsTheLast DEF CurrentRuns
      <4>2. n \notin RunsOf(p)
        BY <3>4 DEF RunsOf
      <4> QED
        BY <3>5, <4>1, <4>2 DEF Past
    <3>8. \A q \in Periods \ {p} : Answer(q)' = Answer(q) /\ Past(q)' = Past(q)
      BY <3>3 DEF MonthsAfter, Answer, Past
    <3>9. \A q \in Periods : /\ Past(q) \subseteq DOMAIN runs
                             /\ Answer(q) \in DOMAIN runs \cup {NoRun}
      BY AnswerIsTheLast
    <3>10. Ledger!Answer(p)
      <4> DEFINE answer == [q \in Periods |-> Answer(q)]
                 history == [q \in Periods |-> Past(q)]
      <4>1. answer' = [answer EXCEPT ![p] = n]
        BY <3>1, <3>6, <3>8
      <4>2. history' = [history EXCEPT ![p] = @ \cup ({answer[p]} \ {NoRun})]
        BY <3>1, <3>7, <3>8
      <4>3. n \notin Ledger!Issued \cup {NoRun}
        <5>1. \A q \in Periods : n \notin history[q] /\ n # answer[q]
          BY <3>4, <3>9
        <5>2. Ledger!Issued = (UNION {history[q] : q \in Periods})
                              \cup {answer[q] : q \in Periods}
          BY DEF Ledger!Issued, Answer, Past
        <5> HIDE DEF answer, history
        <5> QED
          BY <5>1, <5>2, <3>4
      <4>4. answer'[p] = n
        BY <3>1, <3>6
      <4>5. Ledger!Answer(p) <=> /\ answer'[p] \notin Ledger!Issued \cup {NoRun}
                                /\ answer' = [answer EXCEPT ![p] = answer'[p]]
                                /\ history' = [history EXCEPT ![p] = @ \cup ({answer[p]} \ {NoRun})]
        BY DEF Ledger!Answer, Answer, Past
      <4> HIDE DEF answer, history
      <4> QED
        BY <4>1, <4>2, <4>3, <4>4, <4>5
    <3> QED
      BY <3>1, <3>10 DEF Ledger!Next
  <2> QED
    BY <2>1, <2>2, RunsStep DEF ChainInvariant
<1>3. QED
  BY <1>1, <1>2, TypeCorrect, ChainHolds, PTL DEF Spec, KeepsTheLedger, Ledger!Spec

--------------------------------------------------------------------------------
(* A job and its runs.                                                     *)

\* A run names a job that there is, and what a session has read of a job's run is a run
\* that has been recorded.
RunsNameJobs == \A r \in DOMAIN runs : runs[r].job # 0 => job[runs[r].job].state # "absent"
SeenRunsExist == \A w \in Workers : wk[w].seen.run <= Len(runs)

\* The inductive invariant.
PointerInvariant == JobPointsAtItsNewestRun /\ RunsNameJobs /\ SeenRunsExist

\* Run n is added to those of job j, which are those of no other job.
RunAdded(p, j, n) ==
  /\ n \in Nat /\ n = Len(runs) + 1 /\ n = Len(runs')
  /\ runs'[n].period = p /\ runs'[n].job = j
  /\ \A r \in DOMAIN runs : runs'[r].job = runs[r].job /\ runs'[r].period = runs[r].period
  /\ DOMAIN runs' = DOMAIN runs \cup {n}
  /\ \A k \in Jobs : RunsBy(k)' = RunsBy(k) \cup (IF k = j THEN {n} ELSE {})

\* That is what record_run does for it.
LEMMA RecordedRunsBy ==
  ASSUME runs \in Seq(RunRow), NEW p \in Periods, NEW j \in Jobs \cup {0}, NEW prev \in Reading,
         NEW n, Records(p, j, prev, n)
  PROVE  RunAdded(p, j, n)
<1> DEFINE old == [r \in DOMAIN runs |->
                     IF r \in prev.cur
                     THEN [runs[r] EXCEPT !.status = "superseded", !.next = Len(runs) + 1]
                     ELSE runs[r]]
           new == [period |-> p, job |-> j, number |-> prev.top + 1,
                   status |-> "current", next |-> NoRun]
<1>1. DOMAIN runs = 1..Len(runs) /\ Len(runs) \in Nat
  OBVIOUS
<1>2. runs' = Append(old, new) /\ n = Len(runs) + 1
  BY DEF Recorded, Records
<1>3. old \in [1..Len(runs) -> {old[r] : r \in DOMAIN runs}]
  BY <1>1
<1>4. /\ DOMAIN runs' = 1..n /\ Len(runs') = n
      /\ \A r \in 1..Len(runs) : runs'[r] = old[r]
      /\ runs'[n] = new
  <2> HIDE DEF old, new
  <2> QED
    BY <1>1, <1>2, <1>3
<1>5. new.job = j /\ new.period = p
  OBVIOUS
<1>6. \A r \in DOMAIN runs : old[r].job = runs[r].job /\ old[r].period = runs[r].period
  <2>1. \A r \in DOMAIN runs : runs[r] \in RunRow
    OBVIOUS
  <2> QED
    BY <2>1 DEF RunRow
<1> HIDE DEF old, new
<1>7. /\ \A r \in DOMAIN runs : runs'[r].job = runs[r].job /\ runs'[r].period = runs[r].period
      /\ runs'[n].job = j /\ runs'[n].period = p
      /\ DOMAIN runs' = DOMAIN runs \cup {n} /\ n \in Nat /\ n \notin DOMAIN runs
  BY <1>1, <1>2, <1>4, <1>5, <1>6
<1>8. \A k \in Jobs : RunsBy(k)' = RunsBy(k) \cup (IF k = j THEN {n} ELSE {})
  BY <1>7 DEF RunsBy
<1> QED
  BY <1>2, <1>4, <1>7, <1>8 DEF RunAdded

\* A step rewrites row j, to state s, owner o and heartbeat b, and leaves its run and month.
Rewrites(j, s, o, b) ==
  /\ \A k \in Jobs \ {j} : job'[k] = job[k]
  /\ job'[j].state = s /\ job'[j].owner = o /\ job'[j].beat = b
  /\ job'[j].run = job[j].run /\ job'[j].period = job[j].period

\* What a cancellation, a lapse of the lease, a claim and a heartbeat write.
LEMMA RowsAfterStep ==
  ASSUME job \in [Jobs -> JobRow], NEW j \in Jobs
  PROVE  /\ WriteCancel(j) =>
              Rewrites(j, IF job[j].state = "queued" THEN "cancelled" ELSE job[j].state,
                       job[j].owner, job[j].beat)
         /\ LeaseLapse(j) => Rewrites(j, job[j].state, job[j].owner, "stale")
         /\ \A w \in Workers : ClaimUpdate(w) /\ wk[w].job = j =>
              job' = job \/ (Claimable(j) /\ Rewrites(j, "running", w, "fresh"))
         /\ \A w \in Workers : wk[w].job = j /\
              (Begin(w) \/ Load(w) \/ ProgressTo(w, "validating") \/ ProgressTo(w, "recording")) =>
              job' = job \/ Rewrites(j, job[j].state, job[j].owner, "fresh")
<1>0. job[j] \in JobRow
  OBVIOUS
<1>1. ASSUME WriteCancel(j)
      PROVE  Rewrites(j, IF job[j].state = "queued" THEN "cancelled" ELSE job[j].state,
                      job[j].owner, job[j].beat)
  <2> DEFINE new == [job[j] EXCEPT !.cancel = TRUE,
                                   !.state = IF @ = "queued" THEN "cancelled" ELSE @]
  <2>1. job' = [job EXCEPT ![j] = new]
    BY <1>1 DEF WriteCancel
  <2>2. /\ new.state = IF job[j].state = "queued" THEN "cancelled" ELSE job[j].state
        /\ new.owner = job[j].owner /\ new.beat = job[j].beat
        /\ new.run = job[j].run /\ new.period = job[j].period
    BY <1>0 DEF JobRow
  <2> HIDE DEF new
  <2> QED
    BY <2>1, <2>2 DEF Rewrites
<1>2. ASSUME LeaseLapse(j)
      PROVE  Rewrites(j, job[j].state, job[j].owner, "stale")
  <2> DEFINE new == [job[j] EXCEPT !.beat = "stale"]
  <2>1. job' = [job EXCEPT ![j] = new]
    BY <1>2 DEF LeaseLapse
  <2>2. /\ new.state = job[j].state /\ new.owner = job[j].owner /\ new.beat = "stale"
        /\ new.run = job[j].run /\ new.period = job[j].period
    BY <1>0 DEF JobRow
  <2> HIDE DEF new
  <2> QED
    BY <2>1, <2>2 DEF Rewrites
<1>3. ASSUME NEW w \in Workers, ClaimUpdate(w), wk[w].job = j, job' # job
      PROVE  Claimable(j) /\ Rewrites(j, "running", w, "fresh")
  <2> DEFINE more == job[j].attempts + 1
             new == [job[j] EXCEPT !.state = "running", !.owner = w, !.beat = "fresh",
                                   !.attempts = more]
  <2>1. Claimable(j) /\ job' = [job EXCEPT ![j] = new]
    BY <1>3 DEF ClaimUpdate
  <2>2. /\ new.state = "running" /\ new.owner = w /\ new.beat = "fresh"
        /\ new.run = job[j].run /\ new.period = job[j].period
    <3> HIDE DEF more
    <3> QED
      BY <1>0 DEF JobRow
  <2> HIDE DEF new
  <2> QED
    BY <2>1, <2>2 DEF Rewrites
<1>4. ASSUME NEW w \in Workers, wk[w].job = j, job' # job,
             Begin(w) \/ Load(w) \/ ProgressTo(w, "validating") \/ ProgressTo(w, "recording")
      PROVE  Rewrites(j, job[j].state, job[j].owner, "fresh")
  <2> DEFINE new == [job[j] EXCEPT !.beat = "fresh"]
  <2>1. job' = [job EXCEPT ![j] = new]
    BY <1>4 DEF Begin, Load, ProgressTo
  <2>2. /\ new.state = job[j].state /\ new.owner = job[j].owner /\ new.beat = "fresh"
        /\ new.run = job[j].run /\ new.period = job[j].period
    BY <1>0 DEF JobRow
  <2> HIDE DEF new
  <2> QED
    BY <2>1, <2>2 DEF Rewrites
<1> QED
  BY <1>1, <1>2, <1>3, <1>4

\* A step that records no run keeps the pointers if no job's run changes, no job succeeds
\* by it, and no job with runs changes its month.
LEMMA PointersKept ==
  ASSUME TypeOK, PointerInvariant, runs' = runs,
         \A j \in Jobs : /\ job'[j].run = job[j].run
                         /\ job'[j].state = "succeeded" => job[j].state = "succeeded"
                         /\ job[j].state # "absent" =>
                              job'[j].state # "absent" /\ job'[j].period = job[j].period
  PROVE  JobPointsAtItsNewestRun' /\ RunsNameJobs'
<1>0. \A r \in DOMAIN runs : runs[r].job \in Jobs \cup {0}
  <2>1. \A r \in DOMAIN runs : runs[r] \in RunRow
    BY DEF TypeOK
  <2> QED
    BY <2>1 DEF RunRow
<1>1. \A j \in Jobs : RunsBy(j)' = RunsBy(j)
  BY DEF RunsBy
<1>2. \A j \in Jobs : RunsBy(j) # {} => job[j].state # "absent"
  <2>1. \A j \in Jobs : j # 0
    BY QueueAssumption DEF Jobs
  <2> QED
    BY <2>1 DEF PointerInvariant, RunsNameJobs, RunsBy
<1>3. RunsNameJobs'
  BY <1>0 DEF PointerInvariant, RunsNameJobs
<1>4. JobPointsAtItsNewestRun'
  BY <1>1, <1>2 DEF PointerInvariant, JobPointsAtItsNewestRun
<1> QED
  BY <1>3, <1>4

\* A job's run is one that has been recorded.
LEMMA JobRunsExist ==
  ASSUME TypeOK, JobPointsAtItsNewestRun, NEW j \in Jobs
  PROVE  job[j].run <= Len(runs)
<1>1. runs \in Seq(RunRow) /\ Len(runs) \in Nat /\ DOMAIN runs = 1..Len(runs)
  BY DEF TypeOK
<1>2. CASE RunsBy(j) = {}
  BY <1>1, <1>2 DEF JobPointsAtItsNewestRun, NoRun
<1>3. CASE RunsBy(j) # {}
  <2>1. RunsBy(j) \subseteq DOMAIN runs
    BY DEF RunsBy
  <2>2. Max(RunsBy(j)) \in RunsBy(j)
    BY <1>1, <1>3, <2>1, RunsAreFinite, MaxProperties
  <2>3. job[j].run = Max(RunsBy(j))
    BY <1>3 DEF JobPointsAtItsNewestRun
  <2> QED
    BY <1>1, <2>1, <2>2, <2>3
<1> QED
  BY <1>2, <1>3

\* What a step leaves in a session: nothing, what it had, or the job as it is.
LEMMA SeenStep ==
  ASSUME TypeOK, [Next]_vars, NEW w \in Workers
  PROVE  \/ wk'[w].seen = wk[w].seen
         \/ wk'[w].seen = Absent
         \/ wk'[w].pc = "recording" /\ wk[w].pc = "validating" /\ wk'[w].seen = job'[wk'[w].job]
              /\ wk'[w].job = wk[w].job /\ job'[wk[w].job].run = job[wk[w].job].run
         \/ wk'[w].pc = "closing" /\ wk[w].pc = "failing" /\ wk'[w].seen = job[wk[w].job]
              /\ wk'[w].job = wk[w].job /\ job' = job
<1>0. wk \in [Workers -> WorkerRow] /\ job \in [Jobs -> JobRow]
  BY DEF TypeOK, WorkerRow
<1>1. ASSUME NEW v \in Workers, NEW j \in Jobs, ClaimSelect(v, j)
      PROVE  wk'[w].seen = wk[w].seen \/ wk'[w].seen = Absent
  BY <1>0, <1>1 DEF ClaimSelect, Idle
<1>2. ASSUME NEW v \in Workers,
             ClaimUpdate(v) \/ Begin(v) \/ Load(v) \/ Record(v) \/ Close(v) \/ Crash(v) \/ Throw(v)
      PROVE  wk'[w].seen = wk[w].seen \/ wk'[w].seen = Absent
  <2>1. \/ wk' = wk
        \/ wk' = [wk EXCEPT ![v] = Idle]
        \/ \E e \in Exceptions : wk' = [wk EXCEPT ![v] = Raised(v, e)]
        \/ \E pc \in Pcs : wk' = [wk EXCEPT ![v].pc = pc]
    BY <1>2 DEF ClaimUpdate, Begin, Load, Record, Close, Crash, Throw, Exceptions, Pcs
  <2>2. Idle.seen = Absent /\ \A e \in Exceptions : Raised(v, e).seen = Absent
    BY DEF Raised, Idle
  <2>3. \A pc \in Pcs : [wk[v] EXCEPT !.pc = pc].seen = wk[v].seen
    BY <1>0 DEF WorkerRow
  <2> QED
    BY <1>0, <2>1, <2>2, <2>3
<1>3. ASSUME NEW v \in Workers, NEW next \in {"validating", "recording"}, ProgressTo(v, next)
      PROVE  \/ wk'[w].seen = wk[w].seen
             \/ wk'[w].seen = Absent
             \/ wk'[w].pc = "recording" /\ wk[w].pc = "validating" /\ wk'[w].seen = job'[wk'[w].job]
                  /\ wk'[w].job = wk[w].job /\ job'[wk[w].job].run = job[wk[w].job].run
  <2> DEFINE j == wk[v].job
             read == [job[j] EXCEPT !.beat = "fresh"]
  <2>1. j \in Jobs /\ wk[v].pc = "validating" /\ job' = [job EXCEPT ![j] = read]
    BY <1>3 DEF ProgressTo, TypeOK
  <2>2. \/ wk' = [wk EXCEPT ![v] = Raised(v, "JobCancelled")]
        \/ wk' = [wk EXCEPT ![v] = [@ EXCEPT !.pc = "recording", !.seen = read]]
        \/ wk' = [wk EXCEPT ![v] = @]
    BY <1>3 DEF ProgressTo
  <2>3. read.run = job[j].run /\ job'[j] = read
    BY <1>0, <2>1 DEF JobRow
  <2> HIDE DEF read, j
  <2>4. wk[v].job = j /\ Raised(v, "JobCancelled").seen = Absent
    BY DEF j, Raised, Idle
  <2>5. CASE wk' = [wk EXCEPT ![v] = [@ EXCEPT !.pc = "recording", !.seen = read]]
    BY <1>0, <2>1, <2>3, <2>4, <2>5 DEF WorkerRow
  <2> QED
    BY <1>0, <2>2, <2>4, <2>5
<1>4. ASSUME NEW v \in Workers, ReadRuns(v)
      PROVE  wk'[w].seen = wk[w].seen
  BY <1>0, <1>4 DEF ReadRuns, WorkerRow
<1>5. ASSUME NEW v \in Workers, Reread(v)
      PROVE  \/ wk'[w].seen = wk[w].seen
             \/ wk'[w].pc = "closing" /\ wk[w].pc = "failing" /\ wk'[w].seen = job[wk[w].job]
                  /\ wk'[w].job = wk[w].job /\ job' = job
  BY <1>0, <1>5 DEF Reread, WorkerRow
<1>6. CASE UNCHANGED wk
  BY <1>6
<1> QED
  BY <1>1, <1>2, <1>3, <1>4, <1>5, <1>6
  DEF Next, Api, Work, Claim, Submit, Retry, Enqueue, Progress, LastProgress, vars,
      CheckCancel, WriteCancel, SyncRead, SyncRecord, LeaseLapse

\* A job and its runs never part, for any workers and however slow they are: two holders
\* of one job, a cancel in between and a retry included.
THEOREM PointsAtItsNewest == Spec => [](PointerInvariant /\ JobPointsAtItsNewestRun)
<1>1. Init => PointerInvariant
  <2> SUFFICES ASSUME Init PROVE PointerInvariant
    OBVIOUS
  <2>1. runs = <<>> /\ \A j \in Jobs : RunsBy(j) = {}
    BY DEF Init, RunsBy
  <2>2. \A j \in Jobs : job[j].run = NoRun /\ job[j].state # "succeeded"
    BY DEF Init, Absent
  <2>3. \A w \in Workers : wk[w].seen.run = 0
    BY DEF Init, Idle, Absent, NoRun
  <2> QED
    BY <2>1, <2>2, <2>3
    DEF PointerInvariant, JobPointsAtItsNewestRun, RunsNameJobs, SeenRunsExist
<1>2. TypeOK /\ PointerInvariant /\ [Next]_vars => PointerInvariant'
  <2> SUFFICES ASSUME TypeOK, PointerInvariant, [Next]_vars PROVE PointerInvariant'
    OBVIOUS
  <2>0. /\ job \in [Jobs -> JobRow] /\ wk \in [Workers -> WorkerRow]
        /\ runs \in Seq(RunRow) /\ Len(runs) \in Nat
        /\ JobPointsAtItsNewestRun /\ RunsNameJobs /\ SeenRunsExist
    BY DEF TypeOK, WorkerRow, PointerInvariant
  <2> DEFINE Kept == /\ JobPointsAtItsNewestRun' /\ RunsNameJobs'
                     /\ Len(runs') \in Nat /\ Len(runs') >= Len(runs)
  <2>1. ASSUME NEW j \in Jobs, NEW p \in Periods, NEW old \in Jobs \cup {0}, Enqueue(j, p, old)
        PROVE  Kept
    <3> DEFINE new == [Absent EXCEPT !.state = "queued", !.period = p, !.retryOf = old]
    <3>1. job' = [job EXCEPT ![j] = new] /\ job[j].state = "absent" /\ runs' = runs
      BY <2>1 DEF Enqueue
    <3>2. new.run = NoRun /\ new.state = "queued"
      BY DEF Absent
    <3>3. j # 0
      BY QueueAssumption DEF Jobs
    <3>4. RunsBy(j) = {}
      BY <2>0, <3>1, <3>3 DEF RunsNameJobs, RunsBy
    <3>5. job[j].run = NoRun
      BY <2>0, <3>4 DEF JobPointsAtItsNewestRun
    <3> HIDE DEF new
    <3> QED
      BY <2>0, <3>1, <3>2, <3>5, PointersKept
  <2>2. ASSUME NEW j \in Jobs, WriteCancel(j) \/ LeaseLapse(j)
        PROVE  Kept
    <3>1. runs' = runs /\ job[j].state # "absent"
      BY <2>2 DEF WriteCancel, LeaseLapse, TypeOK
    <3>2. \E s \in {job[j].state, "cancelled"} : Rewrites(j, s, job'[j].owner, job'[j].beat)
      BY <2>0, <2>2, RowsAfterStep DEF Rewrites
    <3> QED
      BY <2>0, <3>1, <3>2, PointersKept DEF Rewrites
  <2>3. ASSUME NEW w \in Workers,
               ClaimUpdate(w) \/ Begin(w) \/ Load(w) \/ ProgressTo(w, "validating")
                 \/ ProgressTo(w, "recording")
        PROVE  Kept
    <3> DEFINE j == wk[w].job
    <3>1. runs' = runs /\ j \in Jobs
      BY <2>3 DEF ClaimUpdate, Begin, Load, ProgressTo, TypeOK
    <3>2. job' = job \/ \E s \in {job[j].state, "running"} : Rewrites(j, s, job'[j].owner, job'[j].beat)
      BY <2>0, <2>3, <3>1, RowsAfterStep DEF Rewrites
    <3> HIDE DEF j
    <3> QED
      BY <2>0, <3>1, <3>2, PointersKept DEF Rewrites
  <2>4. ASSUME NEW w \in Workers, Close(w)
        PROVE  Kept
    <3> DEFINE j == wk[w].job
               seen == wk[w].seen
               mine == IF wk[w].exc = "JobCancelled" THEN MarkCancelled(seen)
                       ELSE Fail(seen, wk[w].exc = "PermanentJobError")
               new == Flush(job[j], seen, mine)
    <3>1. /\ j \in Jobs /\ job[j] \in JobRow /\ seen \in JobRow /\ job[j].state # "absent"
          /\ seen.state # "absent" /\ seen.period = job[j].period
      BY <2>0, <2>4 DEF Close, TypeOK, WorkerRow
    <3>2. /\ mine.run = seen.run /\ mine.period = seen.period
          /\ mine.state = seen.state \/ mine.state \in {"cancelled", "failed", "queued"}
      <4> HIDE DEF seen
      <4> QED
        BY <3>1 DEF MarkCancelled, Fail, JobRow
    <3>3. /\ new.run = job[j].run /\ new.period = job[j].period
          /\ new.state \in {job[j].state, "cancelled", "failed", "queued"}
      <4> HIDE DEF mine, seen, j
      <4> QED
        BY <3>1, <3>2 DEF Flush, JobRow
    <3>4. runs' = runs /\ (job' = job \/ job' = [job EXCEPT ![j] = new])
      BY <2>4 DEF Close
    <3> HIDE DEF j, new
    <3> QED
      BY <2>0, <3>1, <3>3, <3>4, PointersKept
  <2>5. ASSUME NEW w \in Workers, Record(w)
        PROVE  Kept
    <3>0. PICK j, p, n : j = wk[w].job /\ p = job[j].period /\ n = Len(runs) + 1
      OBVIOUS
    <3> DEFINE seen == wk[w].seen
               mine == [seen EXCEPT !.state = "succeeded", !.owner = None, !.run = n]
               flushed == Flush(job[j], seen, mine)
               new == [flushed EXCEPT !.beat = "fresh"]
    <3>1. /\ j \in Jobs /\ job[j] \in JobRow /\ job[j].state # "absent" /\ p \in Periods
          /\ seen \in JobRow /\ seen.state # "absent" /\ seen.period = p
          /\ wk[w].prev \in Reading /\ wk[w].pc = "writing"
      BY <2>0, <2>5, <3>0 DEF Record, TypeOK, WorkerRow
    <3>2. CASE RunRefused(p, wk[w].prev)
      <4>1. runs' = runs /\ job' = job
        BY <2>5, <3>0, <3>2 DEF Record
      <4> QED
        BY <2>0, <4>1, PointersKept
    <3>3. CASE ~RunRefused(p, wk[w].prev)
      <4>1. job' = [job EXCEPT ![j] = new] /\ runs' = Recorded(p, j, wk[w].prev)
        BY <2>5, <3>0, <3>3 DEF Record
      <4>2. /\ n \in Nat /\ n = Len(runs')
            /\ \A r \in DOMAIN runs : runs'[r].job = runs[r].job /\ runs'[r].period = runs[r].period
            /\ DOMAIN runs' = DOMAIN runs \cup {n}
            /\ \A k \in Jobs : RunsBy(k)' = RunsBy(k) \cup (IF k = j THEN {n} ELSE {})
        <5>1. Records(p, j, wk[w].prev, n)
          BY <3>0, <4>1 DEF Records
        <5>2. RunAdded(p, j, n)
          BY <2>0, <3>1, <5>1, RecordedRunsBy
        <5> QED
          BY <5>2 DEF RunAdded
      <4>3. seen.run \in Nat /\ seen.run < n
        BY <2>0, <3>0, <3>1, <4>2 DEF SeenRunsExist, JobRow
      <4>4. mine.run = n /\ mine.period = seen.period /\ mine.state = "succeeded" /\ mine \in JobRow
        <5> HIDE DEF seen
        <5> QED
          BY <3>1, <4>2 DEF JobRow, JobStates, Terminal
      <4>5. flushed.run = n /\ flushed.period = p /\ flushed.state \in {job[j].state, "succeeded"}
        <5> HIDE DEF mine, seen
        <5> QED
          BY <3>0, <3>1, <4>3, <4>4 DEF Flush, JobRow
      <4>6. new.run = n /\ new.period = p /\ new.state = flushed.state
        <5>1. flushed = [c \in DOMAIN job[j] |-> flushed[c]]
          BY DEF Flush
        <5>2. DOMAIN job[j] = {"state", "period", "owner", "beat", "attempts", "cancel", "run", "retryOf"}
          BY <3>1 DEF JobRow
        <5> HIDE DEF flushed
        <5> QED
          BY <4>5, <5>1, <5>2
      <4>7. \A k \in Jobs : job'[k].state = "absent" <=> job[k].state = "absent"
        <5> HIDE DEF new, flushed
        <5> QED
          BY <2>0, <3>1, <4>1, <4>5, <4>6
      <4>8. j # 0 /\ \A k \in Jobs : RunsBy(k) \subseteq DOMAIN runs
        BY <3>1, QueueAssumption DEF Jobs, RunsBy
      <4>9. RunsNameJobs'
        <5>1. runs'[n].job = j /\ \A r \in DOMAIN runs : runs[r].job \in Jobs \cup {0}
          <6>1. n \in RunsBy(j)'
            BY <3>1, <4>2
          <6>2. \A r \in DOMAIN runs : runs[r] \in RunRow
            BY <2>0
          <6> QED
            BY <6>1, <6>2 DEF RunsBy, RunRow
        <5> QED
          BY <2>0, <3>1, <4>2, <4>7, <5>1 DEF RunsNameJobs
      <4>10. ASSUME NEW k \in Jobs, k # j
             PROVE  /\ job'[k].run = IF RunsBy(k)' = {} THEN NoRun ELSE Max(RunsBy(k)')
                    /\ \A r \in RunsBy(k)' : runs'[r].period = job'[k].period
                    /\ job'[k].state = "succeeded" => job'[k].run # NoRun
        <5>1. job'[k] = job[k] /\ RunsBy(k)' = RunsBy(k)
          <6> HIDE DEF new
          <6> QED
            BY <2>0, <4>1, <4>2, <4>10, ZenonT(60)
        <5> QED
          BY <2>0, <4>2, <4>8, <5>1 DEF JobPointsAtItsNewestRun
      <4>11. /\ job'[j].run = IF RunsBy(j)' = {} THEN NoRun ELSE Max(RunsBy(j)')
             /\ \A r \in RunsBy(j)' : runs'[r].period = job'[j].period
             /\ job'[j].state = "succeeded" => job'[j].run # NoRun
        <5>1. job'[j].run = n /\ job'[j].period = p
          <6> HIDE DEF new
          <6> QED
            BY <2>0, <3>1, <4>1, <4>6
        <5>2. RunsBy(j)' = RunsBy(j) \cup {n} /\ RunsBy(j) \subseteq 1..Len(runs)
          BY <3>1, <4>2, <4>8
        <5>3. Max(RunsBy(j)') = n
          <6>1. \A r \in RunsBy(j) : r \in Int /\ r < n
            BY <2>0, <3>0, <5>2
          <6>2. \A r \in RunsBy(j)' : n >= r
            BY <4>2, <5>2, <6>1
          <6>3. n \in RunsBy(j)' /\ RunsBy(j)' \subseteq Int
            BY <4>2, <5>2, <6>1
          <6>4. IsFiniteSet(RunsBy(j)')
            <7>1. IsFiniteSet(RunsBy(j))
              BY <2>0, <4>8, <3>1, RunsAreFinite
            <7> QED
              BY <5>2, <7>1, FS_AddElement
          <6>5. Max(RunsBy(j)') \in RunsBy(j)' /\ n <= Max(RunsBy(j)')
            BY <6>3, <6>4, MaxProperties
          <6> QED
            BY <4>2, <6>2, <6>3, <6>5
        <5>4. \A r \in RunsBy(j) : runs[r].period = p
          BY <2>0, <3>0, <3>1 DEF JobPointsAtItsNewestRun
        <5>5. runs'[n].period = p
          <6>1. Records(p, j, wk[w].prev, n)
            BY <3>0, <4>1 DEF Records
          <6>2. RunAdded(p, j, n)
            BY <2>0, <3>1, <6>1, RecordedRunsBy
          <6> QED
            BY <6>2 DEF RunAdded
        <5>6. \A r \in RunsBy(j)' : runs'[r].period = p
          <6> QED
            BY <4>2, <4>8, <3>1, <5>2, <5>4, <5>5
        <5>7. RunsBy(j)' # {} /\ n # NoRun
          BY <4>2, <5>2 DEF NoRun
        <5> QED
          BY <5>1, <5>3, <5>6, <5>7
      <4>12. JobPointsAtItsNewestRun'
        <5> QED
          BY <4>10, <4>11 DEF JobPointsAtItsNewestRun
      <4>13. Len(runs') \in Nat /\ Len(runs') >= Len(runs)
        BY <2>0, <3>0, <4>2
      <4> QED
        BY <4>9, <4>12, <4>13
    <3> QED
      BY <3>2, <3>3
  <2>6. ASSUME NEW p \in Periods, SyncRecord(p)
        PROVE  Kept
    <3>1. sync[p].prev \in Reading
      BY DEF TypeOK
    <3>2. CASE runs' = runs
      BY <2>0, <2>6, <3>2, PointersKept DEF SyncRecord
    <3>3. CASE runs' = Recorded(p, 0, sync[p].prev)
      <4> DEFINE n == Len(runs) + 1
      <4>1. /\ n \in Nat /\ n = Len(runs') /\ runs'[n].job = 0 /\ DOMAIN runs' = DOMAIN runs \cup {n}
            /\ \A r \in DOMAIN runs : runs'[r].job = runs[r].job /\ runs'[r].period = runs[r].period
            /\ \A k \in Jobs : RunsBy(k)' = RunsBy(k) \cup (IF k = 0 THEN {n} ELSE {})
        <5>1. Records(p, 0, sync[p].prev, n)
          BY <3>3 DEF Records
        <5> HIDE DEF n
        <5>2. RunAdded(p, 0, n)
          BY <2>0, <3>1, <5>1, RecordedRunsBy
        <5> QED
          BY <5>2 DEF RunAdded
      <4>2. \A k \in Jobs : k # 0 /\ RunsBy(k)' = RunsBy(k) /\ RunsBy(k) \subseteq DOMAIN runs
        BY <4>1, QueueAssumption DEF Jobs, RunsBy
      <4>4. job' = job
        BY <2>6 DEF SyncRecord
      <4>5. RunsNameJobs'
        BY <2>0, <4>1, <4>4 DEF RunsNameJobs
      <4>6. JobPointsAtItsNewestRun'
        BY <2>0, <4>1, <4>2, <4>4 DEF JobPointsAtItsNewestRun
      <4> QED
        BY <2>0, <4>1, <4>5, <4>6
    <3> QED
      BY <2>6, <3>2, <3>3 DEF SyncRecord
  <2>7. ASSUME UNCHANGED <<job, runs>> PROVE Kept
    <3>1. job' = job /\ runs' = runs
      BY <2>7
    <3>2. JobPointsAtItsNewestRun' /\ RunsNameJobs'
      BY <3>1, PointersKept
    <3> QED
      BY <2>0, <3>1, <3>2
  <2>8. Kept
    <3> HIDE DEF Kept
    <3>1. CASE Api
      BY <2>1, <2>2, <2>6, <2>7, <3>1
      DEF Api, Submit, Retry, CheckCancel, SyncRead, TypeOK
    <3>2. ASSUME NEW w \in Workers, Work(w) \/ Progress(w) \/ Throw(w) \/ Crash(w)
          PROVE  Kept
      BY <2>3, <2>4, <2>5, <2>7, <3>2
      DEF Work, Claim, ClaimSelect, Progress, LastProgress, ReadRuns, Throw, Reread, Crash
    <3> QED
      BY <2>2, <2>7, <3>1, <3>2 DEF Next, vars
  <2>9. SeenRunsExist'
    <3> SUFFICES ASSUME NEW w \in Workers PROVE wk'[w].seen.run <= Len(runs')
      BY DEF SeenRunsExist
    <3>1. Len(runs') \in Nat /\ Len(runs) <= Len(runs')
      BY <2>0, <2>8
    <3>2. wk[w].seen.run \in Nat /\ wk[w].seen.run <= Len(runs)
      BY <2>0 DEF SeenRunsExist, WorkerRow, JobRow
    <3>3. \A j \in Jobs : job[j].run \in Nat /\ job[j].run <= Len(runs)
      BY <2>0, JobRunsExist DEF JobRow
    <3>4. Absent.run = 0
      BY DEF Absent, NoRun
    <3>5. wk[w].pc \in {"validating", "failing"} => wk[w].job \in Jobs
      BY DEF TypeOK
    <3>6. CASE wk'[w].seen = wk[w].seen \/ wk'[w].seen = Absent
      BY <2>0, <3>1, <3>2, <3>4, <3>6
    <3>7. CASE \E j \in Jobs : wk'[w].seen.run = job[j].run
      BY <2>0, <3>1, <3>3, <3>7
    <3> QED
      BY <3>5, <3>6, <3>7, SeenStep
  <2> QED
    BY <2>8, <2>9 DEF PointerInvariant
<1>3. QED
  BY <1>1, <1>2, TypeCorrect, PTL DEF Spec, PointerInvariant

--------------------------------------------------------------------------------
(* A job and its holder, as long as no live worker outlasts its lease.     *)

\* Worker w is at a job that the table says is running, in w's hands, under a live lease.
Holding(w) == wk[w].pc \notin {"idle", "claiming"}
Leased(w) ==
  job[wk[w].job].state = "running" /\ job[wk[w].job].owner = w /\ job[wk[w].job].beat = "fresh"

\* The inductive invariant: whoever is at a job has its lease, and has read it running.
LeaseInvariant ==
  /\ \A w \in Workers : Holding(w) => Leased(w)
  /\ \A w \in Workers : wk[w].pc \in {"recording", "writing", "closing"} => wk[w].seen.state = "running"

\* What x, a worker's variables, must be for the step that leaves them to keep it.
MayBecome(w, x) ==
  /\ x.pc \notin {"idle", "claiming"} =>
       /\ x.job = wk[w].job /\ job'[x.job].state = "running"
       /\ job'[x.job].owner = w /\ job'[x.job].beat = "fresh"
  /\ x.pc \in {"recording", "writing", "closing"} => x.seen.state = "running"

\* A worker writes the row of a job only while it holds it, or takes it over: no other
\* worker holds that job.
LEMMA LeaseWorkerStep ==
  ASSUME TypeOK, LeaseInvariant, NEW w \in Workers, NEW x, wk' = [wk EXCEPT ![w] = x],
         \A k \in Jobs : k # wk[w].job => job'[k] = job[k],
         Holding(w) \/ Claimable(wk[w].job) \/ job' = job,
         MayBecome(w, x)
  PROVE  LeaseInvariant'
<1>0. wk \in [Workers -> WorkerRow]
  BY DEF TypeOK, WorkerRow
<1>1. wk'[w] = x /\ \A v \in Workers \ {w} : wk'[v] = wk[v]
  BY <1>0
<1>2. ASSUME NEW v \in Workers, v # w, Holding(v)
      PROVE  job'[wk[v].job] = job[wk[v].job]
  <2>1. Leased(v) /\ wk[v].job \in Jobs
    BY <1>2 DEF LeaseInvariant, Holding, TypeOK
  <2>2. CASE wk[v].job = wk[w].job
    BY <1>2, <2>1, <2>2 DEF LeaseInvariant, Leased, Claimable
  <2> QED
    BY <2>1, <2>2
<1>3. ASSUME NEW v \in Workers, Holding(v)'
      PROVE  Leased(v)'
  <2>1. CASE v = w
    BY <1>1, <1>3, <2>1 DEF MayBecome, Holding, Leased
  <2>2. CASE v # w
    <3>1. Holding(v) /\ wk'[v] = wk[v]
      BY <1>1, <1>3, <2>2 DEF Holding
    <3>2. job'[wk[v].job] = job[wk[v].job] /\ Leased(v)
      BY <1>2, <2>2, <3>1 DEF LeaseInvariant
    <3> QED
      BY <3>1, <3>2 DEF Leased
  <2> QED
    BY <2>1, <2>2
<1>4. \A v \in Workers : wk'[v].pc \in {"recording", "writing", "closing"} => wk'[v].seen.state = "running"
  BY <1>1 DEF LeaseInvariant, MayBecome
<1> QED
  BY <1>3, <1>4 DEF LeaseInvariant

\* A worker at a job that renews its lease, or leaves its row alone.
LEMMA LeaseHolderStep ==
  ASSUME TypeOK, LeaseInvariant, NEW w \in Workers, Holding(w), NEW x, wk' = [wk EXCEPT ![w] = x],
         job' = job \/ Rewrites(wk[w].job, job[wk[w].job].state, job[wk[w].job].owner, "fresh"),
         x.job = wk[w].job,
         x.pc \in {"recording", "writing", "closing"} => x.seen.state = "running"
  PROVE  LeaseInvariant'
<1>1. Leased(w) /\ wk[w].job \in Jobs /\ job \in [Jobs -> JobRow] /\ DOMAIN job = Jobs
  BY DEF LeaseInvariant, Holding, TypeOK
<1>2. MayBecome(w, x)
  BY <1>1 DEF MayBecome, Leased, Rewrites
<1>3. \A k \in Jobs : k # wk[w].job => job'[k] = job[k]
  BY DEF Rewrites
<1> QED
  BY <1>2, <1>3, LeaseWorkerStep

\* A step of the API or of time leaves the workers alone, and every row that one holds.
LEMMA LeaseApiStep ==
  ASSUME LeaseInvariant, wk' = wk,
         \A w \in Workers : Holding(w) => /\ job'[wk[w].job].state = job[wk[w].job].state
                                          /\ job'[wk[w].job].owner = job[wk[w].job].owner
                                          /\ job'[wk[w].job].beat = job[wk[w].job].beat
  PROVE  LeaseInvariant'
BY DEF LeaseInvariant, Holding, Leased

\* Every step keeps the leases, if no live worker outlasts its own.
LEMMA LeaseStep ==
  ASSUME TypeOK, LeaseInvariant, ~SlowWorkers, [Next]_vars
  PROVE  LeaseInvariant'
<1>0. /\ job \in [Jobs -> JobRow] /\ wk \in [Workers -> WorkerRow]
      /\ \A w \in Workers : wk[w].pc # "idle" => wk[w].job \in Jobs
  BY DEF TypeOK, WorkerRow
<1>1. ASSUME NEW j \in Jobs, NEW p \in Periods, NEW old \in Jobs \cup {0}, Enqueue(j, p, old)
      PROVE  LeaseInvariant'
  <2>1. wk' = wk /\ job[j].state = "absent" /\ \A k \in Jobs \ {j} : job'[k] = job[k]
    BY <1>0, <1>1 DEF Enqueue
  <2>2. \A w \in Workers : Holding(w) => wk[w].job \in Jobs \ {j}
    BY <1>0, <2>1 DEF LeaseInvariant, Leased, Holding
  <2> QED
    BY <2>1, <2>2, LeaseApiStep
<1>2. ASSUME NEW j \in Jobs, WriteCancel(j)
      PROVE  LeaseInvariant'
  <2>1. wk' = wk /\ Rewrites(j, IF job[j].state = "queued" THEN "cancelled" ELSE job[j].state,
                            job[j].owner, job[j].beat)
    BY <1>0, <1>2, RowsAfterStep DEF WriteCancel
  <2>2. \A w \in Workers : Holding(w) => wk[w].job \in Jobs /\ job[wk[w].job].state = "running"
    BY <1>0 DEF LeaseInvariant, Leased, Holding
  <2> QED
    BY <2>1, <2>2, LeaseApiStep DEF Rewrites
<1>3. ASSUME NEW j \in Jobs, LeaseLapse(j)
      PROVE  LeaseInvariant'
  <2>1. wk' = wk /\ Rewrites(j, job[j].state, job[j].owner, "stale") /\ Holders(j) = {}
    BY <1>0, <1>3, RowsAfterStep DEF LeaseLapse
  <2>2. \A w \in Workers : Holding(w) => wk[w].job \in Jobs \ {j}
    BY <1>0, <2>1 DEF Holders, Holding
  <2> QED
    BY <2>1, <2>2, LeaseApiStep DEF Rewrites
<1>4. ASSUME UNCHANGED <<job, wk>>
      PROVE  LeaseInvariant'
  BY <1>4, LeaseApiStep
<1>5. ASSUME NEW w \in Workers, NEW j \in Jobs, ClaimSelect(w, j)
      PROVE  LeaseInvariant'
  <2> DEFINE x == [Idle EXCEPT !.pc = "claiming", !.job = j]
  <2>1. wk' = [wk EXCEPT ![w] = x] /\ job' = job
    BY <1>5 DEF ClaimSelect
  <2>2. x.pc = "claiming"
    BY DEF Idle
  <2> HIDE DEF x
  <2> QED
    BY <2>1, <2>2, LeaseWorkerStep DEF MayBecome
<1>6. ASSUME NEW w \in Workers, ClaimUpdate(w)
      PROVE  LeaseInvariant'
  <2>1. wk[w].job \in Jobs /\ wk[w] \in WorkerRow
    BY <1>0, <1>6 DEF ClaimUpdate
  <2>2. CASE Claimable(wk[w].job)
    <3> DEFINE x == [wk[w] EXCEPT !.pc = "claimed"]
    <3>1. wk' = [wk EXCEPT ![w] = x] /\ x.pc = "claimed" /\ x.job = wk[w].job
      BY <1>6, <2>1, <2>2 DEF ClaimUpdate, WorkerRow
    <3>2. Rewrites(wk[w].job, "running", w, "fresh")
      <4>1. job'[wk[w].job].attempts = job[wk[w].job].attempts + 1
        BY <1>0, <1>6, <2>1, <2>2 DEF ClaimUpdate, JobRow
      <4>2. job[wk[w].job].attempts \in Nat
        BY <1>0, <2>1 DEF JobRow
      <4>3. job' # job
        BY <4>1, <4>2
      <4> QED
        BY <1>0, <1>6, <2>1, <4>3, RowsAfterStep
    <3> HIDE DEF x
    <3> QED
      BY <2>1, <2>2, <3>1, <3>2, LeaseWorkerStep DEF MayBecome, Rewrites
  <2>3. CASE ~Claimable(wk[w].job)
    <3>1. wk' = [wk EXCEPT ![w] = Idle] /\ job' = job /\ Idle.pc = "idle"
      BY <1>6, <2>3 DEF ClaimUpdate, Idle
    <3> QED
      BY <3>1, LeaseWorkerStep DEF MayBecome
  <2> QED
    BY <2>2, <2>3
<1>7. ASSUME NEW w \in Workers, NEW x, Holding(w), wk' = [wk EXCEPT ![w] = x],
             Begin(w) \/ Load(w) \/ ProgressTo(w, "validating") \/ ProgressTo(w, "recording"),
             x.job = wk[w].job,
             x.pc \in {"recording", "writing", "closing"} => x.seen.state = "running"
      PROVE  LeaseInvariant'
  <2>1. job' = job \/ Rewrites(wk[w].job, job[wk[w].job].state, job[wk[w].job].owner, "fresh")
    BY <1>0, <1>7, RowsAfterStep DEF Holding
  <2> QED
    BY <1>7, <2>1, LeaseHolderStep
<1>8. ASSUME NEW w \in Workers, NEW e
      PROVE  Raised(w, e).job = wk[w].job /\ Raised(w, e).pc = "failing"
  BY DEF Raised, Idle
<1>9. ASSUME NEW w \in Workers, Begin(w) \/ Load(w)
      PROVE  LeaseInvariant'
  <2> DEFINE x(pc) == [wk[w] EXCEPT !.pc = pc]
  <2>1. Holding(w) /\ \A pc \in Pcs : x(pc).job = wk[w].job /\ x(pc).pc = pc
    BY <1>0, <1>9 DEF Begin, Load, Holding, WorkerRow
  <2>2. \/ wk' = [wk EXCEPT ![w] = Raised(w, "JobCancelled")]
        \/ wk' = [wk EXCEPT ![w] = x("loading")]
        \/ wk' = [wk EXCEPT ![w] = x("validating")]
    BY <1>9 DEF Begin, Load
  <2>3. {"loading", "validating"} \subseteq Pcs
    BY DEF Pcs
  <2> HIDE DEF x
  <2> QED
    BY <1>7, <1>8, <1>9, <2>1, <2>2, <2>3
<1>10. ASSUME NEW w \in Workers, NEW next \in {"validating", "recording"}, ProgressTo(w, next)
       PROVE  LeaseInvariant'
  <2> DEFINE read == [job[wk[w].job] EXCEPT !.beat = "fresh"]
             x == [wk[w] EXCEPT !.pc = next, !.seen = read]
  <2>1. Holding(w) /\ wk[w].pc = "validating" /\ wk[w].job \in Jobs
    BY <1>0, <1>10 DEF ProgressTo, Holding
  <2>2. \/ wk' = [wk EXCEPT ![w] = Raised(w, "JobCancelled")]
        \/ wk' = [wk EXCEPT ![w] = x]
        \/ wk' = [wk EXCEPT ![w] = wk[w]]
    BY <1>0, <1>10 DEF ProgressTo
  <2>3. x.job = wk[w].job /\ x.seen = read
    BY <1>0 DEF WorkerRow
  <2>4. read.state = "running"
    BY <1>0, <2>1 DEF JobRow, LeaseInvariant, Leased
  <2> HIDE DEF x, read
  <2> QED
    BY <1>7, <1>8, <1>10, <2>1, <2>2, <2>3, <2>4
<1>11. ASSUME NEW w \in Workers, ReadRuns(w)
       PROVE  LeaseInvariant'
  <2> DEFINE x == [wk[w] EXCEPT !.pc = "writing", !.prev = ReadPrevious(job[wk[w].job].period)]
  <2>1. Holding(w) /\ job' = job /\ wk[w].seen.state = "running" /\ wk' = [wk EXCEPT ![w] = x]
    BY <1>11 DEF ReadRuns, Holding, LeaseInvariant
  <2>2. x.job = wk[w].job /\ x.seen = wk[w].seen
    BY <1>0 DEF WorkerRow
  <2> HIDE DEF x
  <2> QED
    BY <2>1, <2>2, LeaseHolderStep
<1>12. ASSUME NEW w \in Workers, Throw(w)
       PROVE  LeaseInvariant'
  <2>1. Holding(w) /\ job' = job /\ \E e \in Exceptions : wk' = [wk EXCEPT ![w] = Raised(w, e)]
    BY <1>12 DEF Throw, Holding, Exceptions
  <2> QED
    BY <1>8, <2>1, LeaseHolderStep
<1>13. ASSUME NEW w \in Workers, Reread(w)
       PROVE  LeaseInvariant'
  <2> DEFINE x == [wk[w] EXCEPT !.pc = "closing", !.seen = job[wk[w].job]]
  <2>1. Holding(w) /\ job' = job /\ wk' = [wk EXCEPT ![w] = x]
    BY <1>13 DEF Reread, Holding
  <2>2. x.job = wk[w].job /\ x.seen.state = "running"
    BY <1>0, <2>1 DEF WorkerRow, LeaseInvariant, Leased
  <2> HIDE DEF x
  <2> QED
    BY <2>1, <2>2, LeaseHolderStep
<1>14. ASSUME NEW w \in Workers, Record(w) \/ Close(w) \/ Crash(w)
       PROVE  LeaseInvariant'
  <2>1. CASE wk' = [wk EXCEPT ![w] = Idle]
    <3>1. \A k \in Jobs : k # wk[w].job => job'[k] = job[k]
      BY <1>0, <1>14 DEF Record, Close, Crash
    <3>2. Holding(w) \/ job' = job
      BY <1>14 DEF Record, Close, Crash, Holding
    <3>3. MayBecome(w, Idle)
      BY DEF MayBecome, Idle
    <3> QED
      BY <2>1, <3>1, <3>2, <3>3, LeaseWorkerStep
  <2>2. CASE wk' = [wk EXCEPT ![w] = Raised(w, "IntegrityError")] /\ job' = job /\ Holding(w)
    BY <1>8, <2>2, LeaseHolderStep
  <2> QED
    BY <1>14, <2>1, <2>2 DEF Record, Close, Crash, Holding
<1> QED
  <2>1. CASE Api
    BY <1>0, <1>1, <1>2, <1>4, <2>1 DEF Api, Submit, Retry, CheckCancel, SyncRead, SyncRecord, TypeOK
  <2>2. ASSUME NEW w \in Workers, Work(w) \/ Progress(w) \/ Throw(w) \/ Crash(w)
        PROVE  LeaseInvariant'
    BY <1>5, <1>6, <1>9, <1>10, <1>11, <1>12, <1>13, <1>14, <2>2 DEF Work, Claim, Progress, LastProgress
  <2> QED
    BY <1>3, <1>4, <2>1, <2>2 DEF Next, vars

\* Without a silent worker the leases hold in every state.
THEOREM LeasesHold == ASSUME ~SlowWorkers PROVE Spec => []LeaseInvariant
<1>1. Init => LeaseInvariant
  BY DEF Init, LeaseInvariant, Holding, Idle
<1>2. TypeOK /\ LeaseInvariant /\ [Next]_vars => LeaseInvariant'
  BY LeaseStep
<1> QED
  BY <1>1, <1>2, TypeCorrect, PTL DEF Spec

\* The lease is a lock: one worker at most is at a job, and it is the one the row names,
\* for any number of workers, crashes, retries and cancellations.
THEOREM LeaseIsALock == ASSUME ~SlowWorkers PROVE Spec => []OneHolder
<1>1. TypeOK /\ LeaseInvariant => OneHolder
  <2> SUFFICES ASSUME TypeOK, LeaseInvariant, NEW j \in Jobs
               PROVE  /\ Cardinality(Holders(j)) <= 1
                      /\ job[j].state = "running" => Holders(j) \subseteq {job[j].owner}
    BY DEF OneHolder
  <2>1. Holders(j) \subseteq {job[j].owner}
    BY DEF Holders, LeaseInvariant, Holding, Leased
  <2>2. Holders(j) = {} \/ Holders(j) = {job[j].owner}
    BY <2>1
  <2>3. Cardinality(Holders(j)) <= 1
    <3>1. Cardinality(Holders(j)) = 0 \/ Cardinality(Holders(j)) = 1
      BY <2>2, FS_EmptySet, FS_Singleton, Zenon
    <3> QED
      BY <3>1
  <2> QED
    BY <2>1, <2>3
<1> QED
  BY <1>1, TypeCorrect, LeasesHold, PTL

\* What has ended stays as it ended, by one step of anyone.
LEMMA TerminalStep ==
  ASSUME TypeOK, LeaseInvariant, [Next]_vars
  PROVE  \A j \in Jobs : job[j].state \in Terminal => job'[j].state = job[j].state
<1> DEFINE Stays == \A j \in Jobs : job[j].state \in Terminal => job'[j].state = job[j].state
<1>0. /\ job \in [Jobs -> JobRow]
      /\ \A w \in Workers : wk[w].pc # "idle" => wk[w].job \in Jobs
  BY DEF TypeOK
<1>1. ASSUME NEW j \in Jobs, NEW p \in Periods, NEW old \in Jobs \cup {0}, Enqueue(j, p, old)
      PROVE  Stays
  BY <1>0, <1>1 DEF Enqueue, Terminal
<1>2. ASSUME NEW j \in Jobs, WriteCancel(j) \/ LeaseLapse(j)
      PROVE  Stays
  BY <1>0, <1>2, RowsAfterStep DEF Rewrites, Terminal
<1>3. ASSUME NEW w \in Workers,
             ClaimUpdate(w) \/ Begin(w) \/ Load(w) \/ ProgressTo(w, "validating")
               \/ ProgressTo(w, "recording")
      PROVE  Stays
  <2>1. wk[w].job \in Jobs
    BY <1>0, <1>3 DEF ClaimUpdate, Begin, Load, ProgressTo
  <2>2. \/ job' = job
        \/ Claimable(wk[w].job) /\ Rewrites(wk[w].job, "running", w, "fresh")
        \/ Rewrites(wk[w].job, job[wk[w].job].state, job[wk[w].job].owner, "fresh")
    BY <1>0, <1>3, <2>1, RowsAfterStep
  <2> QED
    BY <2>1, <2>2 DEF Rewrites, Claimable, Terminal
<1>4. ASSUME NEW w \in Workers, Record(w) \/ Close(w)
      PROVE  Stays
  <2>1. wk[w].job \in Jobs /\ job[wk[w].job].state = "running"
    BY <1>0, <1>4 DEF Record, Close, LeaseInvariant, Holding, Leased
  <2>2. \A k \in Jobs : k # wk[w].job => job'[k] = job[k]
    BY <1>0, <1>4 DEF Record, Close
  <2> QED
    BY <2>1, <2>2 DEF Terminal
<1>5. ASSUME UNCHANGED job
      PROVE  Stays
  BY <1>5
<1> HIDE DEF Stays
<1> QED
  <2>1. ASSUME Api PROVE Stays
    BY <1>0, <1>1, <1>2, <1>5, <2>1 DEF Api, Submit, Retry, CheckCancel, SyncRead, SyncRecord, TypeOK
  <2>2. ASSUME NEW w \in Workers, Work(w) \/ Progress(w) \/ Throw(w) \/ Crash(w)
        PROVE  Stays
    BY <1>3, <1>4, <1>5, <2>2
    DEF Work, Claim, ClaimSelect, Progress, LastProgress, ReadRuns, Throw, Reread, Crash
  <2>3. Stays
    BY <1>2, <1>5, <2>1, <2>2 DEF Next, vars
  <2> QED
    BY <2>3 DEF Stays

\* Terminal states are final while no live worker outlasts its lease.
THEOREM TerminalForGood == ASSUME ~SlowWorkers PROVE Spec => TerminalIsFinal
<1>1. TypeOK /\ LeaseInvariant /\ [Next]_vars =>
        [\A j \in Jobs : job[j].state \in Terminal => job'[j].state = job[j].state]_vars
  BY TerminalStep
<1> QED
  BY <1>1, TypeCorrect, LeasesHold, PTL DEF Spec, TerminalIsFinal

--------------------------------------------------------------------------------
(* A job and the one run it writes.                                        *)

\* Each job has no run, or one, and has one only if it succeeded.
AtMostOneRun ==
  \A j \in Jobs : RunsBy(j) = {} \/ (job[j].state = "succeeded" /\ \E r : RunsBy(j) = {r})

\* A step keeps that: only a worker at a running job, which has no run, adds one.
LEMMA OneRunStep ==
  ASSUME TypeOK, LeaseInvariant, AtMostOneRun, [Next]_vars
  PROVE  AtMostOneRun'
<1>0. /\ job \in [Jobs -> JobRow] /\ wk \in [Workers -> WorkerRow] /\ runs \in Seq(RunRow)
      /\ sync \in [Periods -> [busy : BOOLEAN, prev : Reading]]
      /\ \A j \in Jobs : job[j].state = "succeeded" => job'[j].state = "succeeded"
  BY TerminalStep DEF TypeOK, WorkerRow, Terminal
<1>1. ASSUME \A j \in Jobs : RunsBy(j)' = RunsBy(j)
      PROVE  AtMostOneRun'
  BY <1>0, <1>1 DEF AtMostOneRun
<1>2. ASSUME NEW w \in Workers, Record(w)
      PROVE  AtMostOneRun'
  <2>0. PICK j, p, n : j = wk[w].job /\ p = job[j].period /\ n = Len(runs) + 1
    OBVIOUS
  <2> DEFINE seen == wk[w].seen
             mine == [seen EXCEPT !.state = "succeeded", !.owner = None, !.run = n]
             flushed == Flush(job[j], seen, mine)
             new == [flushed EXCEPT !.beat = "fresh"]
  <2>1. /\ j \in Jobs /\ p \in Periods /\ job[j] \in JobRow /\ job[j].state = "running"
        /\ seen \in JobRow /\ seen.state = "running" /\ wk[w].prev \in Reading
    BY <1>0, <1>2, <2>0 DEF Record, TypeOK, WorkerRow, LeaseInvariant, Holding, Leased
  <2>2. CASE RunRefused(p, wk[w].prev)
    BY <1>1, <1>2, <2>0, <2>2 DEF Record, RunsBy
  <2>3. CASE ~RunRefused(p, wk[w].prev)
    <3>1. job' = [job EXCEPT ![j] = new] /\ runs' = Recorded(p, j, wk[w].prev)
      BY <1>2, <2>0, <2>3 DEF Record
    <3>2. RunAdded(p, j, n)
      <4>1. Records(p, j, wk[w].prev, n)
        BY <2>0, <3>1 DEF Records
      <4> QED
        BY <1>0, <2>1, <4>1, RecordedRunsBy
    <3>3. flushed.state = "succeeded" /\ new.state = flushed.state
      <4>1. mine.state = "succeeded"
        BY <2>1 DEF JobRow
      <4>2. DOMAIN job[j] = {"state", "period", "owner", "beat", "attempts", "cancel", "run", "retryOf"}
        BY <2>1 DEF JobRow
      <4>3. flushed.state = "succeeded" /\ flushed = [c \in DOMAIN job[j] |-> flushed[c]]
        <5> HIDE DEF mine, seen
        <5> QED
          BY <2>1, <4>1, <4>2 DEF Flush
      <4> HIDE DEF flushed
      <4> QED
        BY <4>2, <4>3
    <3>4. job'[j].state = "succeeded"
      <4> HIDE DEF new, flushed
      <4> QED
        BY <1>0, <2>1, <3>1, <3>3
    <3>5. RunsBy(j) = {}
      BY <2>1 DEF AtMostOneRun
    <3>6. RunsBy(j)' = {n} /\ \A k \in Jobs \ {j} : RunsBy(k)' = RunsBy(k)
      BY <2>1, <3>2, <3>5 DEF RunAdded
    <3> QED
      BY <1>0, <3>4, <3>6 DEF AtMostOneRun
  <2> QED
    BY <2>2, <2>3
<1>3. ASSUME NEW p \in Periods, SyncRecord(p)
      PROVE  AtMostOneRun'
  <2>1. sync[p].prev \in Reading
    BY <1>0
  <2>2. CASE runs' = runs
    BY <1>1, <2>2 DEF RunsBy
  <2>3. CASE runs' = Recorded(p, 0, sync[p].prev)
    <3>0. PICK n : n = Len(runs) + 1
      OBVIOUS
    <3>1. Records(p, 0, sync[p].prev, n)
      BY <2>3, <3>0 DEF Records
    <3>2. RunAdded(p, 0, n)
      BY <1>0, <2>1, <3>1, RecordedRunsBy
    <3>3. \A j \in Jobs : j # 0
      BY QueueAssumption DEF Jobs
    <3> QED
      BY <1>1, <3>2, <3>3, ZenonT(60) DEF RunAdded
  <2> QED
    BY <1>3, <2>2, <2>3 DEF SyncRecord
<1>4. ASSUME UNCHANGED runs
      PROVE  AtMostOneRun'
  BY <1>1, <1>4 DEF RunsBy
<1> QED
  <2>1. CASE Api
    BY <1>3, <1>4, <2>1 DEF Api, Submit, Retry, Enqueue, CheckCancel, WriteCancel, SyncRead
  <2>2. ASSUME NEW w \in Workers, Work(w) \/ Progress(w) \/ Throw(w) \/ Crash(w)
        PROVE  AtMostOneRun'
    BY <1>2, <1>4, <2>2
    DEF Work, Claim, ClaimSelect, ClaimUpdate, Begin, Load, Progress, LastProgress, ProgressTo,
        ReadRuns, Throw, Reread, Close, Crash
  <2>3. ASSUME NEW j \in Jobs, LeaseLapse(j)
        PROVE  AtMostOneRun'
    BY <1>4, <2>3 DEF LeaseLapse
  <2> QED
    BY <1>4, <2>1, <2>2, <2>3 DEF Next, vars

\* A job writes at most one run, and only by succeeding: what failed or was cancelled has
\* none, so that a retry cannot duplicate one.
THEOREM OneRunEach == ASSUME ~SlowWorkers PROVE Spec => []RunsOnlyFromSuccess
<1>1. Init => AtMostOneRun
  BY DEF Init, AtMostOneRun, RunsBy
<1>2. TypeOK /\ LeaseInvariant /\ AtMostOneRun /\ [Next]_vars => AtMostOneRun'
  BY OneRunStep
<1>3. AtMostOneRun => RunsOnlyFromSuccess
  <2> SUFFICES ASSUME AtMostOneRun, NEW j \in Jobs
               PROVE  /\ job[j].state # "succeeded" => RunsBy(j) = {}
                      /\ Cardinality(RunsBy(j)) <= 1
    BY DEF RunsOnlyFromSuccess
  <2>1. RunsBy(j) = {} \/ (job[j].state = "succeeded" /\ \E r : RunsBy(j) = {r})
    BY DEF AtMostOneRun
  <2>2. Cardinality(RunsBy(j)) <= 1
    <3>1. Cardinality(RunsBy(j)) = 0 \/ Cardinality(RunsBy(j)) = 1
      BY <2>1, FS_EmptySet, FS_Singleton, Zenon
    <3> QED
      BY <3>1
  <2> QED
    BY <2>1, <2>2
<1> QED
  BY <1>1, <1>2, <1>3, TypeCorrect, LeasesHold, PTL DEF Spec

================================================================================

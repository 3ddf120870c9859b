--------------------------- MODULE AfterwardsProofs ----------------------------
(***************************************************************************)
(* Theorems about what a month leaves behind, for any writers, sessions,   *)
(* fingerprints, months, requests and bounds of MCAfterwards.  Of digests, *)
(* when no run is the synchronous endpoint's: the inductive invariant says *)
(* what a revision is worth, for the two tokens that are in force,         *)
(* wherever they are found, stand for the present content, and those of an *)
(* open transaction are found nowhere.  Then, part by part: of findings,   *)
(* of costings and of what is kept, while requests for findings do not     *)
(* overlap; and of the slabs of a state, for any drafts, months and wages. *)
(***************************************************************************)
EXTENDS MCAfterwards, Sequences, FiniteSetTheorems, TLAPS

\* Tokens are drawn once: none is ahead of the count, and that of an open
\* transaction is found nowhere else.
TokensOnce ==
  /\ \A c \in Scopes : token[c] <= drawn /\ cache.rev[c] <= drawn
  /\ \A s \in Sessions : \A c \in Scopes : ss[s].rev[c] <= drawn
  /\ \A w \in Writers : tx[w].open => 0 < tx[w].token /\ tx[w].token <= drawn
  /\ \A w \in Writers : tx[w].open => \A c \in Scopes : token[c] # tx[w].token /\ cache.rev[c] # tx[w].token
  /\ \A w \in Writers : tx[w].open => \A s \in Sessions : \A c \in Scopes : ss[s].rev[c] # tx[w].token
  /\ \A v, w \in Writers : v # w /\ tx[v].open /\ tx[w].open => tx[v].token # tx[w].token

\* What is cached is not of the future, and of the present when its revision is.
CacheIsTrue ==
  cache.stored => cache.digest <= content /\ (cache.rev = token => cache.digest = content)

Looking == {"lookup", "rows", "store"}

\* A digest that is about to be stored, likewise.
StoreIsTrue ==
  \A s \in Sessions :
    ss[s].pc = "store" => /\ ss[s].from <= ss[s].digest /\ ss[s].digest <= content
                          /\ ss[s].rev = token => ss[s].digest = content

\* Whatever is filed, or about to be, under the revision that a session goes by is
\* of the session's own time.
RevisionIsEnough ==
  \A s \in Sessions :
    ss[s].pc \in Looking =>
      /\ cache.stored /\ cache.rev = ss[s].rev => ss[s].from <= cache.digest
      /\ \A q \in Sessions : ss[q].pc = "store" /\ ss[q].rev = ss[s].rev => ss[s].from <= ss[q].digest

\* A run carries a digest no later than what it reads.
Sequel ==
  /\ \A s \in Sessions :
       /\ ss[s].from <= content
       /\ ss[s].for # "endpoint"
       /\ ss[s].pc \in {"reads", "records"} => ss[s].for = "worker"
       /\ ss[s].pc = "reads" => ss[s].digest <= content
       /\ ss[s].pc = "records" => ss[s].digest <= ss[s].read /\ ss[s].read <= content
       /\ ss[s].for = "page" => ss[s].run.digest <= ss[s].run.read /\ ss[s].run.read <= ss[s].from
  /\ \A r \in runs : r.digest <= r.read /\ r.read <= content

IInv == /\ TypeOK /\ TokensOnce /\ CacheIsTrue /\ StoreIsTrue /\ RevisionIsEnough /\ Sequel
        /\ DigestsAreOfTheirTime

--------------------------------------------------------------------------------
\* An idle session has a type like any other.
LEMMA IdleType == Idle \in SessionState
<1>1. [c \in Scopes |-> 0] \in [Scopes -> Nat]
  OBVIOUS
<1>2. NoRun \in Run
  BY DEF NoRun, Run
<1> QED
  BY <1>1, <1>2 DEF Idle, SessionState

\* Every step keeps the types, for any writers, sessions and purposes.
LEMMA TypeStep == ASSUME TypeOK, [Next]_vars PROVE TypeOK'
<1>1. ASSUME NEW w \in Writers, NEW scope \in Scopes, Flush(w, scope) PROVE TypeOK'
  <2>1. [open |-> TRUE, scope |-> scope, token |-> drawn + 1] \in [open : BOOLEAN, scope : Scopes, token : Nat]
    BY DEF TypeOK
  <2> QED
    BY <1>1, <2>1 DEF Flush, TypeOK
<1>2. ASSUME NEW w \in Writers, Commit(w) PROVE TypeOK'
  <2>1. NoTx \in [open : BOOLEAN, scope : Scopes, token : Nat]
    BY DEF NoTx, Scopes
  <2>2. Revised(w) \in [Scopes -> Nat]
    BY DEF Revised, TypeOK
  <2> QED
    BY <1>2, <2>1, <2>2 DEF Commit, TypeOK
<1>3. ASSUME NEW w \in Writers, Rollback(w) PROVE TypeOK'
  <2>1. NoTx \in [open : BOOLEAN, scope : Scopes, token : Nat]
    BY DEF NoTx, Scopes
  <2> QED
    BY <1>3, <2>1 DEF Rollback, TypeOK
<1>4. ASSUME NEW s \in Sessions, NEW for \in Purposes, Begin(s, for) PROVE TypeOK'
  <2>1. CASE for \in {"worker", "endpoint"}
    <3>1. [Idle EXCEPT !.pc = "revision", !.for = for, !.from = content] \in SessionState
      BY <2>1, IdleType DEF TypeOK, SessionState
    <3>2. [Idle EXCEPT !.pc = "reads", !.for = for, !.from = content] \in SessionState
      BY <2>1, IdleType DEF TypeOK, SessionState
    <3>3. for # "page"
      BY <2>1
    <3> QED
      <4>1. \/ ss' = [ss EXCEPT ![s] = [Idle EXCEPT !.pc = "revision", !.for = for, !.from = content]]
            \/ ss' = [ss EXCEPT ![s] = [Idle EXCEPT !.pc = "reads", !.for = for, !.from = content]]
        BY <1>4, <3>3 DEF Begin
      <4>2. ss' \in [Sessions -> SessionState]
        BY <3>1, <3>2, <4>1 DEF TypeOK
      <4> QED
        BY <1>4, <4>2 DEF Begin, TypeOK
  <2>2. CASE for = "page"
    <3>1. \A r \in Run : [Idle EXCEPT !.pc = "revision", !.from = content, !.run = r] \in SessionState
      BY IdleType DEF TypeOK, SessionState
    <3>2. PICK r \in runs : ss' = [ss EXCEPT ![s] = [Idle EXCEPT !.pc = "revision", !.from = content, !.run = r]]
      BY <1>4, <2>2 DEF Begin
    <3>3. r \in Run
      BY <3>2 DEF TypeOK
    <3> QED
      BY <1>4, <3>1, <3>2, <3>3 DEF Begin, TypeOK
  <2> QED
    BY <2>1, <2>2, DigestAssumption
<1>5. ASSUME NEW s \in Sessions, ReadRevision(s) PROVE TypeOK'
  <2>1. [Goes(s, "lookup") EXCEPT !.rev = token] \in SessionState
    BY ZenonT(60) DEF Goes, TypeOK, SessionState
  <2> QED
    BY <1>5, <2>1 DEF ReadRevision, TypeOK
<1>6. ASSUME NEW s \in Sessions, Lookup(s) PROVE TypeOK'
  <2>1. [Goes(s, "digested") EXCEPT !.digest = cache.digest] \in SessionState /\ Goes(s, "rows") \in SessionState
    BY ZenonT(60) DEF Goes, TypeOK, SessionState
  <2> QED
    BY <1>6, <2>1 DEF Lookup, TypeOK
<1>7. ASSUME NEW s \in Sessions, ReadRows(s) PROVE TypeOK'
  <2>1. [Goes(s, "store") EXCEPT !.digest = content] \in SessionState
    BY ZenonT(60) DEF Goes, TypeOK, SessionState
  <2> QED
    BY <1>7, <2>1 DEF ReadRows, TypeOK
<1>8. ASSUME NEW s \in Sessions, Store(s) PROVE TypeOK'
  <2>1. Goes(s, "digested") \in SessionState
    BY ZenonT(60) DEF Goes, TypeOK, SessionState
  <2>2. [stored |-> TRUE, rev |-> FiledUnder(s), digest |-> ss[s].digest] \in [stored : BOOLEAN, rev : [Scopes -> Nat], digest : Nat]
    BY DEF FiledUnder, TypeOK, SessionState
  <2> QED
    BY <1>8, <2>1, <2>2 DEF Store, TypeOK
<1>9. ASSUME NEW s \in Sessions, Digested(s) PROVE TypeOK'
  <2>1. Goes(s, AfterDigest(ss[s].for)) \in SessionState
    BY DEF Goes, AfterDigest, TypeOK, SessionState
  <2> QED
    BY <1>9, <2>1 DEF Digested, TypeOK
<1>10. ASSUME NEW s \in Sessions, Read(s) PROVE TypeOK'
  <2>1. [Goes(s, AfterReading(ss[s].for)) EXCEPT !.read = content] \in SessionState
    BY ZenonT(60) DEF Goes, AfterReading, TypeOK, SessionState
  <2> QED
    BY <1>10, <2>1 DEF Read, TypeOK
<1>11. ASSUME NEW s \in Sessions, Record(s) PROVE TypeOK'
  <2>1. ss' \in [Sessions -> SessionState]
    BY <1>11, IdleType DEF Record, TypeOK
  <2>2. runs' \subseteq Run
    BY <1>11 DEF Record, TypeOK, SessionState, Run
  <2> QED
    BY <1>11, <2>1, <2>2 DEF Record, TypeOK
<1>12. ASSUME NEW s \in Sessions, Ends(s) PROVE TypeOK'
  BY <1>12, IdleType DEF Ends, TypeOK
<1>13. CASE UNCHANGED vars
  BY <1>13 DEF vars, TypeOK
<1> QED
  BY <1>1, <1>2, <1>3, <1>4, <1>5, <1>6, <1>7, <1>8, <1>9, <1>10, <1>11, <1>12, <1>13
     DEF Next, Write, Step

\* No token is drawn, nothing is cached and nobody looks: the invariant holds.
LEMMA InitIInv == ASSUME Init PROVE IInv
<1>1. TypeOK
  <2>1. NoTx \in [open : BOOLEAN, scope : Scopes, token : Nat]
    BY DEF NoTx, Scopes
  <2>2. [s \in Scopes |-> 0] \in [Scopes -> Nat]
    OBVIOUS
  <2> QED
    BY <2>1, <2>2, IdleType DEF Init, TypeOK
<1>2. TokensOnce
  BY DEF TokensOnce, Init, NoTx, Idle
<1>3. CacheIsTrue /\ StoreIsTrue /\ RevisionIsEnough /\ DigestsAreOfTheirTime
  BY DEF CacheIsTrue, StoreIsTrue, RevisionIsEnough, DigestsAreOfTheirTime, Looking, Init, Idle
<1>4. Sequel
  BY DEF Sequel, Init, Idle, NoRun
<1> QED
  BY <1>1, <1>2, <1>3, <1>4 DEF IInv

\* A flush draws a token that nobody has seen.
LEMMA FlushStep == ASSUME IInv, NEW w \in Writers, NEW scope \in Scopes, Flush(w, scope) PROVE IInv'
<1>0. TypeOK'
  BY TypeStep DEF IInv, Next, Write, Step
<1>1. TokensOnce'
  BY <1>0 DEF IInv, TypeOK, SessionState, TokensOnce, Flush
<1>2. CacheIsTrue'
  BY <1>0 DEF IInv, TypeOK, SessionState, CacheIsTrue, Flush
<1>3. StoreIsTrue'
  BY <1>0 DEF IInv, TypeOK, SessionState, StoreIsTrue, Flush
<1>4. RevisionIsEnough'
  BY <1>0 DEF IInv, TypeOK, SessionState, RevisionIsEnough, Looking, Flush
<1>5. Sequel'
  BY <1>0 DEF IInv, TypeOK, SessionState, Sequel, Run, Flush
<1>6. DigestsAreOfTheirTime'
  BY <1>0 DEF IInv, TypeOK, SessionState, DigestsAreOfTheirTime, Flush
<1> QED
  BY <1>0, <1>1, <1>2, <1>3, <1>4, <1>5, <1>6 DEF IInv

\* With the token of a commit in force, nothing filed before it is of the present.
LEMMA CommitStep == ASSUME IInv, NEW w \in Writers, Commit(w) PROVE IInv'
<1>0. TypeOK'
  BY TypeStep DEF IInv, Next, Write, Step
<1>1. TokensOnce'
  BY <1>0 DEF IInv, TypeOK, SessionState, TokensOnce, Commit, Revised, NoTx
<1>2. CacheIsTrue'
  BY <1>0 DEF IInv, TypeOK, SessionState, CacheIsTrue, TokensOnce, Commit, Revised, NoTx
<1>3. StoreIsTrue'
  BY <1>0 DEF IInv, TypeOK, SessionState, StoreIsTrue, TokensOnce, Commit, Revised, NoTx
<1>4. RevisionIsEnough'
  BY <1>0 DEF IInv, TypeOK, SessionState, RevisionIsEnough, Looking, Commit, Revised, NoTx
<1>5. Sequel'
  BY <1>0 DEF IInv, TypeOK, SessionState, Sequel, Run, Commit, Revised, NoTx
<1>6. DigestsAreOfTheirTime'
  BY <1>0 DEF IInv, TypeOK, SessionState, DigestsAreOfTheirTime, Commit, Revised, NoTx
<1> QED
  BY <1>0, <1>1, <1>2, <1>3, <1>4, <1>5, <1>6 DEF IInv

\* A transaction that is rolled back takes a token with it that nobody has seen.
LEMMA RollbackStep == ASSUME IInv, NEW w \in Writers, Rollback(w) PROVE IInv'
<1>0. TypeOK'
  BY TypeStep DEF IInv, Next, Write, Step
<1>1. TokensOnce'
  BY <1>0 DEF IInv, TypeOK, SessionState, TokensOnce, Rollback, NoTx
<1>2. CacheIsTrue'
  BY <1>0 DEF IInv, TypeOK, SessionState, CacheIsTrue, Rollback, NoTx
<1>3. StoreIsTrue'
  BY <1>0 DEF IInv, TypeOK, SessionState, StoreIsTrue, Rollback, NoTx
<1>4. RevisionIsEnough'
  BY <1>0 DEF IInv, TypeOK, SessionState, RevisionIsEnough, Looking, Rollback, NoTx
<1>5. Sequel'
  BY <1>0 DEF IInv, TypeOK, SessionState, Sequel, Run, Rollback, NoTx
<1>6. DigestsAreOfTheirTime'
  BY <1>0 DEF IInv, TypeOK, SessionState, DigestsAreOfTheirTime, Rollback, NoTx
<1> QED
  BY <1>0, <1>1, <1>2, <1>3, <1>4, <1>5, <1>6 DEF IInv

\* A session takes the tokens in force: what is filed under them is the present.
LEMMA ReadRevisionStep == ASSUME IInv, NEW s \in Sessions, ReadRevision(s) PROVE IInv'
<1>0. TypeOK'
  BY TypeStep DEF IInv, Next, Write, Step
<1>1. TokensOnce'
  BY <1>0 DEF IInv, TypeOK, SessionState, TokensOnce, ReadRevision, Goes
<1>2. CacheIsTrue'
  BY <1>0 DEF IInv, TypeOK, SessionState, CacheIsTrue, ReadRevision, Goes
<1>3. StoreIsTrue'
  BY <1>0 DEF IInv, TypeOK, SessionState, StoreIsTrue, ReadRevision, Goes
<1>4. RevisionIsEnough'
  BY <1>0 DEF IInv, TypeOK, SessionState, RevisionIsEnough, StoreIsTrue, CacheIsTrue, Sequel, Looking, ReadRevision, Goes
<1>5. Sequel'
  BY <1>0 DEF IInv, TypeOK, SessionState, Sequel, Run, ReadRevision, Goes
<1>6. DigestsAreOfTheirTime'
  BY <1>0 DEF IInv, TypeOK, SessionState, DigestsAreOfTheirTime, ReadRevision, Goes
<1> QED
  BY <1>0, <1>1, <1>2, <1>3, <1>4, <1>5, <1>6 DEF IInv

\* The rows read are of now, and later than the revision the session goes by.
LEMMA ReadRowsStep == ASSUME IInv, NEW s \in Sessions, ReadRows(s) PROVE IInv'
<1>0. TypeOK'
  BY TypeStep DEF IInv, Next, Write, Step
<1>1. TokensOnce'
  BY <1>0 DEF IInv, TypeOK, SessionState, TokensOnce, ReadRows, Goes
<1>2. CacheIsTrue'
  BY <1>0 DEF IInv, TypeOK, SessionState, CacheIsTrue, ReadRows, Goes
<1>3. StoreIsTrue'
  BY <1>0 DEF IInv, TypeOK, SessionState, StoreIsTrue, Sequel, ReadRows, Goes
<1>4. RevisionIsEnough'
  BY <1>0 DEF IInv, TypeOK, SessionState, RevisionIsEnough, Sequel, Looking, ReadRows, Goes
<1>5. Sequel'
  BY <1>0 DEF IInv, TypeOK, SessionState, Sequel, Run, ReadRows, Goes
<1>6. DigestsAreOfTheirTime'
  BY <1>0 DEF IInv, TypeOK, SessionState, DigestsAreOfTheirTime, ReadRows, Goes
<1> QED
  BY <1>0, <1>1, <1>2, <1>3, <1>4, <1>5, <1>6 DEF IInv

\* What a session stores is of the time of all who go by the same revision.
LEMMA StoreStep == ASSUME IInv, NEW s \in Sessions, Store(s) PROVE IInv'
<1>0. TypeOK'
  BY TypeStep DEF IInv, Next, Write, Step
<1>1. TokensOnce'
  BY <1>0 DEF IInv, TypeOK, SessionState, TokensOnce, Store, FiledUnder, Goes
<1>2. CacheIsTrue'
  BY <1>0 DEF IInv, TypeOK, SessionState, CacheIsTrue, StoreIsTrue, Store, FiledUnder, Goes
<1>3. StoreIsTrue'
  BY <1>0 DEF IInv, TypeOK, SessionState, StoreIsTrue, Store, FiledUnder, Goes
<1>4. RevisionIsEnough'
  <2> DEFINE Stored == [stored |-> TRUE, rev |-> ss[s].rev, digest |-> ss[s].digest]
  <2> SUFFICES ASSUME NEW x \in Sessions, ss'[x].pc \in Looking
               PROVE  /\ cache'.stored /\ cache'.rev = ss'[x].rev => ss'[x].from <= cache'.digest
                      /\ \A q \in Sessions : ss'[q].pc = "store" /\ ss'[q].rev = ss'[x].rev => ss'[x].from <= ss'[q].digest
    BY DEF RevisionIsEnough
  <2>1. ss'[s].pc = "digested" /\ x # s /\ ss'[x] = ss[x]
    BY DEF IInv, TypeOK, SessionState, Looking, Store, Goes
  <2>2. \A q \in Sessions : ss'[q].pc = "store" => ss'[q] = ss[q]
    BY <2>1 DEF IInv, TypeOK, Store
  <2>3. cache' = Stored \/ cache' = cache
    BY DEF Store, FiledUnder
  <2>4. ss[s].pc = "store"
    BY DEF Store
  <2>5. CASE cache' = Stored
    BY <2>1, <2>2, <2>4, <2>5 DEF IInv, RevisionIsEnough
  <2>6. CASE cache' = cache
    BY <2>1, <2>2, <2>6 DEF IInv, RevisionIsEnough
  <2> QED
    BY <2>3, <2>5, <2>6
<1>5. Sequel'
  BY <1>0 DEF IInv, TypeOK, SessionState, Sequel, Run, Store, FiledUnder, Goes
<1>6. DigestsAreOfTheirTime'
  BY <1>0 DEF IInv, TypeOK, SessionState, DigestsAreOfTheirTime, StoreIsTrue, Store, FiledUnder, Goes
<1> QED
  BY <1>0, <1>1, <1>2, <1>3, <1>4, <1>5, <1>6 DEF IInv

\* A worker goes from the digest to the reading: the digest is of the past.
LEMMA DigestedStep == ASSUME IInv, NEW s \in Sessions, Digested(s) PROVE IInv'
<1>0. TypeOK'
  BY TypeStep DEF IInv, Next, Write, Step
<1>1. TokensOnce'
  BY <1>0 DEF IInv, TypeOK, SessionState, TokensOnce, Digested, AfterDigest, Goes
<1>2. CacheIsTrue'
  BY <1>0 DEF IInv, TypeOK, SessionState, CacheIsTrue, Digested, AfterDigest, Goes
<1>3. StoreIsTrue'
  BY <1>0 DEF IInv, TypeOK, SessionState, StoreIsTrue, Digested, AfterDigest, Goes
<1>4. RevisionIsEnough'
  BY <1>0 DEF IInv, TypeOK, SessionState, RevisionIsEnough, Looking, Digested, AfterDigest, Goes
<1>5. Sequel'
  BY <1>0 DEF IInv, TypeOK, SessionState, Sequel, DigestsAreOfTheirTime, Run, Digested, AfterDigest, Goes
<1>6. DigestsAreOfTheirTime'
  BY <1>0 DEF IInv, TypeOK, SessionState, DigestsAreOfTheirTime, Digested, AfterDigest, Goes
<1> QED
  BY <1>0, <1>1, <1>2, <1>3, <1>4, <1>5, <1>6 DEF IInv

\* A worker reads after its digest, so it reads that content or a later one.
LEMMA ReadStep == ASSUME IInv, NEW s \in Sessions, Read(s) PROVE IInv'
<1>0. TypeOK'
  BY TypeStep DEF IInv, Next, Write, Step
<1>1. TokensOnce'
  BY <1>0 DEF IInv, TypeOK, SessionState, TokensOnce, Read, AfterReading, Goes
<1>2. CacheIsTrue'
  BY <1>0 DEF IInv, TypeOK, SessionState, CacheIsTrue, Read, AfterReading, Goes
<1>3. StoreIsTrue'
  BY <1>0 DEF IInv, TypeOK, SessionState, StoreIsTrue, Read, AfterReading, Goes
<1>4. RevisionIsEnough'
  BY <1>0 DEF IInv, TypeOK, SessionState, RevisionIsEnough, Looking, Read, AfterReading, Goes
<1>5. Sequel'
  BY <1>0 DEF IInv, TypeOK, SessionState, Sequel, Run, Read, AfterReading, Goes
<1>6. DigestsAreOfTheirTime'
  BY <1>0 DEF IInv, TypeOK, SessionState, DigestsAreOfTheirTime, Read, AfterReading, Goes
<1> QED
  BY <1>0, <1>1, <1>2, <1>3, <1>4, <1>5, <1>6 DEF IInv

\* A run is recorded with the digest that went before its reading.
LEMMA RecordStep == ASSUME IInv, NEW s \in Sessions, Record(s) PROVE IInv'
<1>0. TypeOK'
  BY TypeStep DEF IInv, Next, Write, Step
<1>1. TokensOnce'
  BY <1>0 DEF IInv, TypeOK, SessionState, TokensOnce, Record, Idle, NoRun
<1>2. CacheIsTrue'
  BY <1>0 DEF IInv, TypeOK, SessionState, CacheIsTrue, Record, Idle, NoRun
<1>3. StoreIsTrue'
  BY <1>0 DEF IInv, TypeOK, SessionState, StoreIsTrue, Record, Idle, NoRun
<1>4. RevisionIsEnough'
  BY <1>0 DEF IInv, TypeOK, SessionState, RevisionIsEnough, Looking, Record, Idle, NoRun
<1>5. Sequel'
  BY <1>0 DEF IInv, TypeOK, SessionState, Sequel, Run, Record, Idle, NoRun
<1>6. DigestsAreOfTheirTime'
  BY <1>0 DEF IInv, TypeOK, SessionState, DigestsAreOfTheirTime, Record, Idle, NoRun
<1> QED
  BY <1>0, <1>1, <1>2, <1>3, <1>4, <1>5, <1>6 DEF IInv

\* A session that ends leaves nothing behind but what it stored.
LEMMA EndsStep == ASSUME IInv, NEW s \in Sessions, Ends(s) PROVE IInv'
<1>0. TypeOK'
  BY TypeStep DEF IInv, Next, Write, Step
<1>1. TokensOnce'
  BY <1>0 DEF IInv, TypeOK, SessionState, TokensOnce, Ends, Idle, NoRun
<1>2. CacheIsTrue'
  BY <1>0 DEF IInv, TypeOK, SessionState, CacheIsTrue, Ends, Idle, NoRun
<1>3. StoreIsTrue'
  BY <1>0 DEF IInv, TypeOK, SessionState, StoreIsTrue, Ends, Idle, NoRun
<1>4. RevisionIsEnough'
  BY <1>0 DEF IInv, TypeOK, SessionState, RevisionIsEnough, Looking, Ends, Idle, NoRun
<1>5. Sequel'
  BY <1>0 DEF IInv, TypeOK, SessionState, Sequel, Run, Ends, Idle, NoRun
<1>6. DigestsAreOfTheirTime'
  BY <1>0 DEF IInv, TypeOK, SessionState, DigestsAreOfTheirTime, Ends, Idle, NoRun
<1> QED
  BY <1>0, <1>1, <1>2, <1>3, <1>4, <1>5, <1>6 DEF IInv

\* A hit is of the session's own time by RevisionIsEnough; a miss learns nothing.
LEMMA LookupStep == ASSUME IInv, NEW s \in Sessions, Lookup(s) PROVE IInv'
<1> DEFINE Hit == [Goes(s, "digested") EXCEPT !.digest = cache.digest]
<1>0. TypeOK'
  BY TypeStep DEF IInv, Next, Write, Step
<1>a. CASE cache.stored /\ cache.rev = ss[s].rev
  <2>1. ss' = [ss EXCEPT ![s] = Hit]
    BY <1>a DEF Lookup
  <2>2. TokensOnce'
    BY <1>0, <1>a, <2>1 DEF IInv, TypeOK, SessionState, TokensOnce, Lookup, Goes
  <2>3. CacheIsTrue'
    BY <1>0, <1>a, <2>1 DEF IInv, TypeOK, SessionState, CacheIsTrue, Lookup, Goes
  <2>4. StoreIsTrue'
    BY <1>0, <1>a, <2>1 DEF IInv, TypeOK, SessionState, StoreIsTrue, Lookup, Goes
  <2>5. RevisionIsEnough'
    BY <1>0, <1>a, <2>1 DEF IInv, TypeOK, SessionState, RevisionIsEnough, Looking, Lookup, Goes
  <2>6. Sequel'
    BY <1>0, <1>a, <2>1 DEF IInv, TypeOK, SessionState, Sequel, Lookup, Goes
  <2>7. DigestsAreOfTheirTime'
    BY <1>0, <1>a, <2>1 DEF IInv, TypeOK, SessionState, DigestsAreOfTheirTime, RevisionIsEnough, CacheIsTrue, Looking, Lookup, Goes
  <2> QED
    BY <1>0, <2>2, <2>3, <2>4, <2>5, <2>6, <2>7 DEF IInv
<1>b. CASE ~(cache.stored /\ cache.rev = ss[s].rev)
  <2>1. ss' = [ss EXCEPT ![s] = Goes(s, "rows")]
    BY <1>b DEF Lookup
  <2>2. TokensOnce'
    BY <1>0, <2>1 DEF IInv, TypeOK, SessionState, TokensOnce, Lookup, Goes
  <2>3. CacheIsTrue'
    BY <1>0, <2>1 DEF IInv, TypeOK, SessionState, CacheIsTrue, Lookup, Goes
  <2>4. StoreIsTrue'
    BY <1>0, <2>1 DEF IInv, TypeOK, SessionState, StoreIsTrue, Lookup, Goes
  <2>5. RevisionIsEnough'
    BY <1>0, <2>1 DEF IInv, TypeOK, SessionState, RevisionIsEnough, Looking, Lookup, Goes
  <2>6. Sequel'
    BY <1>0, <2>1 DEF IInv, TypeOK, SessionState, Sequel, Lookup, Goes
  <2>7. DigestsAreOfTheirTime'
    BY <1>0, <2>1 DEF IInv, TypeOK, SessionState, DigestsAreOfTheirTime, Lookup, Goes
  <2> QED
    BY <1>0, <2>2, <2>3, <2>4, <2>5, <2>6, <2>7 DEF IInv
<1> QED
  BY <1>a, <1>b

\* A session begins at the present content, about a run that read no later one.
LEMMA BeginStep ==
  ASSUME IInv, "endpoint" \notin Purposes, NEW s \in Sessions, NEW for \in Purposes, Begin(s, for) PROVE IInv'
<1>0. TypeOK'
  BY TypeStep DEF IInv, Next, Write, Step
<1>a. CASE for = "worker"
  <2>1. ss' = [ss EXCEPT ![s] = [Idle EXCEPT !.pc = "revision", !.for = for, !.from = content]]
    BY <1>a DEF Begin
  <2>2. TokensOnce'
    BY <1>0, <1>a, <2>1 DEF IInv, TypeOK, SessionState, TokensOnce, Begin, Idle
  <2>3. CacheIsTrue'
    BY <1>0, <1>a, <2>1 DEF IInv, TypeOK, SessionState, CacheIsTrue, Begin, Idle
  <2>4. StoreIsTrue'
    BY <1>0, <1>a, <2>1 DEF IInv, TypeOK, SessionState, StoreIsTrue, Begin, Idle
  <2>5. RevisionIsEnough'
    BY <1>0, <1>a, <2>1 DEF IInv, TypeOK, SessionState, RevisionIsEnough, Looking, Begin, Idle
  <2>6. Sequel'
    BY <1>0, <1>a, <2>1 DEF IInv, TypeOK, SessionState, Sequel, NoRun, Run, Begin, Idle
  <2>7. DigestsAreOfTheirTime'
    BY <1>0, <1>a, <2>1 DEF IInv, TypeOK, SessionState, DigestsAreOfTheirTime, Begin, Idle
  <2> QED
    BY <1>0, <2>2, <2>3, <2>4, <2>5, <2>6, <2>7 DEF IInv
<1>b. CASE for = "page"
  <2>0. PICK r \in runs : ss' = [ss EXCEPT ![s] = [Idle EXCEPT !.pc = "revision", !.from = content, !.run = r]]
    BY <1>b DEF Begin
  <2> DEFINE x == [Idle EXCEPT !.pc = "revision", !.from = content, !.run = r]
  <2>1. r \in Run /\ r.digest <= r.read /\ r.read <= content
    BY <2>0 DEF IInv, TypeOK, Sequel
  <2>2. /\ x.pc = "revision" /\ x.for = "page" /\ x.from = content /\ x.run = r
        /\ \A c \in Scopes : x.rev[c] = 0
    BY DEF Idle
  <2>3. ss'[s] = x /\ \A q \in Sessions \ {s} : ss'[q] = ss[q]
    BY <2>0 DEF IInv, TypeOK
  <2>4. UNCHANGED <<content, token, drawn, tx, cache, runs>>
    BY DEF Begin
  <2> HIDE DEF x
  <2>5. TokensOnce'
    <3>1. \A q \in Sessions : \A c \in Scopes : ss'[q].rev[c] = 0 \/ ss'[q].rev[c] = ss[q].rev[c]
      BY <2>2, <2>3
    <3>2. \A q \in Sessions : \A c \in Scopes : ss'[q].rev[c] <= drawn
      BY <3>1 DEF IInv, TypeOK, TokensOnce
    <3>3. \A w \in Writers : tx[w].open => \A q \in Sessions : \A c \in Scopes : ss'[q].rev[c] # tx[w].token
      BY <3>1 DEF IInv, TypeOK, TokensOnce
    <3> QED
      BY <2>4, <3>2, <3>3 DEF IInv, TokensOnce
  <2>6. CacheIsTrue'
    BY <2>4 DEF IInv, CacheIsTrue
  <2>7. StoreIsTrue'
    BY <2>2, <2>3, <2>4 DEF IInv, StoreIsTrue
  <2>8. RevisionIsEnough'
    BY <1>0, <2>0, <2>1, ZenonT(60) DEF IInv, TypeOK, SessionState, RevisionIsEnough, Looking, Begin, Idle
  <2>9. Sequel'
    <3>1. content \in Nat
      BY DEF IInv, TypeOK
    <3>2. /\ x.from <= content /\ x.for # "endpoint" /\ x.pc \notin {"reads", "records"}
          /\ x.run.digest <= x.run.read /\ x.run.read <= x.from
      BY <2>1, <2>2, <3>1
    <3> QED
      BY <2>3, <2>4, <3>2 DEF IInv, Sequel
  <2>10. DigestsAreOfTheirTime'
    BY <2>2, <2>3, <2>4 DEF IInv, DigestsAreOfTheirTime
  <2> QED
    BY <1>0, <2>5, <2>6, <2>7, <2>8, <2>9, <2>10 DEF IInv
<1> QED
  BY <1>a, <1>b, DigestAssumption DEF Begin

\* Nothing but the variables counts.
LEMMA StutterStep == ASSUME IInv, UNCHANGED vars PROVE IInv'
  BY DEF IInv, vars, TypeOK, TokensOnce, CacheIsTrue, StoreIsTrue, RevisionIsEnough, Sequel,
         DigestsAreOfTheirTime

\* Every step keeps the invariant when no run is the endpoint's.
LEMMA IInvStep == ASSUME IInv, "endpoint" \notin Purposes, [Next]_vars PROVE IInv'
<1>1. ASSUME NEW w \in Writers, Write(w) PROVE IInv'
  BY <1>1, FlushStep, CommitStep, RollbackStep DEF Write
<1>2. ASSUME NEW s \in Sessions, Step(s) PROVE IInv'
  BY <1>2, BeginStep, ReadRevisionStep, LookupStep, ReadRowsStep, StoreStep, DigestedStep, ReadStep,
     RecordStep, EndsStep DEF Step
<1> QED
  BY <1>1, <1>2, StutterStep DEF Next

\* What NeverCallsAStaleRunCurrent needs: the run's digest is no later than what it
\* read, and the page's digest no earlier than the moment it was asked for.
LEMMA CurrentMeansCurrent == IInv => NeverCallsAStaleRunCurrent
<1> SUFFICES ASSUME IInv, NEW s \in Sessions, ss[s].pc = "digested", ss[s].for = "page",
                    ss[s].digest = ss[s].run.digest
             PROVE  ss[s].run.read = ss[s].from
  BY DEF NeverCallsAStaleRunCurrent
<1>1. ss[s].from \in Nat /\ ss[s].run.digest \in Nat /\ ss[s].run.read \in Nat
  BY DEF IInv, TypeOK, SessionState, Run
<1>2. ss[s].run.digest <= ss[s].run.read /\ ss[s].run.read <= ss[s].from
  BY DEF IInv, Sequel
<1>3. ss[s].from <= ss[s].run.digest
  BY DEF IInv, DigestsAreOfTheirTime
<1> QED
  BY <1>1, <1>2, <1>3

\* The variables hold what they are declared to hold, for any writers and sessions,
\* the endpoint's runs included.
THEOREM TypeCorrect == Spec => []TypeOK
<1>1. Init => TypeOK
  BY InitIInv DEF IInv
<1> QED
  BY <1>1, TypeStep, PTL DEF Spec

\* However many sessions write, digest and store at once, a session that consults
\* the cache is given what the rows were at a moment since it began
\* (run_inputs.py:151-189).
THEOREM DigestsInTime == ASSUME "endpoint" \notin Purposes PROVE Spec => []DigestsAreOfTheirTime
<1>1. IInv /\ [Next]_vars => IInv'
  BY IInvStep
<1>2. IInv => DigestsAreOfTheirTime
  BY DEF IInv
<1> QED
  BY InitIInv, <1>1, <1>2, PTL DEF Spec

\* "the one answer this product must never give": no page calls a worker's run
\* current that read anything but what is there when the page is asked for
\* (input_revisions.py:15-16, run_inputs.py:369-393).
THEOREM NeverStale == ASSUME "endpoint" \notin Purposes PROVE Spec => []NeverCallsAStaleRunCurrent
<1>1. IInv /\ [Next]_vars => IInv'
  BY IInvStep
<1> QED
  BY InitIInv, CurrentMeansCurrent, <1>1, PTL DEF Spec

--------------------------------------------------------------------------------
(* Findings: p1 holds their rows, p2 their audit trails, p3 the months     *)
(* they were reported in, p4 what each month's current run reports, p5 is  *)
(* today and p6 the one session.                                           *)

RowFields == {"known", "state", "first", "last", "count", "resolved", "until"}

RowTyped(r) ==
  /\ DOMAIN r = RowFields
  /\ r.state \in F!States /\ r.last \in Nat /\ r.count \in Nat /\ r.until \in Nat

\* A finding nobody reported has no row; one that has a row was reported, last in the
\* newest of its months, and was counted at least once for each.
CountedIn(r, ps) ==
  /\ IsFiniteSet(ps) /\ ps \subseteq FindingMonths
  /\ ~r.known => r.state = "open" /\ ps = {}
  /\ r.known => r.last \in ps /\ (\A p \in ps : p <= r.last) /\ r.count >= Cardinality(ps)

OnRecord(r, es) ==
  /\ es \in Seq([from : F!States, to : F!States])
  /\ r.state = "waived" <=> es # <<>> /\ es[Len(es)].to = "waived"
  /\ r.state = "waived" => r.until # F!None

\* What the session read is what is there: nobody writes while it is open.
ReadAsItStands(q) ==
  /\ q.op # "closed" => q.rows = p1 /\ q.fps \subseteq Fingerprints
  /\ q.op = "run" => q.period \in FindingMonths /\ q.day \in Nat
  /\ q.op = "decision" => /\ \A f \in q.fps : p1[f].known
                          /\ q.to \in F!States
                          /\ q.to = "waived" => q.until \in Nat /\ q.until # F!None

FindingsInvariant ==
  /\ \A f \in Fingerprints : /\ RowTyped(p1[f]) /\ CountedIn(p1[f], F!PeriodsOf(f))
                             /\ OnRecord(p1[f], p2[f])
  /\ DOMAIN p4 = FindingMonths
  /\ \A p \in FindingMonths : p4[p].found \subseteq {f \in Fingerprints : <<p, f>> \in p3}
  /\ p5 \in Nat /\ p5 >= 1
  /\ DOMAIN p6 = {"s"} /\ ReadAsItStands(p6["s"])

LEMMA LifecycleBounds ==
  /\ FindingMonths \subseteq Nat /\ \A p \in FindingMonths : p # 0
  /\ WaiverDefault \in Nat /\ WaiverMax \in Nat
BY AfterwardsAssumption DEF F!LifecycleAssumption

LEMMA MaxOfTwo ==
  ASSUME NEW a \in Nat, NEW b \in Nat
  PROVE  F!Max({a, b}) = IF a >= b THEN a ELSE b
<1>1. CASE a >= b
  BY <1>1 DEF F!Max
<1>2. CASE ~(a >= b)
  BY <1>2 DEF F!Max
<1> QED
  BY <1>1, <1>2

\* A write by the only session leaves what the session meant.
LEMMA FlushOwn ==
  ASSUME NEW now, NEW mine, RowTyped(now), RowTyped(mine)
  PROVE  LET n == F!Flush(now, now, mine) IN
         /\ RowTyped(n) /\ n.known = mine.known /\ n.state = mine.state /\ n.last = mine.last
         /\ n.count = mine.count /\ n.until = mine.until /\ n.resolved = mine.resolved
<1>1. PICK n : n = F!Flush(now, now, mine)
  OBVIOUS
<1>2. DOMAIN n = RowFields /\ \A c \in RowFields : n[c] = mine[c]
  BY <1>1 DEF RowTyped, F!Flush
<1>3. /\ n.known = mine.known /\ n.state = mine.state /\ n.last = mine.last
      /\ n.count = mine.count /\ n.until = mine.until /\ n.resolved = mine.resolved
  BY <1>2 DEF RowFields
<1> QED
  BY <1>1, <1>2, <1>3 DEF RowTyped

--------------------------------------------------------------------------------
(* What becomes of one row.                                                *)

LEMMA RowNone == RowTyped(F!NoRow) /\ ~F!NoRow.known /\ F!NoRow.state = "open"
BY DEF RowTyped, RowFields, F!NoRow, F!States, F!None

LEMMA RowSet ==
  ASSUME NEW r, RowTyped(r), NEW to \in F!States, NEW until, to = "waived" => until \in Nat
  PROVE  LET n == F!SetState(r, to, until) IN
         /\ RowTyped(n) /\ n.known = r.known /\ n.last = r.last /\ n.count = r.count
         /\ n.state = to /\ n.until = IF to = "waived" THEN until ELSE F!None
BY DEF RowTyped, RowFields, F!SetState, F!None

LEMMA RowNew ==
  ASSUME NEW p \in Nat
  PROVE  LET n == F!New(p) IN
         /\ RowTyped(n) /\ n.known /\ n.last = p /\ n.count = 1 /\ n.state = "open"
BY DEF RowTyped, RowFields, F!New, F!NoRow, F!States, F!None

LEMMA RowSeen ==
  ASSUME NEW r, RowTyped(r), NEW p \in Nat
  PROVE  LET n == F!Seen(r, p) IN
         /\ RowTyped(n) /\ n.known = r.known /\ n.last = (IF r.last >= p THEN r.last ELSE p)
         /\ n.count = (IF r.last # p THEN r.count + 1 ELSE r.count)
         /\ n.state = (IF r.state = "resolved" THEN "open" ELSE r.state) /\ n.until = r.until
<1>1. r.last \in Nat
  BY DEF RowTyped
<1>2. PICK m : m = F!Max({r.last, p})
  OBVIOUS
<1>3. m = (IF r.last >= p THEN r.last ELSE p) /\ m \in Nat
  BY <1>1, <1>2, MaxOfTwo
<1>4. PICK n : n = F!Seen(r, p)
  OBVIOUS
<1>5. n = [r EXCEPT !.count = IF r.last # p THEN @ + 1 ELSE @,
                    !.last = m,
                    !.state = IF @ = "resolved" THEN "open" ELSE @,
                    !.resolved = IF r.state = "resolved" THEN F!None ELSE @]
  BY <1>2, <1>4 DEF F!Seen
<1>6. /\ n.known = r.known /\ n.last = m
      /\ n.count = (IF r.last # p THEN r.count + 1 ELSE r.count)
      /\ n.state = (IF r.state = "resolved" THEN "open" ELSE r.state) /\ n.until = r.until
  BY <1>5 DEF RowTyped, RowFields
<1>7. DOMAIN n = RowFields
  BY <1>5 DEF RowTyped
<1>8. RowTyped(n)
  BY <1>1, <1>3, <1>6, <1>7 DEF RowTyped, F!States
<1> QED
  BY <1>3, <1>4, <1>6, <1>8

LEMMA RowUnseen ==
  ASSUME NEW r, RowTyped(r), NEW p \in Nat
  PROVE  LET n == F!Unseen(r, p) IN
         /\ RowTyped(n) /\ n.known = r.known /\ n.last = r.last /\ n.count = r.count /\ n.until = r.until
         /\ \/ n.state = r.state
            \/ r.state # "waived" /\ n.state = "resolved" /\ n.resolved = p /\ r.last <= p
<1>1. CASE r.state \in {"resolved", "waived"} \/ r.last > p
  BY <1>1 DEF F!Unseen
<1>2. CASE ~(r.state \in {"resolved", "waived"} \/ r.last > p)
  <2>1. PICK n : n = F!Unseen(r, p)
    OBVIOUS
  <2>2. n = [r EXCEPT !.state = "resolved", !.resolved = p]
    BY <1>2, <2>1 DEF F!Unseen
  <2>3. /\ DOMAIN n = RowFields /\ n.known = r.known /\ n.last = r.last /\ n.count = r.count
        /\ n.until = r.until /\ n.state = "resolved" /\ n.resolved = p
    BY <2>2 DEF RowTyped, RowFields
  <2>4. RowTyped(n)
    BY <2>3 DEF RowTyped, F!States
  <2>5. r.last <= p
    BY <1>2 DEF RowTyped
  <2> QED
    BY <1>2, <2>1, <2>3, <2>4, <2>5
<1> QED
  BY <1>1, <1>2

\* One more month, whether or not the finding was reported in it before.
LEMMA MonthAdded ==
  ASSUME NEW ps, IsFiniteSet(ps), ps \subseteq FindingMonths, NEW p \in FindingMonths
  PROVE  /\ IsFiniteSet(ps \cup {p}) /\ ps \cup {p} \subseteq FindingMonths
         /\ Cardinality(ps) \in Nat /\ Cardinality(ps \cup {p}) \in Nat
         /\ Cardinality(ps \cup {p}) <= Cardinality(ps) + 1
         /\ p \in ps => ps \cup {p} = ps
<1>1. IsFiniteSet(ps \cup {p}) /\ Cardinality(ps \cup {p}) = (IF p \in ps THEN Cardinality(ps) ELSE Cardinality(ps) + 1)
  BY FS_AddElement
<1>2. Cardinality(ps) \in Nat
  BY FS_CardinalityType
<1> QED
  BY <1>1, <1>2

\* What a run of month p that reports `found` makes of the row r, reported in the months
\* ps before: counted in the months it was reported in, waived if it was and still is, and
\* resolved only by a month that reports it no more and is not older than it.
Carried(f, r, n, ps, p, found, day) ==
  /\ RowTyped(n) /\ CountedIn(n, IF f \in found THEN ps \cup {p} ELSE ps)
  /\ n.state = "waived" <=> r.state = "waived" /\ ~F!Lapsed(r, day)
  /\ n.state = "waived" => n.until = r.until
  /\ n.state = "resolved" /\ r.state # "resolved"
     => r.known /\ f \notin found /\ n.resolved = p /\ r.last <= p

LEMMA RowReconciled ==
  ASSUME NEW f \in Fingerprints, NEW r, NEW ps, NEW p \in FindingMonths, NEW found, NEW day,
         RowTyped(r), CountedIn(r, ps)
  PROVE  Carried(f, r, F!Reconciled(f, r, p, found, day), ps, p, found, day)
<1> DEFINE opened == IF F!Lapsed(r, day) THEN F!SetState(r, "open", F!None) ELSE r
<1>0. p \in Nat
  BY LifecycleBounds
<1>1. PICK o : o = opened
  OBVIOUS
<1>2. /\ RowTyped(o) /\ o.known = r.known /\ o.last = r.last /\ o.count = r.count
      /\ o.state = (IF F!Lapsed(r, day) THEN "open" ELSE r.state)
      /\ o.state = "waived" => o.until = r.until
  <2>1. CASE F!Lapsed(r, day)
    BY <1>1, <2>1, RowSet DEF F!States
  <2>2. CASE ~F!Lapsed(r, day)
    BY <1>1, <2>2
  <2> QED
    BY <2>1, <2>2
<1>3. F!Lapsed(r, day) => r.state = "waived" /\ r.known
  BY DEF F!Lapsed
<1>4. PICK n : n = F!Reconciled(f, r, p, found, day)
  OBVIOUS
<1> SUFFICES Carried(f, r, n, ps, p, found, day)
  BY <1>4
<1>5. CASE ~r.known /\ f \in found
  <2>1. n = F!New(p)
    BY <1>4, <1>5 DEF F!Reconciled
  <2>2. RowTyped(n) /\ n.known /\ n.last = p /\ n.count = 1 /\ n.state = "open"
    BY <1>0, <2>1, RowNew
  <2>3. ps = {} /\ r.state = "open"
    BY <1>5 DEF CountedIn
  <2>4. ps \cup {p} = {p} /\ IsFiniteSet({p}) /\ Cardinality({p}) = 1
    BY <2>3, FS_Singleton
  <2>5. CountedIn(n, {p})
    BY <1>0, <2>2, <2>4 DEF CountedIn
  <2> QED
    BY <1>5, <2>2, <2>3, <2>4, <2>5 DEF Carried
<1>6. CASE ~r.known /\ f \notin found
  <2>1. n = r
    BY <1>4, <1>6 DEF F!Reconciled
  <2>2. ~F!Lapsed(r, day) /\ CountedIn(n, IF f \in found THEN ps \cup {p} ELSE ps)
    BY <1>3, <1>6, <2>1
  <2> QED
    BY <2>1, <2>2 DEF Carried
<1>7. CASE r.known /\ f \in found
  <2>1. n = F!Seen(o, p)
    BY <1>1, <1>4, <1>7 DEF F!Reconciled
  <2>2. /\ RowTyped(n) /\ n.known = r.known /\ n.last = (IF r.last >= p THEN r.last ELSE p)
        /\ n.count = (IF r.last # p THEN r.count + 1 ELSE r.count)
        /\ n.state = (IF o.state = "resolved" THEN "open" ELSE o.state) /\ n.until = o.until
    BY <1>0, <1>2, <2>1, RowSeen
  <2>3. /\ IsFiniteSet(ps) /\ ps \subseteq FindingMonths /\ r.last \in ps
        /\ (\A k \in ps : k <= r.last) /\ r.count >= Cardinality(ps) /\ r.count \in Nat /\ r.last \in Nat
    BY <1>7 DEF CountedIn, RowTyped
  <2>4. n.count >= Cardinality(ps \cup {p})
    <3>1. /\ Cardinality(ps) \in Nat /\ Cardinality(ps \cup {p}) \in Nat
          /\ Cardinality(ps \cup {p}) <= Cardinality(ps) + 1
          /\ p \in ps => ps \cup {p} = ps
      BY <2>3, MonthAdded
    <3>2. CASE r.last = p
      BY <2>2, <2>3, <3>1, <3>2
    <3>3. CASE r.last # p
      BY <2>2, <2>3, <3>1, <3>3
    <3> QED
      BY <3>2, <3>3
  <2>5. n.last \in ps \cup {p} /\ \A k \in ps \cup {p} : k <= n.last
    BY <1>0, <2>2, <2>3, LifecycleBounds
  <2>6. CountedIn(n, ps \cup {p})
    BY <1>7, <2>2, <2>3, <2>4, <2>5, MonthAdded DEF CountedIn
  <2> QED
    BY <1>2, <1>3, <1>7, <2>2, <2>6 DEF Carried
<1>8. CASE r.known /\ f \notin found
  <2>1. n = F!Unseen(o, p)
    BY <1>1, <1>4, <1>8 DEF F!Reconciled
  <2>2. /\ RowTyped(n) /\ n.known = r.known /\ n.last = r.last /\ n.count = r.count /\ n.until = o.until
        /\ \/ n.state = o.state
           \/ o.state # "waived" /\ n.state = "resolved" /\ n.resolved = p /\ r.last <= p
    BY <1>0, <1>2, <2>1, RowUnseen
  <2>3. CountedIn(n, ps)
    BY <1>8, <2>2 DEF CountedIn
  <2>4. n.state = "resolved" /\ r.state # "resolved" => n.resolved = p /\ r.last <= p
    BY <1>2, <2>2
  <2>5. n.state = "waived" <=> o.state = "waived"
    BY <2>2
  <2>6. CountedIn(n, IF f \in found THEN ps \cup {p} ELSE ps)
    BY <1>8, <2>3
  <2> QED
    BY <1>2, <1>3, <1>8, <2>2, <2>4, <2>5, <2>6 DEF Carried
<1> QED
  BY <1>5, <1>6, <1>7, <1>8

\* What an audit trail says last, after one more event.
EndsWith(more, es, to) ==
  /\ more \in Seq([from : F!States, to : F!States]) /\ more # <<>> /\ more # es
  /\ more[Len(more)].to = to

LEMMA TrailEnds ==
  ASSUME NEW es \in Seq([from : F!States, to : F!States]), NEW a \in F!States, NEW b \in F!States
  PROVE  EndsWith(Append(es, F!Event(a, b)), es, b)
<1>1. PICK e : e = F!Event(a, b)
  OBVIOUS
<1>2. e \in [from : F!States, to : F!States] /\ e.to = b
  BY <1>1 DEF F!Event
<1>3. /\ Append(es, e) \in Seq([from : F!States, to : F!States])
      /\ Len(Append(es, e)) = Len(es) + 1 /\ Append(es, e)[Len(es) + 1] = e /\ Len(es) \in Nat
  BY <1>2
<1>4. Append(es, e) # es /\ Append(es, e) # <<>>
  BY <1>3
<1>5. EndsWith(Append(es, e), es, b)
  BY <1>2, <1>3, <1>4 DEF EndsWith
<1> QED
  BY <1>1, <1>5

--------------------------------------------------------------------------------
(* The steps.                                                              *)

LEMMA FindingsStart == F!Init => FindingsInvariant
<1> SUFFICES ASSUME F!Init PROVE FindingsInvariant
  OBVIOUS
<1>1. \A f \in Fingerprints : p1[f] = F!NoRow /\ p2[f] = <<>> /\ F!PeriodsOf(f) = {}
  BY DEF F!Init, F!PeriodsOf
<1>2. \A f \in Fingerprints : RowTyped(p1[f])
  BY <1>1, RowNone
<1>3. \A f \in Fingerprints : CountedIn(p1[f], F!PeriodsOf(f))
  BY <1>1, RowNone, FS_EmptySet DEF CountedIn
<1>4. <<>> \in Seq([from : F!States, to : F!States])
  OBVIOUS
<1>5. \A f \in Fingerprints : OnRecord(p1[f], p2[f])
  BY <1>1, <1>4, RowNone DEF OnRecord
<1>6. DOMAIN p4 = FindingMonths /\ \A p \in FindingMonths : p4[p].found = {}
  BY DEF F!Init
<1>7. DOMAIN p6 = {"s"} /\ ReadAsItStands(p6["s"])
  BY DEF F!Init, F!Closed, ReadAsItStands
<1> QED
  BY <1>2, <1>3, <1>5, <1>6, <1>7 DEF FindingsInvariant, F!Init

\* The session goes on, or a day passes, while the rows stay.
LEMMA FindingsGoOn ==
  ASSUME FindingsInvariant, UNCHANGED <<p1, p2, p3, p4>>, p5' \in Nat, p5' >= 1,
         DOMAIN p6' = {"s"}, ReadAsItStands(p6["s"])'
  PROVE  FindingsInvariant'
<1>1. \A f \in Fingerprints : F!PeriodsOf(f)' = F!PeriodsOf(f) /\ p1'[f] = p1[f] /\ p2'[f] = p2[f]
  BY DEF F!PeriodsOf
<1>2. \A f \in Fingerprints : /\ RowTyped(p1'[f]) /\ CountedIn(p1'[f], F!PeriodsOf(f)')
                               /\ OnRecord(p1'[f], p2'[f])
  BY <1>1 DEF FindingsInvariant
<1>3. (\A f \in Fingerprints : /\ RowTyped(p1[f]) /\ CountedIn(p1[f], F!PeriodsOf(f))
                               /\ OnRecord(p1[f], p2[f]))'
  BY <1>2
<1> QED
  BY <1>3 DEF FindingsInvariant

\* What a run that commits does.
LEMMA FindingsRun ==
  ASSUME FindingsInvariant, F!CommitRun("s"),
         NEW q, q = p6["s"]
  PROVE  /\ q.op = "run" /\ q.period \in FindingMonths /\ q.fps \subseteq Fingerprints /\ q.day \in Nat
         /\ \A f \in Fingerprints :
              /\ RowTyped(p1'[f]) /\ CountedIn(p1'[f], F!PeriodsOf(f)') /\ OnRecord(p1'[f], p2'[f])
              /\ p1'[f].state = "waived" <=> p1[f].state = "waived" /\ ~F!Lapsed(p1[f], q.day)
              /\ p1'[f].state = "waived" => p1'[f].until = p1[f].until
              /\ p1'[f].state = "resolved" /\ p1[f].state # "resolved"
                 => p1[f].known /\ f \notin q.fps /\ p1'[f].resolved = q.period /\ p1[f].last <= q.period
         /\ p3' = p3 \cup {<<q.period, f>> : f \in q.fps}
         /\ \A p \in FindingMonths \ {q.period} : p4'[p] = p4[p]
         /\ DOMAIN p4' = FindingMonths /\ p4'[q.period].found = q.fps
         /\ \A f \in p4'[q.period].waived :
              f \in q.fps /\ ~F!Lapsed(p1[f], q.day) /\ p1[f].known /\ F!IsWaivedFor(p1[f], q.period)
         /\ p5' = p5 /\ DOMAIN p6' = {"s"} /\ p6'["s"] = F!Closed
<1> DEFINE mine(f) == F!Reconciled(f, p1[f], q.period, q.fps, q.day)
           ps(f) == F!PeriodsOf(f)
           more(f) == IF f \in q.fps THEN ps(f) \cup {q.period} ELSE ps(f)
<1>1. /\ q.op = "run" /\ q.rows = p1 /\ q.period \in FindingMonths /\ q.fps \subseteq Fingerprints /\ q.day \in Nat
      /\ DOMAIN p4 = FindingMonths /\ DOMAIN p6 = {"s"}
  BY DEF FindingsInvariant, ReadAsItStands, F!CommitRun
<1>2. ~ \E f \in q.fps : ~q.rows[f].known /\ p1[f].known
  BY <1>1
<1>3. /\ p1' = [f \in Fingerprints |-> F!Flush(p1[f], q.rows[f], [g \in Fingerprints |-> F!Reconciled(g, q.rows[g], q.period, q.fps, q.day)][f])]
      /\ p2' = [f \in Fingerprints |->
                  IF f \in {g \in Fingerprints : F!Lapsed(q.rows[g], q.day)} THEN Append(p2[f], F!Event("waived", "open"))
                  ELSE p2[f]]
      /\ p3' = p3 \cup {<<q.period, f>> : f \in q.fps}
      /\ p4' = [p4 EXCEPT ![q.period] =
               [found |-> q.fps,
                waived |-> {f \in q.fps \ {g \in Fingerprints : F!Lapsed(q.rows[g], q.day)} : q.rows[f].known /\ F!IsWaivedFor(q.rows[f], q.period)}]]
      /\ p5' = p5 /\ p6' = [p6 EXCEPT !["s"] = F!Closed]
  BY <1>2 DEF F!CommitRun
<1>4. \A f \in Fingerprints :
        /\ p1'[f] = F!Flush(p1[f], p1[f], mine(f))
        /\ p2'[f] = IF F!Lapsed(p1[f], q.day) THEN Append(p2[f], F!Event("waived", "open")) ELSE p2[f]
        /\ RowTyped(p1[f]) /\ CountedIn(p1[f], ps(f)) /\ OnRecord(p1[f], p2[f])
  BY <1>1, <1>3 DEF FindingsInvariant
<1>5. ASSUME NEW f \in Fingerprints
      PROVE  /\ RowTyped(p1'[f]) /\ CountedIn(p1'[f], F!PeriodsOf(f)') /\ OnRecord(p1'[f], p2'[f])
             /\ p1'[f].state = "waived" <=> p1[f].state = "waived" /\ ~F!Lapsed(p1[f], q.day)
             /\ p1'[f].state = "waived" => p1'[f].until = p1[f].until
             /\ p1'[f].state = "resolved" /\ p1[f].state # "resolved"
                => p1[f].known /\ f \notin q.fps /\ p1'[f].resolved = q.period /\ p1[f].last <= q.period
  <2>1. PICK n : n = mine(f)
    OBVIOUS
  <2>2. /\ RowTyped(n) /\ CountedIn(n, more(f))
        /\ n.state = "waived" <=> p1[f].state = "waived" /\ ~F!Lapsed(p1[f], q.day)
        /\ n.state = "waived" => n.until = p1[f].until
        /\ n.state = "resolved" /\ p1[f].state # "resolved"
           => p1[f].known /\ f \notin q.fps /\ n.resolved = q.period /\ p1[f].last <= q.period
    <3>1. PICK r, s, p, found, day : r = p1[f] /\ s = ps(f) /\ p = q.period /\ found = q.fps /\ day = q.day
      OBVIOUS
    <3>2. RowTyped(r) /\ CountedIn(r, s) /\ p \in FindingMonths /\ n = F!Reconciled(f, r, p, found, day)
      BY <1>1, <1>4, <2>1, <3>1
    <3>3. Carried(f, r, F!Reconciled(f, r, p, found, day), s, p, found, day)
      BY <3>2, RowReconciled
    <3>4. Carried(f, r, n, s, p, found, day)
      BY <3>2, <3>3
    <3> QED
      BY <3>1, <3>4 DEF Carried
  <2>3. p1'[f] = F!Flush(p1[f], p1[f], n) /\ RowTyped(p1[f])
    BY <1>4, <2>1
  <2>4. /\ RowTyped(p1'[f]) /\ p1'[f].known = n.known /\ p1'[f].state = n.state /\ p1'[f].last = n.last
        /\ p1'[f].count = n.count /\ p1'[f].until = n.until /\ p1'[f].resolved = n.resolved
    BY <2>2, <2>3, FlushOwn
  <2>5. F!PeriodsOf(f)' = more(f)
    BY <1>1, <1>3 DEF F!PeriodsOf
  <2>6. CountedIn(p1'[f], more(f))
    BY <2>2, <2>4 DEF CountedIn
  <2>7. OnRecord(p1'[f], p2'[f])
    <3>1. OnRecord(p1[f], p2[f])
      BY <1>4
    <3>2. CASE F!Lapsed(p1[f], q.day)
      <4>1. p2'[f] = Append(p2[f], F!Event("waived", "open"))
        BY <1>4, <3>2
      <4>2. p2'[f] \in Seq([from : F!States, to : F!States]) /\ p2'[f] # <<>> /\ p2'[f][Len(p2'[f])].to = "open"
        BY <3>1, <4>1, TrailEnds DEF OnRecord, F!States, EndsWith
      <4>3. p1'[f].state # "waived"
        BY <2>2, <2>4, <3>2
      <4> QED
        BY <4>2, <4>3 DEF OnRecord
    <3>3. CASE ~F!Lapsed(p1[f], q.day)
      <4>1. p2'[f] = p2[f]
        BY <1>4, <3>3
      <4>2. p1'[f].state = "waived" <=> p1[f].state = "waived"
        BY <2>2, <2>4, <3>3
      <4>3. p1'[f].state = "waived" => p1'[f].until = p1[f].until
        BY <2>2, <2>4
      <4> QED
        BY <3>1, <4>1, <4>2, <4>3 DEF OnRecord
    <3> QED
      BY <3>2, <3>3
  <2> QED
    BY <2>2, <2>4, <2>5, <2>6, <2>7
<1>6. /\ \A p \in FindingMonths \ {q.period} : p4'[p] = p4[p]
      /\ DOMAIN p4' = FindingMonths /\ p4'[q.period].found = q.fps
      /\ p4'[q.period].waived = {f \in q.fps \ {g \in Fingerprints : F!Lapsed(p1[g], q.day)} : p1[f].known /\ F!IsWaivedFor(p1[f], q.period)}
  BY <1>1, <1>3
<1>7. \A f \in p4'[q.period].waived :
        f \in q.fps /\ ~F!Lapsed(p1[f], q.day) /\ p1[f].known /\ F!IsWaivedFor(p1[f], q.period)
  BY <1>1, <1>6
<1>8. DOMAIN p6' = {"s"} /\ p6'["s"] = F!Closed
  BY <1>1, <1>3
<1> QED
  BY <1>1, <1>3, <1>5, <1>6, <1>7, <1>8

\* What a decision that commits does, a lapse that the worklist records included.
LEMMA FindingsDecision ==
  ASSUME FindingsInvariant, F!CommitDecision("s"),
         NEW q, q = p6["s"]
  PROVE  /\ q.fps \subseteq Fingerprints /\ q.to \in F!States
         /\ \A f \in Fingerprints :
              /\ RowTyped(p1'[f]) /\ CountedIn(p1'[f], F!PeriodsOf(f)') /\ OnRecord(p1'[f], p2'[f])
              /\ f \notin q.fps => p1'[f].state = p1[f].state
              /\ f \in q.fps => /\ p1'[f].state = q.to /\ p2'[f] # p2[f] /\ p2'[f] # <<>>
                                /\ p2'[f][Len(p2'[f])].to = q.to
         /\ UNCHANGED <<p3, p4, p5>> /\ DOMAIN p6' = {"s"} /\ p6'["s"] = F!Closed
<1> DEFINE mine(f) == IF f \in q.fps THEN F!SetState(p1[f], q.to, q.until) ELSE p1[f]
<1>1. /\ q.op = "decision" /\ q.rows = p1 /\ q.fps \subseteq Fingerprints /\ q.to \in F!States
      /\ (\A f \in q.fps : p1[f].known) /\ DOMAIN p6 = {"s"}
      /\ q.to = "waived" => q.until \in Nat /\ q.until # F!None
  BY DEF FindingsInvariant, ReadAsItStands, F!CommitDecision
<1>2. /\ p1' = [f \in Fingerprints |->
                  F!Flush(p1[f], q.rows[f], [g \in Fingerprints |-> IF g \in q.fps THEN F!SetState(q.rows[g], q.to, q.until)
                                                                   ELSE q.rows[g]][f])]
      /\ p2' = [f \in Fingerprints |-> IF f \in q.fps THEN Append(p2[f], F!Event(q.rows[f].state, q.to)) ELSE p2[f]]
      /\ UNCHANGED <<p3, p4, p5>> /\ p6' = [p6 EXCEPT !["s"] = F!Closed]
  BY DEF F!CommitDecision
<1>3. \A f \in Fingerprints :
        /\ p1'[f] = F!Flush(p1[f], p1[f], mine(f))
        /\ p2'[f] = IF f \in q.fps THEN Append(p2[f], F!Event(p1[f].state, q.to)) ELSE p2[f]
        /\ RowTyped(p1[f]) /\ CountedIn(p1[f], F!PeriodsOf(f)) /\ OnRecord(p1[f], p2[f])
        /\ F!PeriodsOf(f)' = F!PeriodsOf(f)
  BY <1>1, <1>2 DEF FindingsInvariant, F!PeriodsOf
<1>4. ASSUME NEW f \in Fingerprints
      PROVE  /\ RowTyped(p1'[f]) /\ CountedIn(p1'[f], F!PeriodsOf(f)') /\ OnRecord(p1'[f], p2'[f])
             /\ f \notin q.fps => p1'[f].state = p1[f].state
             /\ f \in q.fps => /\ p1'[f].state = q.to /\ p2'[f] # p2[f] /\ p2'[f] # <<>>
                               /\ p2'[f][Len(p2'[f])].to = q.to
  <2>1. PICK n : n = mine(f)
    OBVIOUS
  <2>2. /\ RowTyped(n) /\ n.known = p1[f].known /\ n.last = p1[f].last /\ n.count = p1[f].count
        /\ f \in q.fps => n.state = q.to /\ n.until = IF q.to = "waived" THEN q.until ELSE F!None
        /\ f \notin q.fps => n.state = p1[f].state /\ n.until = p1[f].until
    <3>1. CASE f \in q.fps
      BY <1>1, <1>3, <2>1, <3>1, RowSet
    <3>2. CASE f \notin q.fps
      BY <1>3, <2>1, <3>2
    <3> QED
      BY <3>1, <3>2
  <2>3. p1'[f] = F!Flush(p1[f], p1[f], n) /\ RowTyped(p1[f])
    BY <1>3, <2>1
  <2>4. /\ RowTyped(p1'[f]) /\ p1'[f].known = n.known /\ p1'[f].state = n.state /\ p1'[f].last = n.last
        /\ p1'[f].count = n.count /\ p1'[f].until = n.until
    BY <2>2, <2>3, FlushOwn
  <2>5. CountedIn(p1'[f], F!PeriodsOf(f))
    <3>1. CASE f \in q.fps
      <4>1. CountedIn(p1[f], F!PeriodsOf(f)) /\ p1[f].known
        BY <1>1, <1>3, <3>1
      <4> QED
        BY <2>2, <2>4, <4>1 DEF CountedIn
    <3>2. CASE f \notin q.fps
      <4>1. CountedIn(p1[f], F!PeriodsOf(f)) /\ n.state = p1[f].state
        BY <1>3, <2>2, <3>2
      <4> QED
        BY <2>2, <2>4, <4>1 DEF CountedIn
    <3> QED
      BY <3>1, <3>2
  <2>6. f \in q.fps => /\ p2'[f] \in Seq([from : F!States, to : F!States]) /\ p2'[f] # <<>>
                       /\ p2'[f] # p2[f] /\ p2'[f][Len(p2'[f])].to = q.to
    <3> SUFFICES ASSUME f \in q.fps
                 PROVE  /\ p2'[f] \in Seq([from : F!States, to : F!States]) /\ p2'[f] # <<>>
                        /\ p2'[f] # p2[f] /\ p2'[f][Len(p2'[f])].to = q.to
      OBVIOUS
    <3>1. PICK es, a, b : es = p2[f] /\ a = p1[f].state /\ b = q.to
      OBVIOUS
    <3>2. /\ es \in Seq([from : F!States, to : F!States]) /\ a \in F!States /\ b \in F!States
          /\ p2'[f] = Append(es, F!Event(a, b))
      BY <1>1, <1>3, <3>1 DEF OnRecord, RowTyped
    <3>3. EndsWith(Append(es, F!Event(a, b)), es, b)
      BY <3>2, TrailEnds
    <3>4. EndsWith(p2'[f], es, b)
      BY <3>2, <3>3
    <3> QED
      BY <3>1, <3>4 DEF EndsWith
  <2>7. OnRecord(p1'[f], p2'[f])
    <3>1. CASE f \in q.fps
      BY <1>1, <2>2, <2>4, <2>6, <3>1 DEF OnRecord
    <3>2. CASE f \notin q.fps
      <4>1. p2'[f] = p2[f] /\ OnRecord(p1[f], p2[f]) /\ p1'[f].state = p1[f].state /\ p1'[f].until = p1[f].until
        BY <1>3, <2>2, <2>4, <3>2
      <4> QED
        BY <4>1 DEF OnRecord
    <3> QED
      BY <3>1, <3>2
  <2> QED
    BY <1>3, <2>2, <2>4, <2>5, <2>6, <2>7
<1> QED
  BY <1>1, <1>2, <1>4

LEMMA FindingsStep == FindingsInvariant /\ [F!Next]_F!vars => FindingsInvariant'
<1> SUFFICES ASSUME FindingsInvariant, [F!Next]_F!vars PROVE FindingsInvariant'
  OBVIOUS
<1>0. /\ DOMAIN p4 = FindingMonths /\ DOMAIN p6 = {"s"} /\ p5 \in Nat /\ p5 >= 1
      /\ ReadAsItStands(p6["s"])
      /\ \A f \in Fingerprints : RowTyped(p1[f])
  BY DEF FindingsInvariant
<1>1. CASE UNCHANGED F!vars
  BY <1>0, <1>1, FindingsGoOn DEF F!vars, ReadAsItStands
<1>2. CASE F!NextDay
  BY <1>0, <1>2, FindingsGoOn DEF F!NextDay, ReadAsItStands
<1>3. ASSUME NEW p \in FindingMonths, NEW found \in SUBSET Fingerprints, F!StartRun("s", p, found)
      PROVE  FindingsInvariant'
  <2>1. p6' = [p6 EXCEPT !["s"] = [F!Closed EXCEPT !.op = "run", !.day = p5, !.period = p, !.fps = found, !.rows = p1]]
        /\ UNCHANGED <<p1, p2, p3, p4, p5>>
    BY <1>3 DEF F!StartRun
  <2>2. /\ DOMAIN p6' = {"s"} /\ p6'["s"].op = "run" /\ p6'["s"].day = p5 /\ p6'["s"].period = p
        /\ p6'["s"].fps = found /\ p6'["s"].rows = p1
    BY <1>0, <2>1 DEF F!Closed
  <2>3. ReadAsItStands(p6["s"])'
    BY <1>0, <2>1, <2>2 DEF ReadAsItStands
  <2> QED
    BY <1>0, <2>1, <2>2, <2>3, FindingsGoOn
<1>4. ASSUME NEW fps \in SUBSET Fingerprints, NEW to \in F!States, F!StartDecision("s", fps, to)
      PROVE  FindingsInvariant'
  <2>1. PICK until : /\ to = "waived" => until \in Nat /\ until # F!None
                     /\ p6' = [p6 EXCEPT !["s"] = [F!Closed EXCEPT !.op = "decision", !.fps = fps, !.to = to, !.rows = p1,
                                                                   !.until = until]]
    <3>1. PICK asked \in F!WaiverEnds :
            p6' = [p6 EXCEPT !["s"] = [F!Closed EXCEPT !.op = "decision", !.fps = fps, !.to = to, !.rows = p1,
                                         !.until = IF to = "waived" THEN F!WaiverEnd(asked) ELSE F!None]]
      BY <1>4 DEF F!StartDecision
    <3>2. F!WaiverEnd(asked) \in Nat /\ F!WaiverEnd(asked) # F!None
      BY <1>0, LifecycleBounds DEF F!WaiverEnds, F!WaiverEnd, F!None
    <3> QED
      BY <3>1, <3>2
  <2>2. (\A f \in fps : p1[f].known) /\ UNCHANGED <<p1, p2, p3, p4, p5>>
    BY <1>4 DEF F!StartDecision
  <2>3. /\ DOMAIN p6' = {"s"} /\ p6'["s"].op = "decision" /\ p6'["s"].fps = fps /\ p6'["s"].to = to
        /\ p6'["s"].rows = p1 /\ p6'["s"].until = until
    BY <1>0, <2>1 DEF F!Closed
  <2>4. ReadAsItStands(p6["s"])'
    BY <2>1, <2>2, <2>3 DEF ReadAsItStands
  <2> QED
    BY <1>0, <2>2, <2>3, <2>4, FindingsGoOn
<1>5. ASSUME F!StartExpiry("s") PROVE FindingsInvariant'
  <2>1. PICK lapsed : lapsed = {f \in Fingerprints : F!Lapsed(p1[f], p5)}
    OBVIOUS
  <2>2. /\ p6' = [p6 EXCEPT !["s"] = [F!Closed EXCEPT !.op = "decision", !.rows = p1, !.fps = lapsed]]
        /\ UNCHANGED <<p1, p2, p3, p4, p5>>
    BY <1>5, <2>1 DEF F!StartExpiry
  <2>3. /\ DOMAIN p6' = {"s"} /\ p6'["s"].op = "decision" /\ p6'["s"].fps = lapsed /\ p6'["s"].to = "open"
        /\ p6'["s"].rows = p1
    BY <1>0, <2>2 DEF F!Closed
  <2>4. lapsed \subseteq Fingerprints /\ \A f \in lapsed : p1[f].known
    BY <2>1 DEF F!Lapsed
  <2>5. ReadAsItStands(p6["s"])'
    BY <2>2, <2>3, <2>4 DEF ReadAsItStands, F!States
  <2> QED
    BY <1>0, <2>2, <2>3, <2>5, FindingsGoOn
<1>6. ASSUME F!Abandon("s") PROVE FindingsInvariant'
  <2>1. DOMAIN p6' = {"s"} /\ p6'["s"].op = "closed" /\ UNCHANGED <<p1, p2, p3, p4, p5>>
    BY <1>0, <1>6 DEF F!Abandon, F!Closed
  <2>2. ReadAsItStands(p6["s"])'
    BY <2>1 DEF ReadAsItStands
  <2> QED
    BY <1>0, <2>1, <2>2, FindingsGoOn
<1>7. ASSUME F!CommitRun("s") PROVE FindingsInvariant'
  <2>1. PICK q : q = p6["s"]
    OBVIOUS
  <2>2. /\ q.period \in FindingMonths /\ q.fps \subseteq Fingerprints
        /\ p3' = p3 \cup {<<q.period, f>> : f \in q.fps}
        /\ \A p \in FindingMonths \ {q.period} : p4'[p] = p4[p]
        /\ DOMAIN p4' = FindingMonths /\ p4'[q.period].found = q.fps
        /\ p5' = p5 /\ DOMAIN p6' = {"s"} /\ p6'["s"] = F!Closed
    BY <1>7, <2>1, FindingsRun
  <2>3. \A f \in Fingerprints : /\ RowTyped(p1'[f]) /\ CountedIn(p1'[f], F!PeriodsOf(f)')
                                 /\ OnRecord(p1'[f], p2'[f])
    BY <1>7, <2>1, FindingsRun
  <2>4. \A p \in FindingMonths : p4'[p].found \subseteq {f \in Fingerprints : <<p, f>> \in p3'}
    BY <2>2 DEF FindingsInvariant
  <2>5. ReadAsItStands(p6["s"])'
    BY <2>2 DEF ReadAsItStands, F!Closed
  <2>6. (\A f \in Fingerprints : /\ RowTyped(p1[f]) /\ CountedIn(p1[f], F!PeriodsOf(f))
                                 /\ OnRecord(p1[f], p2[f]))'
    BY <2>3
  <2> QED
    BY <1>0, <2>2, <2>4, <2>5, <2>6 DEF FindingsInvariant
<1>8. ASSUME F!CommitDecision("s") PROVE FindingsInvariant'
  <2>1. PICK q : q = p6["s"]
    OBVIOUS
  <2>2. UNCHANGED <<p3, p4, p5>> /\ DOMAIN p6' = {"s"} /\ p6'["s"] = F!Closed
    BY <1>8, <2>1, FindingsDecision
  <2>3. \A f \in Fingerprints : /\ RowTyped(p1'[f]) /\ CountedIn(p1'[f], F!PeriodsOf(f)')
                                 /\ OnRecord(p1'[f], p2'[f])
    BY <1>8, <2>1, FindingsDecision
  <2>4. \A p \in FindingMonths : p4'[p].found \subseteq {f \in Fingerprints : <<p, f>> \in p3'}
    BY <2>2 DEF FindingsInvariant
  <2>5. ReadAsItStands(p6["s"])'
    BY <2>2 DEF ReadAsItStands, F!Closed
  <2>6. (\A f \in Fingerprints : /\ RowTyped(p1[f]) /\ CountedIn(p1[f], F!PeriodsOf(f))
                                 /\ OnRecord(p1[f], p2[f]))'
    BY <2>3
  <2> QED
    BY <1>0, <2>2, <2>4, <2>5, <2>6 DEF FindingsInvariant
<1> QED
  BY <1>1, <1>2, <1>3, <1>4, <1>5, <1>6, <1>7, <1>8 DEF F!Next

\* The newest month is the last one, and no month goes uncounted.
LEMMA SameCardinality == \A ps : F!Cardinality(ps) = Cardinality(ps)
BY DEF F!Cardinality, Cardinality

LEMMA FindingsCount == FindingsInvariant => F!NothingGoesUncounted
<1> SUFFICES ASSUME FindingsInvariant, NEW f \in Fingerprints, p1[f].known
             PROVE  p1[f].last = F!Max(F!PeriodsOf(f)) /\ p1[f].count >= F!Cardinality(F!PeriodsOf(f))
  BY DEF F!NothingGoesUncounted
<1>1. PICK ps, last : ps = F!PeriodsOf(f) /\ last = p1[f].last
  OBVIOUS
<1>2. CountedIn(p1[f], ps)
  BY <1>1 DEF FindingsInvariant
<1>3. ps \subseteq Nat /\ last \in ps /\ \A p \in ps : p <= last
  BY <1>1, <1>2, LifecycleBounds DEF CountedIn
<1>4. F!Max(ps) \in ps /\ \A p \in ps : F!Max(ps) >= p
  <2>1. \A p \in ps : last >= p
    BY <1>3
  <2> QED
    BY <1>3, <2>1 DEF F!Max
<1>5. last = F!Max(ps)
  <2>1. PICK m : m = F!Max(ps)
    OBVIOUS
  <2>2. m \in Nat /\ last \in Nat /\ m >= last /\ last >= m
    BY <1>3, <1>4, <2>1
  <2>3. m = last
    BY <2>2
  <2> QED
    BY <2>1, <2>3
<1> QED
  BY <1>1, <1>2, <1>5, SameCardinality DEF CountedIn

LEMMA FindingsAreOnRecord == FindingsInvariant => F!WaivedIsOnRecord
<1> SUFFICES ASSUME FindingsInvariant, NEW f \in Fingerprints
             PROVE  /\ p1[f].state = "waived" <=> F!LastDecided(f) = "waived"
                    /\ p1[f].state = "waived" => p1[f].until # F!None
  BY DEF F!WaivedIsOnRecord
<1>1. OnRecord(p1[f], p2[f])
  BY DEF FindingsInvariant
<1>2. CASE p2[f] = <<>>
  BY <1>1, <1>2 DEF OnRecord, F!LastDecided
<1>3. CASE p2[f] # <<>>
  BY <1>1, <1>3 DEF OnRecord, F!LastDecided
<1> QED
  BY <1>2, <1>3

\* Only a run that commits changes what a month's run reports, and only it or a decision
\* that commits changes a row.
LEMMA OthersLeaveRows ==
  ASSUME [F!Next]_F!vars, ~F!CommitRun("s")
  PROVE  p4' = p4 /\ (F!CommitDecision("s") \/ p1' = p1)
BY DEF F!Next, F!vars, F!NextDay, F!StartRun, F!StartDecision, F!CommitDecision, F!StartExpiry, F!Abandon

LEMMA FindingsReport == FindingsInvariant /\ [F!Next]_F!vars => F!ReportsWaivedInForce
<1> SUFFICES ASSUME FindingsInvariant, [F!Next]_F!vars, NEW p \in FindingMonths, p4'[p] # p4[p]
             PROVE  /\ p4'[p].waived \subseteq p4'[p].found
                    /\ \A f \in p4'[p].waived :
                         \E s \in {"s"} : /\ p6[s].op = "run" /\ p6[s].day <= p1'[f].until
                                           /\ p1'[f].state = "waived"
  BY DEF F!ReportsWaivedInForce
<1>1. F!CommitRun("s")
  BY OthersLeaveRows
<1>2. PICK q : q = p6["s"]
  OBVIOUS
<1>3. /\ q.op = "run" /\ q.fps \subseteq Fingerprints /\ q.day \in Nat
      /\ p = q.period /\ p4'[p].found = q.fps
      /\ \A f \in p4'[p].waived :
           f \in q.fps /\ ~F!Lapsed(p1[f], q.day) /\ p1[f].known /\ F!IsWaivedFor(p1[f], p)
  BY <1>1, <1>2, FindingsRun
<1>4. ASSUME NEW f \in p4'[p].waived
      PROVE  q.day <= p1'[f].until /\ p1'[f].state = "waived"
  <2>1. f \in Fingerprints /\ ~F!Lapsed(p1[f], q.day) /\ p1[f].known /\ p1[f].state = "waived"
    BY <1>3, <1>4 DEF F!IsWaivedFor
  <2>2. p1'[f].state = "waived" /\ p1'[f].until = p1[f].until
    BY <1>1, <1>2, <2>1, FindingsRun
  <2>3. p1[f].until # F!None /\ p1[f].until \in Nat
    BY <2>1 DEF FindingsInvariant, OnRecord, RowTyped
  <2>4. ~(p1[f].until < q.day)
    BY <2>1, <2>3 DEF F!Lapsed
  <2> QED
    BY <1>3, <2>2, <2>3, <2>4
<1>5. p4'[p].waived \subseteq p4'[p].found
  BY <1>3
<1> QED
  BY <1>2, <1>3, <1>4, <1>5

LEMMA FindingsResolve == FindingsInvariant /\ [F!Next]_F!vars => F!ResolvesOnlyWhatStopped
<1> SUFFICES ASSUME FindingsInvariant, [F!Next]_F!vars, NEW f \in Fingerprints,
                    p1[f].state # "resolved", p1'[f].state = "resolved",
                    F!LastDecided(f)' # "resolved" \/ p2'[f] = p2[f],
                    NEW p \in FindingMonths, p >= p1'[f].resolved
             PROVE  f \notin p4'[p].found
  BY DEF F!ResolvesOnlyWhatStopped
<1>1. PICK q : q = p6["s"]
  OBVIOUS
<1>2. ~F!CommitDecision("s")
  <2> SUFFICES ASSUME F!CommitDecision("s") PROVE FALSE
    OBVIOUS
  <2>1. /\ f \notin q.fps => p1'[f].state = p1[f].state
        /\ f \in q.fps => /\ p1'[f].state = q.to /\ p2'[f] # p2[f] /\ p2'[f] # <<>>
                          /\ p2'[f][Len(p2'[f])].to = q.to
    BY <1>1, FindingsDecision
  <2>2. F!LastDecided(f)' = "resolved" /\ p2'[f] # p2[f]
    BY <2>1 DEF F!LastDecided
  <2> QED
    BY <2>2
<1>3. F!CommitRun("s")
  BY <1>2, OthersLeaveRows
<1>4. /\ q.period \in FindingMonths /\ f \notin q.fps /\ p1'[f].resolved = q.period
      /\ p1[f].last <= q.period /\ p1[f].known
      /\ p4'[q.period].found = q.fps /\ \A k \in FindingMonths \ {q.period} : p4'[k] = p4[k]
  BY <1>1, <1>3, FindingsRun
<1>5. CASE p = q.period
  BY <1>4, <1>5
<1>6. CASE p # q.period
  <2> SUFFICES ASSUME f \in p4[p].found PROVE FALSE
    BY <1>4, <1>6
  <2>1. p \in F!PeriodsOf(f)
    BY DEF FindingsInvariant, F!PeriodsOf
  <2>2. CountedIn(p1[f], F!PeriodsOf(f)) /\ p1[f].last \in Nat
    BY DEF FindingsInvariant, RowTyped
  <2>3. p <= p1[f].last
    BY <1>4, <2>1, <2>2 DEF CountedIn
  <2>4. p \in Nat /\ q.period \in Nat
    BY <1>4, LifecycleBounds
  <2>5. p >= q.period
    BY <1>4
  <2> QED
    BY <1>4, <1>6, <2>2, <2>3, <2>4, <2>5
<1> QED
  BY <1>5, <1>6

--------------------------------------------------------------------------------
(* Costings: p1 counts the changes of each ingredient, p2 says whether a   *)
(* version is published, p4 is the stored costing, p5 the requests.        *)

BookRequest == {"at", "began", "could", "base", "token", "versions", "flags", "shows"}

\* Figures that a request with this basis may show: what they were worked out of is what
\* the basis says, or of later rows, or torn.
Bears(b, c) ==
  /\ b.token \in Nat /\ b.flags \in Nat /\ b.base \in Nat
  /\ c.rows \in Nat /\ b.token <= c.rows /\ c.flags = b.flags /\ c.base = b.base
  /\ c.versions = b.versions \/ c.torn

\* What a request has read is of no earlier than when it began.
Reads(r) ==
  /\ r.at \in {"open", "based", "missed"} => p2 \in r.could /\ r.began["flags"] <= p1["flags"]
  /\ r.at = "open" => r.began["rows"] <= p1["rows"]
  /\ r.at \in {"open", "based", "missed", "worked"} => r.base \in Nat /\ r.began["base"] <= r.base
  /\ r.at \in {"based", "missed", "worked"} =>
       /\ r.token \in Nat /\ r.began["rows"] <= r.token /\ r.token <= p1["rows"]
       /\ r.versions \in r.could
  /\ r.at \in {"missed", "worked"} => r.flags \in Nat /\ r.began["flags"] <= r.flags
  /\ r.at = "worked" => \A c \in r.shows : Bears(r, c) /\ (c.versions \in r.could \/ c.torn)
  /\ r.at = "shown" => \A c \in r.shows : /\ \A i \in B!Ingredients : r.began[i] <= c[i]
                                          /\ c.versions \in r.could \/ c.torn

BooksInvariant ==
  /\ DOMAIN p1 = B!Ingredients /\ \A i \in B!Ingredients : p1[i] \in Nat
  /\ \A b \in p4.basis : \A c \in p4.costs : Bears(b, c)
  /\ DOMAIN p5 = Requests
  /\ \A q \in Requests : /\ DOMAIN p5[q] = BookRequest
                         /\ \A i \in B!Ingredients : p5[q].began[i] \in Nat
                         /\ Reads(p5[q])

LEMMA BooksStart == B!Init => BooksInvariant
<1> SUFFICES ASSUME B!Init PROVE BooksInvariant
  OBVIOUS
<1>1. DOMAIN p1 = B!Ingredients /\ \A i \in B!Ingredients : p1[i] \in Nat
  BY DEF B!Init
<1>2. \A b \in p4.basis : \A c \in p4.costs : Bears(b, c)
  BY DEF B!Init, B!NoBook
<1>3. DOMAIN p5 = Requests /\ \A q \in Requests : p5[q] = B!Idle
  BY DEF B!Init
<1>4. /\ DOMAIN B!Idle = BookRequest /\ B!Idle.at = "idle"
      /\ \A i \in B!Ingredients : B!Idle.began[i] \in Nat
  BY DEF B!Idle, BookRequest
<1>5. \A q \in Requests : Reads(p5[q])
  BY <1>3, <1>4 DEF Reads
<1> QED
  BY <1>1, <1>2, <1>3, <1>4, <1>5 DEF BooksInvariant

\* One request goes on while the ingredients and the versions stay.
LEMMA BooksGoOn ==
  ASSUME BooksInvariant, NEW q \in Requests, NEW r, p1' = p1, p2' = p2, p5' = [p5 EXCEPT ![q] = r],
         DOMAIN r = BookRequest, \A i \in B!Ingredients : r.began[i] \in Nat, Reads(r),
         \A b \in p4'.basis : \A c \in p4'.costs : Bears(b, c)
  PROVE  BooksInvariant'
<1>1. DOMAIN p5' = Requests /\ \A p \in Requests : p5'[p] = IF p = q THEN r ELSE p5[p]
  BY DEF BooksInvariant
<1>2. ASSUME NEW v, Reads(v) PROVE Reads(v)'
  BY <1>2 DEF Reads
<1>3. \A p \in Requests : Reads(p5[p])'
  BY <1>1, <1>2 DEF BooksInvariant
<1>4. \A p \in Requests : DOMAIN p5'[p] = BookRequest /\ \A i \in B!Ingredients : p5'[p].began[i] \in Nat
  BY <1>1 DEF BooksInvariant
<1>5. \A b \in p4'.basis : \A c \in p4'.costs : Bears(b, c)'
  BY DEF Bears
<1> QED
  BY <1>1, <1>3, <1>4, <1>5 DEF BooksInvariant

LEMMA BooksStep == BooksInvariant /\ [B!Next]_B!vars => BooksInvariant'
<1> SUFFICES ASSUME BooksInvariant, [B!Next]_B!vars PROVE BooksInvariant'
  OBVIOUS
<1>0. /\ DOMAIN p1 = B!Ingredients /\ \A i \in B!Ingredients : p1[i] \in Nat
      /\ \A b \in p4.basis : \A c \in p4.costs : Bears(b, c)
      /\ DOMAIN p5 = Requests
      /\ \A q \in Requests : /\ DOMAIN p5[q] = BookRequest
                             /\ \A i \in B!Ingredients : p5[q].began[i] \in Nat
                             /\ Reads(p5[q])
  BY DEF BooksInvariant
<1>i. "rows" \in B!Ingredients /\ "flags" \in B!Ingredients /\ "base" \in B!Ingredients
  BY DEF B!Ingredients
<1>1. ASSUME NEW q \in Requests, B!Open(q) PROVE BooksInvariant'
  <2>1. PICK r : r = [B!Idle EXCEPT !.at = "open", !.began = p1, !.base = p1["base"], !.could = {p2}]
    OBVIOUS
  <2>2. /\ DOMAIN r = BookRequest /\ r.at = "open" /\ r.began = p1 /\ r.base = p1["base"] /\ r.could = {p2}
    BY <2>1 DEF B!Idle, BookRequest
  <2>3. Reads(r)
    BY <1>0, <1>i, <2>2 DEF Reads
  <2>4. p1' = p1 /\ p2' = p2 /\ p4' = p4 /\ p5' = [p5 EXCEPT ![q] = r]
    BY <1>1, <2>1 DEF B!Open
  <2> QED
    BY <1>0, <2>2, <2>3, <2>4, BooksGoOn
<1>2. ASSUME NEW q \in Requests, B!TakeBasis(q) PROVE BooksInvariant'
  <2> DEFINE old == p5[q]
  <2>1. PICK r : r = [old EXCEPT !.at = "based", !.token = p1["rows"], !.versions = p2]
    OBVIOUS
  <2>2. p1' = p1 /\ p2' = p2 /\ p4' = p4 /\ p5' = [p5 EXCEPT ![q] = r]
    BY <1>0, <1>2, <2>1 DEF B!TakeBasis, BookRequest
  <2>3. old.at = "open" /\ Reads(old) /\ DOMAIN old = BookRequest
    BY <1>0, <1>2 DEF B!TakeBasis
  <2> HIDE DEF old
  <2>4. /\ DOMAIN r = BookRequest /\ r.at = "based" /\ r.token = p1["rows"] /\ r.versions = p2
        /\ r.began = old.began /\ r.could = old.could /\ r.base = old.base
    BY <2>1, <2>3 DEF BookRequest
  <2>5. Reads(r)
    BY <1>0, <1>i, <2>3, <2>4 DEF Reads
  <2> QED
    BY <1>0, <2>2, <2>4, <2>5, BooksGoOn DEF old
<1>3. ASSUME NEW q \in Requests, B!ReadBook(q) PROVE BooksInvariant'
  <2> DEFINE old == p5[q]
  <2>1. PICK r : r = [old EXCEPT !.flags = p1["flags"]]
    OBVIOUS
  <2>2. /\ p1' = p1 /\ p2' = p2 /\ p4' = p4
        /\ p5' = [p5 EXCEPT ![q] = IF B!Fresh(p4, r) THEN B!Shown(r, p4.costs) ELSE [r EXCEPT !.at = "missed"]]
    BY <1>0, <1>3, <2>1 DEF B!ReadBook
  <2>3. old.at = "based" /\ Reads(old) /\ DOMAIN old = BookRequest /\ \A i \in B!Ingredients : old.began[i] \in Nat
    BY <1>0, <1>3 DEF B!ReadBook
  <2> HIDE DEF old
  <2>4. /\ DOMAIN r = BookRequest /\ r.at = "based" /\ r.token = old.token /\ r.versions = old.versions
        /\ r.began = old.began /\ r.could = old.could /\ r.base = old.base /\ r.flags = p1["flags"]
    BY <2>1, <2>3 DEF BookRequest
  <2>5. /\ r.versions \in r.could /\ p2 \in r.could /\ r.token \in Nat /\ r.base \in Nat /\ r.flags \in Nat
        /\ r.began["rows"] <= r.token /\ r.token <= p1["rows"] /\ r.began["base"] <= r.base /\ r.began["flags"] <= r.flags
    BY <1>0, <1>i, <2>3, <2>4 DEF Reads
  <2>6. \A b \in p4'.basis : \A c \in p4'.costs : Bears(b, c)
    BY <1>0, <2>2
  <2>7. CASE B!Fresh(p4, r)
    <3>1. PICK s : s = B!Shown(r, p4.costs)
      OBVIOUS
    <3>2. /\ DOMAIN s = BookRequest /\ s.at = "shown" /\ s.began = r.began /\ s.could = r.could /\ s.shows = p4.costs
      BY <3>1 DEF B!Shown, B!Idle, BookRequest
    <3>3. p4.basis = {[token |-> r.token, base |-> r.base, versions |-> r.versions, flags |-> r.flags]}
      BY <2>7 DEF B!Fresh, B!RegisterBasis
    <3>4. ASSUME NEW c \in p4.costs
          PROVE  (\A i \in B!Ingredients : r.began[i] <= c[i]) /\ (c.versions \in r.could \/ c.torn)
      <4> DEFINE b == [token |-> r.token, base |-> r.base, versions |-> r.versions, flags |-> r.flags]
      <4>1. b \in p4.basis /\ b.token = r.token /\ b.base = r.base /\ b.versions = r.versions /\ b.flags = r.flags
        BY <3>3
      <4> HIDE DEF b
      <4>2. Bears(b, c)
        BY <1>0, <4>1
      <4>3. c.versions \in r.could \/ c.torn
        BY <2>5, <4>1, <4>2 DEF Bears
      <4>4. c.rows \in Nat /\ r.token <= c.rows /\ c.flags = r.flags /\ c.base = r.base
        BY <4>1, <4>2 DEF Bears
      <4>5. r.began["rows"] \in Nat
        BY <1>i, <2>3, <2>4
      <4>6. r.began["rows"] <= c.rows
        BY <2>5, <4>4, <4>5
      <4> QED
        BY <2>5, <4>3, <4>4, <4>6 DEF B!Ingredients
    <3>5. Reads(s)
      BY <3>2, <3>4 DEF Reads
    <3>6. p5' = [p5 EXCEPT ![q] = s]
      BY <2>2, <2>7, <3>1
    <3>7. \A i \in B!Ingredients : s.began[i] \in Nat
      BY <2>3, <2>4, <3>2
    <3> QED
      BY <2>2, <2>6, <3>2, <3>5, <3>6, <3>7, BooksGoOn
  <2>8. CASE ~B!Fresh(p4, r)
    <3>1. PICK s : s = [r EXCEPT !.at = "missed"]
      OBVIOUS
    <3>2. /\ DOMAIN s = BookRequest /\ s.at = "missed" /\ s.token = r.token /\ s.versions = r.versions
          /\ s.began = r.began /\ s.could = r.could /\ s.base = r.base /\ s.flags = r.flags
      BY <2>4, <3>1 DEF BookRequest
    <3>3. s.began["flags"] <= p1["flags"]
      BY <2>4, <2>5, <3>2
    <3>4. Reads(s)
      BY <2>5, <3>2, <3>3 DEF Reads
    <3>5. p5' = [p5 EXCEPT ![q] = s]
      BY <2>2, <2>8, <3>1
    <3>6. \A i \in B!Ingredients : s.began[i] \in Nat
      BY <2>3, <2>4, <3>2
    <3> QED
      BY <2>2, <2>6, <3>2, <3>4, <3>5, <3>6, BooksGoOn
  <2> QED
    BY <2>7, <2>8
<1>4. ASSUME NEW q \in Requests, B!Work(q) PROVE BooksInvariant'
  <2> DEFINE old == p5[q]
  <2>1. PICK r : r = [old EXCEPT !.at = "worked", !.shows = B!CostRow(p1["rows"], old, p2)]
    OBVIOUS
  <2>2. p1' = p1 /\ p2' = p2 /\ p4' = p4 /\ p5' = [p5 EXCEPT ![q] = r]
    BY <1>0, <1>4, <2>1 DEF B!Work, BookRequest
  <2>3. old.at = "missed" /\ Reads(old) /\ DOMAIN old = BookRequest
    BY <1>0, <1>4 DEF B!Work
  <2> HIDE DEF old
  <2>4. /\ DOMAIN r = BookRequest /\ r.at = "worked" /\ r.token = old.token /\ r.versions = old.versions
        /\ r.began = old.began /\ r.could = old.could /\ r.base = old.base /\ r.flags = old.flags
        /\ r.shows = B!CostRow(p1["rows"], old, p2)
    BY <2>1, <2>3 DEF BookRequest
  <2>5. ASSUME NEW c \in r.shows PROVE Bears(r, c) /\ c.versions \in r.could
    <3>1. /\ c.rows = p1["rows"] /\ c.flags = old.flags /\ c.base = old.base /\ c.versions = p2
          /\ c.torn = (p2 # old.versions)
      BY <2>4 DEF B!CostRow
    <3> QED
      BY <1>0, <1>i, <2>3, <2>4, <3>1 DEF Bears, Reads
  <2>6. Reads(r)
    BY <2>3, <2>4, <2>5 DEF Reads
  <2> QED
    BY <1>0, <2>2, <2>4, <2>6, BooksGoOn DEF old
<1>5. ASSUME NEW q \in Requests, B!Store(q) PROVE BooksInvariant'
  <2> DEFINE old == p5[q]
  <2>1. PICK r : r = B!Shown(old, old.shows)
    OBVIOUS
  <2>2. /\ p1' = p1 /\ p2' = p2 /\ p5' = [p5 EXCEPT ![q] = r]
        /\ p4' = [basis |-> B!RegisterBasis(old), costs |-> old.shows] \/ p4' = p4
    BY <1>0, <1>5, <2>1 DEF B!Store
  <2>3. old.at = "worked" /\ Reads(old) /\ DOMAIN old = BookRequest /\ \A i \in B!Ingredients : old.began[i] \in Nat
    BY <1>0, <1>5 DEF B!Store
  <2> HIDE DEF old
  <2>4. /\ DOMAIN r = BookRequest /\ r.at = "shown" /\ r.began = old.began /\ r.could = old.could /\ r.shows = old.shows
    BY <2>1 DEF B!Shown, B!Idle, BookRequest
  <2>5. \A c \in old.shows : Bears(old, c) /\ (c.versions \in old.could \/ c.torn)
    BY <2>3 DEF Reads
  <2>6. \A b \in p4'.basis : \A c \in p4'.costs : Bears(b, c)
    <3>1. CASE p4' = p4
      BY <1>0, <3>1
    <3>2. CASE p4' = [basis |-> B!RegisterBasis(old), costs |-> old.shows]
      <4>1. p4'.basis = {[token |-> old.token, base |-> old.base, versions |-> old.versions, flags |-> old.flags]}
              /\ p4'.costs = old.shows
        BY <3>2 DEF B!RegisterBasis
      <4> QED
        BY <2>5, <4>1 DEF Bears
    <3> QED
      BY <2>2, <3>1, <3>2
  <2>7. ASSUME NEW c \in old.shows PROVE \A i \in B!Ingredients : old.began[i] <= c[i]
    <3>1. Bears(old, c) /\ old.began["rows"] \in Nat
      BY <1>i, <2>3, <2>5
    <3>2. old.began["rows"] <= c.rows
      BY <2>3, <3>1 DEF Bears, Reads
    <3>3. old.began["base"] <= c.base /\ old.began["flags"] <= c.flags
      BY <2>3, <3>1 DEF Bears, Reads
    <3> QED
      BY <3>2, <3>3 DEF B!Ingredients
  <2>8. Reads(r)
    BY <2>4, <2>5, <2>7 DEF Reads
  <2> QED
    BY <1>0, <2>2, <2>3, <2>4, <2>6, <2>8, BooksGoOn
<1>6. ASSUME NEW q \in Requests, B!Leave(q) PROVE BooksInvariant'
  <2>1. PICK r : r = B!Idle
    OBVIOUS
  <2>2. DOMAIN r = BookRequest /\ r.at = "idle" /\ \A i \in B!Ingredients : r.began[i] \in Nat
    BY <2>1 DEF B!Idle, BookRequest
  <2>3. Reads(r)
    BY <2>2 DEF Reads
  <2>4. p1' = p1 /\ p2' = p2 /\ p4' = p4 /\ p5' = [p5 EXCEPT ![q] = r]
    BY <1>6, <2>1 DEF B!Leave
  <2> QED
    BY <1>0, <2>2, <2>3, <2>4, BooksGoOn
<1>7. ASSUME NEW i \in B!Ingredients, B!Change(i) PROVE BooksInvariant'
  <2>1. /\ p1' = [p1 EXCEPT ![i] = @ + 1] /\ p2' = p2 /\ p4' = p4 /\ p5' = p5
    BY <1>7 DEF B!Change
  <2>2. DOMAIN p1' = B!Ingredients /\ \A j \in B!Ingredients : p1'[j] \in Nat /\ p1[j] <= p1'[j]
    BY <1>0, <2>1
  <2>3. ASSUME NEW q \in Requests PROVE Reads(p5[q])'
    <3>1. PICK v : v = p5[q]
      OBVIOUS
    <3>2. Reads(v) /\ \A j \in B!Ingredients : v.began[j] \in Nat
      BY <1>0, <3>1
    <3>3. Reads(v)'
      BY <1>0, <1>i, <2>1, <2>2, <3>2 DEF Reads, Bears
    <3> QED
      BY <2>1, <3>1, <3>3
  <2>4. \A b \in p4'.basis : \A c \in p4'.costs : Bears(b, c)'
    BY <1>0, <2>1 DEF Bears
  <2> QED
    BY <1>0, <2>1, <2>2, <2>3, <2>4 DEF BooksInvariant
<1>8. ASSUME B!ChangeVersions PROVE BooksInvariant'
  <2>1. /\ p1' = p1 /\ p4' = p4
        /\ p5' = [p \in Requests |-> IF p5[p].at = "idle" THEN p5[p] ELSE B!Seen(p5[p], p2')]
    BY <1>8 DEF B!ChangeVersions
  <2>2. ASSUME NEW q \in Requests
        PROVE  /\ DOMAIN p5'[q] = BookRequest /\ \A i \in B!Ingredients : p5'[q].began[i] \in Nat
               /\ Reads(p5[q])'
    <3>1. PICK v, w : v = p5[q] /\ w = p5'[q]
      OBVIOUS
    <3>2. Reads(v) /\ DOMAIN v = BookRequest /\ \A j \in B!Ingredients : v.began[j] \in Nat
      BY <1>0, <3>1
    <3>3. CASE v.at = "idle"
      <4>1. w = v
        BY <2>1, <3>1, <3>3
      <4>2. Reads(w)'
        BY <3>3, <4>1 DEF Reads
      <4> QED
        BY <3>1, <3>2, <4>1, <4>2
    <3>4. CASE v.at # "idle"
      <4>1. w = [v EXCEPT !.could = v.could \cup {p2'}]
        BY <2>1, <3>1, <3>2, <3>4 DEF B!Seen, BookRequest
      <4>2. /\ DOMAIN w = BookRequest /\ w.at = v.at /\ w.began = v.began /\ w.base = v.base /\ w.token = v.token
            /\ w.versions = v.versions /\ w.flags = v.flags /\ w.shows = v.shows /\ w.could = v.could \cup {p2'}
        BY <3>2, <4>1 DEF BookRequest
      <4>3. Reads(w)'
        BY <2>1, <3>2, <4>2 DEF Reads, Bears
      <4> QED
        BY <3>1, <3>2, <4>2, <4>3
    <3> QED
      BY <3>3, <3>4
  <2>3. \A b \in p4'.basis : \A c \in p4'.costs : Bears(b, c)'
    BY <1>0, <2>1 DEF Bears
  <2>4. DOMAIN p5' = Requests
    BY <2>1
  <2> QED
    BY <1>0, <2>1, <2>2, <2>3, <2>4 DEF BooksInvariant
<1>9. ASSUME UNCHANGED B!vars PROVE BooksInvariant'
  <2>1. p1' = p1 /\ p2' = p2 /\ p4' = p4 /\ p5' = p5
    BY <1>9 DEF B!vars
  <2>2. ASSUME NEW v, Reads(v) PROVE Reads(v)'
    BY <2>1, <2>2 DEF Reads, Bears
  <2>3. \A q \in Requests : Reads(p5[q])'
    BY <1>0, <2>1, <2>2
  <2>4. \A b \in p4'.basis : \A c \in p4'.costs : Bears(b, c)'
    BY <1>0, <2>1 DEF Bears
  <2> QED
    BY <1>0, <2>1, <2>3, <2>4 DEF BooksInvariant
<1> QED
  BY <1>1, <1>2, <1>3, <1>4, <1>5, <1>6, <1>7, <1>8, <1>9 DEF B!Next

LEMMA BooksHold == BooksInvariant => B!BooksAreOfTheirTime
BY DEF BooksInvariant, Reads, B!BooksAreOfTheirTime

--------------------------------------------------------------------------------
(* Retention: p1 says what each place holds, p2 is the validation of each  *)
(* month, p5 the erasure, p6 the places excused, p7 the policy, p8 the     *)
(* pass, p9 what was written since the last one, p10 the day.              *)

JobFields == {"at", "named", "late"}

ProtectionTyped ==
  /\ DOMAIN p1 = P!Places /\ DOMAIN p2 = P!Months
  /\ \A m \in P!Months : DOMAIN p2[m] = JobFields
  /\ DOMAIN p5 = {"at", "found", "kept"}
  /\ p10 \in Nat /\ 0 < p10
  /\ DOMAIN p7 = {"months", "applied"} /\ p7.months \in Nat /\ p7.applied \in Nat /\ p7.applied <= p10
  /\ DOMAIN p8 = {"months", "last"} /\ p8.months \in Nat

\* Once the erasure has looked, validations under way are late.
JobsAreLate ==
  p5.at # "none" => \A m \in P!Months : p2[m].at \in {"queued", "running"} => p2[m].late = TRUE

\* What names the person when the erasure rewrites was found, is listed, or came late.
FoundOrExcused ==
  p5.at = "rewritten" => \A p \in P!Places : P!Named(p) => p \in p5.found \cup p5.kept \cup p6

ProtectionInvariant ==
  ProtectionTyped /\ JobsAreLate /\ FoundOrExcused /\ P!ErasedStaysErased /\ P!KeptNoLonger

\* Places of a month.
LEMMA MonthlyPlaces ==
  ASSUME NEW p \in P!Monthly
  PROVE  p \in P!Places /\ p[2] \in Nat /\ p # P!Trail /\ p # P!File /\ p # P!Master /\ p # P!Copy
BY DEF P!Monthly, P!Places, P!Trail, P!File, P!Master, P!Copy, P!Months

LEMMA Cutoffs ==
  ASSUME p10 \in Nat, NEW n \in Nat, NEW m \in Nat
  PROVE  m < P!Cutoff(n) <=> m + n <= p10
BY DEF P!Cutoff

LEMMA ProtectionStart == P!Init => ProtectionInvariant
<1> SUFFICES ASSUME P!Init PROVE ProtectionInvariant
  OBVIOUS
<1>1. ProtectionTyped
  BY DEF P!Init, ProtectionTyped, P!NoJob, P!None, JobFields
<1>2. p5.at = "none" /\ p7.applied = 0 /\ p10 = 1
  BY DEF P!Init, P!None
<1> QED
  BY <1>1, <1>2
     DEF ProtectionInvariant, JobsAreLate, FoundOrExcused, P!ErasedStaysErased, P!KeptNoLonger

\* Somebody writes a place, and what names the person comes late or before the erasure.
LEMMA ProtectionWrites ==
  ASSUME ProtectionInvariant, NEW p \in P!Places, NEW named, NEW late, P!Write(p, named, late),
         p5.at # "none" => late = TRUE,
         ProtectionTyped', JobsAreLate', UNCHANGED <<p5, p7, p8, p10>>
  PROVE  ProtectionInvariant'
<1>0. ProtectionTyped /\ FoundOrExcused /\ P!ErasedStaysErased /\ P!KeptNoLonger
  BY DEF ProtectionInvariant
<1>1. /\ p1' = [p1 EXCEPT ![p] = IF named THEN "named" ELSE "clean"]
      /\ p6' = IF named /\ late THEN p6 \cup {p} ELSE p6 \ {p}
      /\ p9' = p9 \cup {p}
  BY DEF P!Write
<1>2. /\ p1'[p] = IF named THEN "named" ELSE "clean"
      /\ \A o \in P!Places \ {p} : p1'[o] = p1[o]
  BY <1>0, <1>1 DEF ProtectionTyped
<1>3. p5.at # "none" => /\ p1'[p] = "named" => p \in p6'
                        /\ \A o \in P!Places \ {p} : o \in p6 => o \in p6'
  BY <1>1, <1>2
<1>4. FoundOrExcused'
  BY <1>0, <1>2, <1>3 DEF FoundOrExcused, P!Named
<1>5. P!ErasedStaysErased'
  BY <1>0, <1>2, <1>3 DEF P!ErasedStaysErased, P!Named
<1>6. P!KeptNoLonger'
  <2> SUFFICES ASSUME p7'.applied = p10', p8'.last = p7'.months, NEW o \in P!Monthly, p1'[o] # "nothing",
                      o[2] + p7'.months <= p10'
               PROVE  o \in p9'
    BY DEF P!KeptNoLonger, P!Held
  <2>1. CASE o = p
    BY <1>1, <2>1
  <2>2. CASE o # p
    <3>1. p1[o] # "nothing" /\ o \in P!Places
      BY <1>2, <2>2, MonthlyPlaces
    <3> QED
      BY <1>0, <1>1, <3>1 DEF P!KeptNoLonger, P!Held
  <2> QED
    BY <2>1, <2>2
<1> QED
  BY <1>4, <1>5, <1>6 DEF ProtectionInvariant

\* Nothing is written.
LEMMA ProtectionStays ==
  ASSUME ProtectionInvariant, UNCHANGED <<p1, p5, p6, p7, p8, p9, p10>>, ProtectionTyped', JobsAreLate'
  PROVE  ProtectionInvariant'
<1>1. FoundOrExcused' /\ P!ErasedStaysErased'
  BY DEF ProtectionInvariant, FoundOrExcused, P!ErasedStaysErased, P!Named
<1>2. P!KeptNoLonger'
  BY DEF ProtectionInvariant, P!KeptNoLonger, P!Held
<1> QED
  BY <1>1, <1>2 DEF ProtectionInvariant

LEMMA ProtectionStep == ProtectionInvariant /\ [P!Next]_P!vars => ProtectionInvariant'
<1> SUFFICES ASSUME ProtectionInvariant, [P!Next]_P!vars PROVE ProtectionInvariant'
  OBVIOUS
<1>0. /\ ProtectionTyped /\ JobsAreLate /\ FoundOrExcused /\ P!ErasedStaysErased /\ P!KeptNoLonger
      /\ DOMAIN p1 = P!Places /\ DOMAIN p2 = P!Months
  BY DEF ProtectionInvariant, ProtectionTyped
<1>p. /\ P!Master \in P!Places /\ P!Copy \in P!Places /\ P!File \in P!Places /\ P!Trail \in P!Places
      /\ \A m \in P!Months : /\ <<"register", m>> \in P!Places /\ <<"results", m>> \in P!Places
                             /\ <<"signed", m>> \in P!Places
  BY DEF P!Places, P!Monthly
\* Places and jobs that change keep their types.
<1>t. ASSUME DOMAIN p1' = P!Places, p2' = p2, UNCHANGED <<p5, p7, p8, p10>>
      PROVE  ProtectionTyped' /\ JobsAreLate'
  BY <1>0, <1>t DEF ProtectionTyped, JobsAreLate
<1>w. ASSUME NEW p \in P!Places, NEW named, NEW late, P!Write(p, named, late) PROVE DOMAIN p1' = P!Places
  BY <1>0, <1>w DEF P!Write
<1>l. P!Late <=> p5.at # "none"
  BY DEF P!Late
<1>1. ASSUME NEW m \in P!Months, P!Upload(m) PROVE ProtectionInvariant'
  <2>1. P!Write(<<"register", m>>, TRUE, P!Late) /\ p2' = p2 /\ UNCHANGED <<p5, p7, p8, p10>>
    BY <1>1 DEF P!Upload, P!keeping
  <2>2. PICK late : late = P!Late
    OBVIOUS
  <2>3. P!Write(<<"register", m>>, TRUE, late) /\ (p5.at # "none" => late = TRUE)
    BY <1>l, <2>1, <2>2 DEF P!Late
  <2> QED
    BY <1>p, <1>t, <1>w, <2>1, <2>3, ProtectionWrites
<1>2. ASSUME NEW m \in P!Months, P!Enqueue(m) PROVE ProtectionInvariant'
  <2>1. /\ p2' = [p2 EXCEPT ![m] = [at |-> "queued", named |-> FALSE, late |-> P!Late]]
        /\ UNCHANGED <<p1, p5, p6, p7, p8, p9, p10>>
    BY <1>2 DEF P!Enqueue, P!keeping
  <2>2. DOMAIN p2' = P!Months /\ \A k \in P!Months \ {m} : p2'[k] = p2[k]
    BY <1>0, <2>1
  <2>3. DOMAIN p2'[m] = JobFields /\ p2'[m].late = P!Late
    BY <1>0, <2>1 DEF JobFields
  <2>4. p5.at # "none" => p2'[m].late = TRUE
    BY <2>3 DEF P!Late
  <2>5. ProtectionTyped'
    BY <1>0, <2>1, <2>2, <2>3 DEF ProtectionTyped
  <2>6. JobsAreLate'
    BY <1>0, <2>1, <2>2, <2>4 DEF JobsAreLate
  <2> QED
    BY <2>1, <2>5, <2>6, ProtectionStays
<1>3. ASSUME NEW m \in P!Months, P!Load(m) PROVE ProtectionInvariant'
  <2>1. /\ p2[m].at = "queued"
        /\ p2' = [p2 EXCEPT ![m] = [@ EXCEPT !.at = "running", !.named = P!Named(<<"register", m>>)]]
        /\ UNCHANGED <<p1, p5, p6, p7, p8, p9, p10>>
    BY <1>3 DEF P!Load, P!keeping
  <2>2. DOMAIN p2' = P!Months /\ \A k \in P!Months \ {m} : p2'[k] = p2[k]
    BY <1>0, <2>1
  <2>3. DOMAIN p2[m] = JobFields
    BY <1>0 DEF ProtectionTyped
  <2>4. p2'[m] = [p2[m] EXCEPT !.at = "running", !.named = P!Named(<<"register", m>>)]
    BY <1>0, <2>1
  <2>5. DOMAIN p2'[m] = JobFields /\ p2'[m].late = p2[m].late
    BY <2>3, <2>4 DEF JobFields
  <2>6. ProtectionTyped'
    BY <1>0, <2>1, <2>2, <2>5 DEF ProtectionTyped
  <2>7. JobsAreLate'
    BY <1>0, <2>1, <2>2, <2>5 DEF JobsAreLate
  <2> QED
    BY <2>1, <2>6, <2>7, ProtectionStays
<1>4. ASSUME NEW m \in P!Months, P!Record(m) PROVE ProtectionInvariant'
  <2>1. /\ p2[m].at = "running" /\ p2' = [p2 EXCEPT ![m] = P!NoJob]
        /\ P!Write(<<"results", m>>, p2[m].named, p2[m].late)
        /\ UNCHANGED <<p5, p7, p8, p10>>
    BY <1>4 DEF P!Record, P!keeping
  <2>2. PICK named, late : named = p2[m].named /\ late = p2[m].late
    OBVIOUS
  <2>3. P!Write(<<"results", m>>, named, late) /\ (p5.at # "none" => late = TRUE)
    BY <1>0, <2>1, <2>2 DEF JobsAreLate
  <2>4. DOMAIN p2' = P!Months /\ p2'[m] = P!NoJob /\ \A k \in P!Months \ {m} : p2'[k] = p2[k]
    BY <1>0, <2>1
  <2>5. DOMAIN P!NoJob = JobFields /\ P!NoJob.at = "none"
    BY DEF P!NoJob, JobFields
  <2>6. DOMAIN p1' = P!Places
    BY <1>p, <1>w, <2>3
  <2>7. ProtectionTyped'
    BY <1>0, <2>1, <2>4, <2>5, <2>6 DEF ProtectionTyped
  <2>8. JobsAreLate'
    BY <1>0, <2>1, <2>4, <2>5 DEF JobsAreLate
  <2> QED
    BY <1>p, <2>1, <2>3, <2>7, <2>8, ProtectionWrites
<1>5. ASSUME NEW p \in P!Places, NEW named, P!Write(p, named, P!Late), p2' = p2, UNCHANGED <<p5, p7, p8, p10>>
      PROVE  ProtectionInvariant'
  <2>1. PICK late : late = P!Late
    OBVIOUS
  <2>2. P!Write(p, named, late) /\ (p5.at # "none" => late = TRUE)
    BY <1>5, <1>l, <2>1 DEF P!Late
  <2> QED
    BY <1>5, <1>t, <1>w, <2>2, ProtectionWrites
<1>6. ASSUME NEW m \in P!Months, P!Sign(m) PROVE ProtectionInvariant'
  <2>1. PICK named : named = P!Named(<<"results", m>>)
    OBVIOUS
  <2>2. P!Write(<<"signed", m>>, named, P!Late) /\ p2' = p2 /\ UNCHANGED <<p5, p7, p8, p10>>
    BY <1>6, <2>1 DEF P!Sign, P!keeping, P!work
  <2> QED
    BY <1>5, <1>p, <2>2
<1>7. ASSUME P!Import \/ P!Imported \/ P!Built PROVE ProtectionInvariant'
  <2>1. PICK p, named : p \in P!Places /\ P!Write(p, named, P!Late)
    <3>1. CASE P!Import
      BY <1>p, <3>1 DEF P!Import
    <3>2. CASE P!Imported
      BY <1>p, <3>2 DEF P!Imported
    <3>3. CASE P!Built
      BY <1>p, <3>3 DEF P!Built
    <3> QED
      BY <1>7, <3>1, <3>2, <3>3
  <2>2. p2' = p2 /\ UNCHANGED <<p5, p7, p8, p10>>
    BY <1>7 DEF P!Import, P!Imported, P!Built, P!keeping
  <2> QED
    BY <1>5, <2>1, <2>2
<1>8. ASSUME UNCHANGED <<p1, p2, p5, p6, p7, p8, p9, p10>> PROVE ProtectionInvariant'
  BY <1>0, <1>t, <1>8, ProtectionStays
<1>9. ASSUME P!EraseLook PROVE ProtectionInvariant'
  <2>1. /\ ~P!InProgress /\ p5.at = "none" /\ p5' = [p5 EXCEPT !.at = "looked"]
        /\ UNCHANGED <<p1, p2, p6, p7, p8, p9, p10>>
    BY <1>9 DEF P!EraseLook, P!work, P!keeping
  <2>2. DOMAIN p5' = {"at", "found", "kept"} /\ p5'.at = "looked"
    BY <1>0, <2>1 DEF ProtectionTyped
  <2>3. ProtectionTyped'
    BY <1>0, <2>1, <2>2 DEF ProtectionTyped
  <2>4. JobsAreLate'
    BY <2>1 DEF JobsAreLate, P!InProgress
  <2>5. FoundOrExcused' /\ P!ErasedStaysErased'
    BY <2>2 DEF FoundOrExcused, P!ErasedStaysErased
  <2>6. P!KeptNoLonger'
    BY <1>0, <2>1 DEF P!KeptNoLonger, P!Held
  <2> QED
    BY <2>3, <2>4, <2>5, <2>6 DEF ProtectionInvariant
<1>10. ASSUME P!EraseRewrite PROVE ProtectionInvariant'
  <2>1. /\ p5.at = "looked"
        /\ p5' = [at |-> "rewritten", found |-> {p \in P!Places : P!Named(p)} \ P!Retained, kept |-> P!Retained]
        /\ UNCHANGED <<p1, p2, p6, p7, p8, p9, p10>>
    BY <1>10 DEF P!EraseRewrite, P!work, P!keeping
  <2>2. /\ DOMAIN p5' = {"at", "found", "kept"} /\ p5'.at = "rewritten"
        /\ p5'.found = {p \in P!Places : P!Named(p)} \ P!Retained /\ p5'.kept = P!Retained
    BY <2>1
  <2>3. ProtectionTyped'
    BY <1>0, <2>1, <2>2 DEF ProtectionTyped
  <2>4. JobsAreLate'
    BY <1>0, <2>1 DEF JobsAreLate
  <2>5. FoundOrExcused'
    <3>1. \A p \in P!Places : P!Named(p)' <=> P!Named(p)
      BY <2>1 DEF P!Named
    <3> QED
      BY <2>2, <3>1 DEF FoundOrExcused
  <2>6. P!ErasedStaysErased'
    BY <2>2 DEF P!ErasedStaysErased
  <2>7. P!KeptNoLonger'
    BY <1>0, <2>1 DEF P!KeptNoLonger, P!Held
  <2> QED
    BY <2>3, <2>4, <2>5, <2>6, <2>7 DEF ProtectionInvariant
<1>11. ASSUME P!EraseCommit PROVE ProtectionInvariant'
  <2>1. /\ p5.at = "rewritten" /\ p1' = [p \in P!Places |-> P!Erased(p)]
        /\ p6' = (p6 \ p5.found) \cup p5.kept \cup {P!Trail}
        /\ p5' = [at |-> "done", found |-> {}, kept |-> {}]
        /\ UNCHANGED <<p2, p7, p8, p9, p10>>
    BY <1>11 DEF P!EraseCommit, P!work, P!keeping
  <2>2. DOMAIN p5' = {"at", "found", "kept"} /\ p5'.at = "done" /\ DOMAIN p1' = P!Places
    BY <2>1
  <2>3. ProtectionTyped'
    BY <1>0, <2>1, <2>2 DEF ProtectionTyped
  <2>4. JobsAreLate'
    BY <1>0, <2>1 DEF JobsAreLate
  <2>5. FoundOrExcused'
    BY <2>2 DEF FoundOrExcused
  <2>6. P!ErasedStaysErased'
    <3> SUFFICES ASSUME NEW p \in P!Places, p1'[p] = "named" PROVE p \in p6'
      BY DEF P!ErasedStaysErased, P!Named
    <3>1. p = P!Trail \/ (p1[p] = "named" /\ p \notin p5.found)
      BY <2>1 DEF P!Erased, P!Held
    <3> QED
      BY <1>0, <2>1, <3>1 DEF FoundOrExcused, P!Named
  <2>7. P!KeptNoLonger'
    <3>1. \A p \in P!Monthly : p1'[p] # "nothing" => p1[p] # "nothing"
      BY <2>1, MonthlyPlaces DEF P!Erased, P!Held
    <3> QED
      BY <1>0, <2>1, <3>1 DEF P!KeptNoLonger, P!Held
  <2> QED
    BY <2>3, <2>4, <2>5, <2>6, <2>7 DEF ProtectionInvariant
<1>12. ASSUME NEW n \in RetentionPeriods \cup {0}, P!SetPolicy(n) PROVE ProtectionInvariant'
  <2>1. /\ p7' = [months |-> n, applied |-> 0]
        /\ UNCHANGED <<p1, p2, p5, p6, p8, p9, p10>>
    BY <1>12 DEF P!SetPolicy, P!work, P!None
  <2>2. n \in Nat
    BY AfterwardsAssumption DEF AfterwardsAssumption, P!ProtectionAssumption
  <2>3. DOMAIN p7' = {"months", "applied"} /\ p7'.months = n /\ p7'.applied = 0
    BY <2>1
  <2>4. ProtectionTyped'
    BY <1>0, <2>1, <2>2, <2>3 DEF ProtectionTyped
  <2>5. JobsAreLate' /\ FoundOrExcused' /\ P!ErasedStaysErased'
    BY <1>0, <2>1 DEF JobsAreLate, FoundOrExcused, P!ErasedStaysErased, P!Named
  <2>6. P!KeptNoLonger'
    BY <1>0, <2>1, <2>3 DEF P!KeptNoLonger, ProtectionTyped
  <2> QED
    BY <2>4, <2>5, <2>6 DEF ProtectionInvariant
<1>13. ASSUME P!ReadPolicy PROVE ProtectionInvariant'
  <2>1. /\ p8' = [p8 EXCEPT !.months = p7.months]
        /\ UNCHANGED <<p1, p2, p5, p6, p7, p9, p10>>
    BY <1>13 DEF P!ReadPolicy, P!work
  <2>2. DOMAIN p8' = {"months", "last"} /\ p8'.months = p7.months /\ p8'.last = p8.last
    BY <1>0, <2>1 DEF ProtectionTyped
  <2>3. ProtectionTyped'
    BY <1>0, <2>1, <2>2 DEF ProtectionTyped
  <2>4. JobsAreLate' /\ FoundOrExcused' /\ P!ErasedStaysErased'
    BY <1>0, <2>1 DEF JobsAreLate, FoundOrExcused, P!ErasedStaysErased, P!Named
  <2>5. P!KeptNoLonger'
    BY <1>0, <2>1, <2>2 DEF P!KeptNoLonger, P!Held
  <2> QED
    BY <2>3, <2>4, <2>5 DEF ProtectionInvariant
<1>14. ASSUME P!Apply PROVE ProtectionInvariant'
  <2> DEFINE older == {p \in P!Monthly : p[2] < P!Cutoff(p8.months)}
  <2>1. /\ p1' = [p \in P!Places |-> IF p \in older THEN "nothing" ELSE p1[p]]
        /\ p6' = p6 \ older
        /\ p2' = [m \in P!Months |-> IF m < P!Cutoff(p8.months) THEN P!NoJob ELSE p2[m]]
        /\ p7' = [p7 EXCEPT !.applied = p10] /\ p8' = [months |-> 0, last |-> p8.months]
        /\ UNCHANGED <<p5, p10>>
    BY <1>14 DEF P!Apply, P!None
  <2> HIDE DEF older
  <2>2. DOMAIN P!NoJob = JobFields /\ P!NoJob.at = "none"
    BY DEF P!NoJob, JobFields
  <2>3. /\ DOMAIN p7' = {"months", "applied"} /\ p7'.months = p7.months /\ p7'.applied = p10
        /\ DOMAIN p8' = {"months", "last"} /\ p8'.months = 0 /\ p8'.last = p8.months
    BY <1>0, <2>1 DEF ProtectionTyped
  <2>4. DOMAIN p2' = P!Months /\ \A m \in P!Months : p2'[m] = P!NoJob \/ p2'[m] = p2[m]
    BY <2>1
  <2>5. ProtectionTyped'
    <3>1. DOMAIN p1' = P!Places /\ \A m \in P!Months : DOMAIN p2'[m] = JobFields
      BY <1>0, <2>1, <2>2, <2>4 DEF ProtectionTyped
    <3> QED
      BY <1>0, <2>1, <2>3, <2>4, <3>1 DEF ProtectionTyped
  <2>6. JobsAreLate'
    BY <1>0, <2>1, <2>2, <2>4 DEF JobsAreLate
  <2>7. FoundOrExcused' /\ P!ErasedStaysErased'
    BY <1>0, <2>1 DEF FoundOrExcused, P!ErasedStaysErased, P!Named
  <2>8. P!KeptNoLonger'
    <3> SUFFICES ASSUME p8'.last = p7'.months, NEW p \in P!Monthly, p1'[p] # "nothing", p[2] + p7'.months <= p10'
                 PROVE  FALSE
      BY DEF P!KeptNoLonger, P!Held
    <3>1. p \in P!Places /\ p[2] \in Nat
      BY MonthlyPlaces
    <3>2. p \notin older
      BY <2>1, <3>1
    <3>3. ~(p[2] < P!Cutoff(p8.months))
      BY <3>2 DEF older
    <3>4. p[2] + p8.months <= p10
      BY <2>1, <2>3
    <3> QED
      BY <1>0, <3>1, <3>3, <3>4, Cutoffs DEF ProtectionTyped
  <2> QED
    BY <2>5, <2>6, <2>7, <2>8 DEF ProtectionInvariant
<1>15. ASSUME P!NextDay PROVE ProtectionInvariant'
  <2>1. p10' = p10 + 1 /\ UNCHANGED <<p1, p2, p5, p6, p7, p8, p9>>
    BY <1>15 DEF P!NextDay, P!work
  <2>2. ProtectionTyped'
    BY <1>0, <2>1 DEF ProtectionTyped
  <2>3. JobsAreLate' /\ FoundOrExcused' /\ P!ErasedStaysErased'
    BY <1>0, <2>1 DEF JobsAreLate, FoundOrExcused, P!ErasedStaysErased, P!Named
  <2>4. p7'.applied # p10'
    BY <1>0, <2>1 DEF ProtectionTyped
  <2> QED
    BY <2>2, <2>3, <2>4 DEF ProtectionInvariant, P!KeptNoLonger
<1>16. ASSUME P!Build \/ UNCHANGED P!vars PROVE ProtectionInvariant'
  BY <1>8, <1>16 DEF P!Build, P!vars, P!work, P!keeping
<1> QED
  BY <1>1, <1>2, <1>3, <1>4, <1>6, <1>7, <1>9, <1>10, <1>11, <1>12, <1>13, <1>14, <1>15, <1>16 DEF P!Next, P!None

\* A pass takes only what is older than what it keeps.
LEMMA ProtectionKeeps == ProtectionInvariant /\ [P!Next]_P!vars => P!KeptAsLong
<1> SUFFICES ASSUME ProtectionInvariant, [P!Next]_P!vars, NEW p \in P!Monthly, p1[p] # "nothing", p1'[p] = "nothing"
             PROVE  p[2] + p8.months <= p10
  BY DEF P!KeptAsLong, P!Held
<1>0. /\ DOMAIN p1 = P!Places /\ p8.months \in Nat /\ p10 \in Nat /\ p \in P!Places /\ p[2] \in Nat
      /\ p # P!Trail
  BY MonthlyPlaces DEF ProtectionInvariant, ProtectionTyped
<1>1. p1' # p1
  OBVIOUS
<1>2. ASSUME NEW o, NEW named, NEW late, P!Write(o, named, late) PROVE FALSE
  BY <1>0, <1>2 DEF P!Write
<1>3. CASE P!Apply
  <2>1. p[2] < P!Cutoff(p8.months)
    BY <1>0, <1>3 DEF P!Apply
  <2> QED
    BY <1>0, <2>1, Cutoffs
<1>4. CASE P!EraseCommit
  BY <1>0, <1>4 DEF P!EraseCommit, P!Erased, P!Held
<1>5. ASSUME NEW m \in P!Months, P!Upload(m) \/ P!Record(m) \/ P!Sign(m) PROVE FALSE
  BY <1>2, <1>5 DEF P!Upload, P!Record, P!Sign
<1>6. CASE P!Import \/ P!Imported \/ P!Built
  BY <1>2, <1>6 DEF P!Import, P!Imported, P!Built
<1>7. ASSUME NEW m \in P!Months, P!Enqueue(m) \/ P!Load(m) PROVE FALSE
  BY <1>1, <1>7 DEF P!Enqueue, P!Load
<1>8. CASE P!Build \/ P!EraseLook \/ P!EraseRewrite \/ P!ReadPolicy \/ P!NextDay \/ UNCHANGED P!vars
  BY <1>1, <1>8 DEF P!Build, P!EraseLook, P!EraseRewrite, P!ReadPolicy, P!NextDay, P!vars
<1>9. ASSUME NEW n, P!SetPolicy(n) PROVE FALSE
  BY <1>1, <1>9 DEF P!SetPolicy
<1> QED
  BY <1>3, <1>4, <1>5, <1>6, <1>7, <1>8, <1>9 DEF P!Next

LEMMA ProtectionHolds == ProtectionInvariant => P!ErasedStaysErased /\ P!KeptNoLonger
BY DEF ProtectionInvariant

--------------------------------------------------------------------------------
(* Slabs of a state: what is owed by them.                                 *)

\* The inductive invariant: `rows` are slabs, and `listed` is a list.
SlabsInvariant == p2 \subseteq L!Row /\ p3 \in L!Lists

LEMMA SlabsStart == L!Init => SlabsInvariant
BY DEF L!Init, SlabsInvariant

LEMMA SlabsStep == SlabsInvariant /\ [L!Next]_L!vars => SlabsInvariant'
<1> SUFFICES ASSUME SlabsInvariant, [L!Next]_L!vars PROVE SlabsInvariant'
  OBVIOUS
<1>1. SlabDefaults \subseteq L!Row
  BY AfterwardsAssumption DEF AfterwardsAssumption, L!SlabAssumption
<1>0. ASSUME p2' \subseteq L!Row, p3' \in L!Lists PROVE SlabsInvariant'
  BY <1>0 DEF SlabsInvariant, L!Lists
<1>2. ASSUME NEW s \in SUBSET SlabDrafts, L!Save(s) PROVE SlabsInvariant'
  <2>1. s \subseteq L!Draft /\ IsFiniteSet(s)
    <3>1. SlabDrafts \subseteq L!Draft /\ IsFiniteSet(SlabDrafts)
      BY AfterwardsAssumption DEF AfterwardsAssumption, L!SlabAssumption, L!IsFiniteSet, IsFiniteSet
    <3> QED
      BY <3>1, FS_Subset
  <2>2. ASSUME NEW r \in s PROVE L!Placed(r, Cardinality({q \in s : L!Before(q, r)})) \in L!Row
    <3>1. Cardinality({q \in s : L!Before(q, r)}) \in Nat
      <4>1. {q \in s : L!Before(q, r)} \in SUBSET s
        OBVIOUS
      <4> QED
        BY <2>1, <4>1, FS_Subset, FS_CardinalityType
    <3>2. PICK n : n = Cardinality({q \in s : L!Before(q, r)})
      OBVIOUS
    <3>3. L!Placed(r, n) \in L!Row
      BY <2>1, <3>1, <3>2 DEF L!Draft, L!Row, L!Placed
    <3> QED
      BY <3>2, <3>3
  <2>3. p2' = {L!Placed(r, Cardinality({q \in s : L!Before(q, r)})) : r \in s}
    BY <1>2 DEF L!Save, L!Cardinality, Cardinality
  <2>4. p3' \in L!Lists
    BY <1>2 DEF L!Save, SlabsInvariant
  <2> QED
    BY <1>0, <2>2, <2>3, <2>4
<1>3. ASSUME NEW overwrite \in BOOLEAN, L!ImportDefaults(overwrite) PROVE SlabsInvariant'
  BY <1>0, <1>1, <1>3 DEF L!ImportDefaults, SlabsInvariant
<1>4. CASE L!ImportAllDefaults
  BY <1>0, <1>1, <1>4 DEF L!ImportAllDefaults, SlabsInvariant
<1>5. ASSUME NEW s \in L!Lists, L!SetStates(s) PROVE SlabsInvariant'
  BY <1>0, <1>5 DEF L!SetStates, SlabsInvariant
<1>6. CASE UNCHANGED L!vars
  BY <1>0, <1>6 DEF L!vars, SlabsInvariant
<1> QED
  BY <1>2, <1>3, <1>4, <1>5, <1>6 DEF L!Next

LEMMA WholeShares ==
  ASSUME NEW amount \in Nat, NEW per \in Nat \ {0}
  PROVE  L!PerMonth(amount, per) \in Nat
<1>1. \A a \in Nat, n \in Nat \ {0} : a \div n \in Nat
  OBVIOUS
<1>2. 2 * amount + per \in Nat /\ 2 * per \in Nat \ {0}
  OBVIOUS
<1> QED
  BY <1>1, <1>2 DEF L!PerMonth

\* Nothing is owed that is below zero.
LEMMA AmountsAreWhole ==
  ASSUME SlabsInvariant, NEW day, NEW month, NEW wage, NEW g
  PROVE  L!Amounts(day, month, wage, g) \subseteq Nat
<1>1. \A r \in L!Row : r.amount \in Nat /\ L!PerMonth(r.amount, r.per) \in Nat
  BY WholeShares DEF L!Row
<1>2. L!SeedAmounts(day, wage) \subseteq Nat
  <2>1. \A s \in SlabSeeds : s.amount \in Nat
    BY <1>1, AfterwardsAssumption DEF AfterwardsAssumption, L!SlabAssumption
  <2> QED
    BY <2>1 DEF L!SeedAmounts, L!First
<1>3. L!PtAmounts(day, month, wage, g) \subseteq Nat
  BY <1>1, <1>2 DEF L!PtAmounts, L!First, L!Cohort, SlabsInvariant
<1>4. L!LwfAmounts(day, month, wage) \subseteq Nat
  BY <1>1, <1>2 DEF L!LwfAmounts, L!First, L!Cohort, SlabsInvariant
<1> QED
  BY <1>3, <1>4 DEF L!Amounts

\* Of a deduction where something is due, or where nothing is, one of the checks speaks.
LEMMA SlabsExamine == SlabsInvariant => L!DeductionsAreExamined
<1> SUFFICES ASSUME SlabsInvariant, L!Configured # {},
                    NEW m \in SlabMonths, NEW where \in {"here", "there", "nowhere", "none"},
                    NEW wage \in SlabWages, NEW g \in L!Genders,
                    NEW due \in L!Expected(m, where, wage, g),
                    NEW deducted \in {SlabTolerance + 1, 2 * SlabTolerance + 2},
                    ~ L!StateFinding(where, deducted), ~ L!RateFinding(m, where)
             PROVE  (due > 0 /\ ~ L!Off(deducted, due)) \/ L!Mismatch(m, where, due, deducted)
  BY DEF L!DeductionsAreExamined
<1>1. SlabTolerance \in Nat /\ deducted > SlabTolerance /\ deducted > 0
  BY AfterwardsAssumption DEF AfterwardsAssumption, L!SlabAssumption
<1>2. due \in Nat
  BY AmountsAreWhole DEF L!Expected, L!Asked
<1>3. CASE due > 0
  BY <1>3 DEF L!Mismatch
<1>4. CASE due = 0
  <2>1. L!Selected(where) # {}
    BY <1>1 DEF L!StateFinding
  <2> QED
    BY <1>1, <1>4, <2>1 DEF L!Mismatch
<1> QED
  BY <1>2, <1>3, <1>4

\* Where the state is plainly set, cost and validation take the same one.
LEMMA OneState ==
  ASSUME SlabsInvariant, NEW where \in {"here", "there", "nowhere", "none"}, L!PlainlySet(where)
  PROVE  L!CostState(where) = L!Selected(where)
<1>1. CASE where # "none"
  BY <1>1 DEF L!PlainlySet, L!CostState, L!Selected
<1>2. CASE where = "none" /\ L!Configured = {}
  <2>1. L!Listed = {}
    BY <1>2 DEF L!Configured
  <2>2. p3 = <<>>
    BY <2>1 DEF SlabsInvariant, L!Lists, L!Listed
  <2> QED
    BY <1>2, <2>1, <2>2 DEF L!CostState, L!Selected, L!OnlyOne
<1>3. CASE where = "none" /\ Len(p3) = 1
  <2>1. L!Listed = {Head(p3)} /\ p3 # <<>>
    BY <1>3 DEF SlabsInvariant, L!Lists, L!Listed
  <2>2. L!OnlyOne(L!Listed) = {Head(p3)}
    BY <2>1, FS_Singleton DEF L!OnlyOne, L!Cardinality, Cardinality
  <2> QED
    BY <1>3, <2>1, <2>2 DEF L!CostState, L!Selected
<1> QED
  BY <1>1, <1>2, <1>3 DEF L!PlainlySet

\* One schedule on the first day and the last, of slabs for whoever, gives one amount.
LEMMA SlabsCost == SlabsInvariant => L!CostIsWhatIsAsked
<1> SUFFICES ASSUME SlabsInvariant, NEW m \in SlabMonths, NEW where \in {"here", "there", "nowhere", "none"},
                    NEW wage \in SlabWages, NEW g \in L!Genders, L!PlainlySet(where),
                    L!Cohort(L!FirstDay(m)) = L!Cohort(L!LastDay(m)),
                    \A r \in p2 : r.gender = "ALL",
                    p2 = {} => \A s \in SlabSeeds : L!InForce(s, L!FirstDay(m)) <=> L!InForce(s, L!LastDay(m))
             PROVE  L!Costed(m, where, wage) = L!Expected(m, where, wage, g)
  BY DEF L!CostIsWhatIsAsked
<1> DEFINE first == L!FirstDay(m)
           last == L!LastDay(m)
<1>1. L!Cohort(last) \subseteq p2
  BY DEF L!Cohort
<1>2. p2 = {} => L!SeedAmounts(first, wage) = L!SeedAmounts(last, wage)
  <2> SUFFICES ASSUME p2 = {} PROVE L!SeedAmounts(first, wage) = L!SeedAmounts(last, wage)
    OBVIOUS
  <2>1. {s \in SlabSeeds : L!InForce(s, first) /\ s.lo <= wage /\ wage <= s.hi}
          = {s \in SlabSeeds : L!InForce(s, last) /\ s.lo <= wage /\ wage <= s.hi}
    OBVIOUS
  <2> QED
    BY <2>1 DEF L!SeedAmounts
<1>3. L!LwfAmounts(first, m, wage) = L!LwfAmounts(last, m, wage)
  BY <1>2 DEF L!LwfAmounts
<1>4. L!PtAmounts(first, m, wage, "ALL") = L!PtAmounts(last, m, wage, g)
  <2> DEFINE Fits(day, h) == {r \in L!Cohort(day) : /\ L!Reaches(r, wage) /\ r.gender \in L!MatchGenders(h)
                                                    /\ r.months = {} \/ m \in r.months}
             Best(s, h) == {r \in s : \A q \in s : L!Score(q, h) <= L!Score(r, h)}
  <2>1. Fits(first, "ALL") = Fits(last, g)
    BY <1>1 DEF L!MatchGenders
  <2>2. \A r \in Fits(last, g) : L!Score(r, "ALL") = L!Score(r, g)
    BY <1>1 DEF L!Score
  <2>3. Best(Fits(last, g), "ALL") = Best(Fits(last, g), g)
    <3> HIDE DEF Fits
    <3> QED
      BY <2>2
  <2>4. L!PtAmounts(first, m, wage, "ALL") =
          IF p2 = {} THEN L!SeedAmounts(first, wage)
          ELSE IF Fits(first, "ALL") = {} THEN {0}
          ELSE {L!PerMonth(r.amount, r.per) : r \in L!First(Best(Fits(first, "ALL"), "ALL"))}
    BY DEF L!PtAmounts
  <2>5. L!PtAmounts(last, m, wage, g) =
          IF p2 = {} THEN L!SeedAmounts(last, wage)
          ELSE IF Fits(last, g) = {} THEN {0}
          ELSE {L!PerMonth(r.amount, r.per) : r \in L!First(Best(Fits(last, g), g))}
    BY DEF L!PtAmounts
  <2> HIDE DEF Fits, Best
  <2> QED
    BY <1>2, <2>1, <2>3, <2>4, <2>5
<1>5. L!Amounts(first, m, wage, "ALL") = L!Asked(m, wage, g)
  BY <1>3, <1>4 DEF L!Asked, L!Amounts
<1> QED
  BY <1>5, OneState DEF L!Costed, L!Expected

\* A slab is known by what it says, wherever it is placed.
LEMMA ContentSays ==
  ASSUME NEW r \in L!Row
  PROVE  /\ DOMAIN L!Content(r) = DOMAIN r
         /\ \A f \in {"lo", "hi", "amount", "per", "gender", "months", "from", "to"} : L!Content(r)[f] = r[f]
BY DEF L!Row, L!Content

\* What two places say of a month, of slabs that say the same in the same order, is the same.
LEMMA SameSaysSame ==
  ASSUME NEW old, NEW new, old \subseteq L!Row, new \subseteq L!Row, L!Contents(old) = L!Contents(new),
         \A r, q \in old, s, t \in new :
           L!Content(r) = L!Content(s) /\ L!Content(q) = L!Content(t) => (L!GoesBefore(r, q) <=> L!GoesBefore(s, t))
  PROVE  L!Contents(L!First(old)) = L!Contents(L!First(new))
<1>1. /\ \A r \in old : \E s \in new : L!Content(s) = L!Content(r)
      /\ \A s \in new : \E r \in old : L!Content(r) = L!Content(s)
  BY DEF L!Contents
<1>2. ASSUME NEW r \in old, NEW s \in new, L!Content(r) = L!Content(s)
      PROVE  r \in L!First(old) <=> s \in L!First(new)
  BY <1>1, <1>2 DEF L!First
<1>3. L!First(old) \subseteq old /\ L!First(new) \subseteq new
  BY DEF L!First
<1>4. ASSUME NEW c \in L!Contents(L!First(old)) PROVE c \in L!Contents(L!First(new))
  <2>1. PICK r \in L!First(old) : c = L!Content(r)
    BY <1>4 DEF L!Contents
  <2>2. PICK s \in new : L!Content(s) = L!Content(r)
    BY <1>1, <1>3
  <2> QED
    BY <1>2, <1>3, <2>1, <2>2 DEF L!Contents
<1>5. ASSUME NEW c \in L!Contents(L!First(new)) PROVE c \in L!Contents(L!First(old))
  <2>1. PICK s \in L!First(new) : c = L!Content(s)
    BY <1>5 DEF L!Contents
  <2>2. PICK r \in old : L!Content(r) = L!Content(s)
    BY <1>1, <1>3
  <2> QED
    BY <1>2, <1>3, <2>1, <2>2 DEF L!Contents
<1> QED
  BY <1>4, <1>5

\* Where the slabs of a month's schedule say what they said, and in their order, so does the month.
LEMMA SlabsKeepOldMonths == SlabsInvariant /\ [L!Next]_L!vars => L!OldMonthsKeepTheirDues
<1> SUFFICES ASSUME SlabsInvariant, [L!Next]_L!vars, L!OrderStays, NEW m \in SlabMonths,
                    \A c \in (L!Contents(p2) \cup L!Contents(p2')) \ (L!Contents(p2) \cap L!Contents(p2')) :
                      c.from > L!LastDay(m),
                    ~ (p2 = {} /\ L!Gap(m)'), ~ (p2' = {} /\ L!Gap(m)),
                    NEW wage \in SlabWages, NEW g \in L!Genders
             PROVE  L!Asked(m, wage, g)' = L!Asked(m, wage, g)
  BY DEF L!OldMonthsKeepTheirDues
<1>1. p2 \subseteq L!Row /\ p2' \subseteq L!Row
  BY SlabsStep DEF SlabsInvariant
<1>2. p1' = p1
  BY DEF L!Next, L!Save, L!ImportDefaults, L!ImportAllDefaults, L!SetStates, L!vars
<1>3. m \in Nat \ {0} /\ L!FirstDay(m) \in Nat /\ L!LastDay(m) \in Nat \ {0} /\ L!FirstDay(m) <= L!LastDay(m)
  BY AfterwardsAssumption DEF AfterwardsAssumption, L!SlabAssumption, L!FirstDay, L!LastDay
<1> DEFINE last == L!LastDay(m)
           Latest(s) == {r \in s : L!InForce(r, last) /\ \A q \in s : L!InForce(q, last) => q.from <= r.from}
<1>4. \A r \in L!Row : r.from \in Nat /\ (L!InForce(r, last) => ~ (r.from > last)) /\ L!Content(r).from = r.from
  BY <1>3, ContentSays DEF L!InForce, L!None, L!Row
\* A slab in force on the last day is there before and after.
<1>5. /\ \A r \in p2 : L!InForce(r, last) => \E s \in p2' : L!Content(s) = L!Content(r)
      /\ \A s \in p2' : L!InForce(s, last) => \E r \in p2 : L!Content(r) = L!Content(s)
  <2>1. ASSUME NEW r \in p2, L!InForce(r, last) PROVE L!Content(r) \in L!Contents(p2')
    <3>1. L!Content(r) \in L!Contents(p2) /\ ~ (L!Content(r).from > last)
      BY <1>1, <1>4, <2>1 DEF L!Contents
    <3> QED
      BY <3>1
  <2>2. ASSUME NEW s \in p2', L!InForce(s, last) PROVE L!Content(s) \in L!Contents(p2)
    <3>1. L!Content(s) \in L!Contents(p2') /\ ~ (L!Content(s).from > last)
      BY <1>1, <1>4, <2>2 DEF L!Contents
    <3> QED
      BY <3>1
  <2> QED
    BY <2>1, <2>2 DEF L!Contents
\* Slabs that say the same are in force alike, reach alike, count alike.
<1>6. ASSUME NEW r \in L!Row, NEW s \in L!Row, L!Content(r) = L!Content(s)
      PROVE  /\ r.lo = s.lo /\ r.hi = s.hi /\ r.amount = s.amount /\ r.per = s.per /\ r.gender = s.gender
             /\ r.months = s.months /\ r.from = s.from /\ r.to = s.to
  <2>1. \A f \in {"lo", "hi", "amount", "per", "gender", "months", "from", "to"} : r[f] = s[f]
    BY <1>6, ContentSays
  <2> QED
    BY <2>1
<1>7. ASSUME NEW r \in L!Row, NEW s \in L!Row, L!Content(r) = L!Content(s)
      PROVE  /\ L!InForce(r, last) <=> L!InForce(s, last)
             /\ L!Reaches(r, wage) <=> L!Reaches(s, wage)
             /\ L!Score(r, g) = L!Score(s, g)
             /\ L!DueIn(r) = L!DueIn(s)
  BY <1>6, <1>7 DEF L!InForce, L!Reaches, L!Score, L!DueIn
\* One holds of the schedule before if and only if of the schedule after.
<1>8. /\ \A r \in Latest(p2) : \E s \in Latest(p2') : L!Content(s) = L!Content(r)
      /\ \A s \in Latest(p2') : \E r \in Latest(p2) : L!Content(r) = L!Content(s)
  <2>1. ASSUME NEW r \in Latest(p2), NEW s \in p2', L!Content(s) = L!Content(r) PROVE s \in Latest(p2')
    <3>1. L!InForce(s, last) /\ s.from = r.from
      BY <1>1, <1>6, <1>7, <2>1
    <3>2. ASSUME NEW q \in p2', L!InForce(q, last) PROVE q.from <= s.from
      <4>1. PICK o \in p2 : L!Content(o) = L!Content(q)
        BY <1>5, <3>2
      <4>2. L!InForce(o, last) /\ o.from = q.from
        BY <1>1, <1>6, <1>7, <3>2, <4>1
      <4> QED
        BY <3>1, <4>1, <4>2
    <3> QED
      BY <3>1, <3>2
  <2>2. ASSUME NEW s \in Latest(p2'), NEW r \in p2, L!Content(r) = L!Content(s) PROVE r \in Latest(p2)
    <3>1. L!InForce(r, last) /\ r.from = s.from
      BY <1>1, <1>6, <1>7, <2>2
    <3>2. ASSUME NEW q \in p2, L!InForce(q, last) PROVE q.from <= r.from
      <4>1. PICK o \in p2' : L!Content(o) = L!Content(q)
        BY <1>5, <3>2
      <4>2. L!InForce(o, last) /\ o.from = q.from
        BY <1>1, <1>6, <1>7, <3>2, <4>1
      <4> QED
        BY <3>1, <4>1, <4>2
    <3> QED
      BY <3>1, <3>2
  <2> QED
    BY <1>5, <2>1, <2>2
<1> DEFINE LwfFits(s) == {r \in s : L!Reaches(r, wage)}
           PtFits(s) == {r \in s : /\ L!Reaches(r, wage) /\ r.gender \in L!MatchGenders(g)
                                   /\ r.months = {} \/ m \in r.months}
           Best(s) == {r \in s : \A q \in s : L!Score(q, g) <= L!Score(r, g)}
           Due(r) == IF L!DueIn(r) = {} THEN L!PerMonth(r.amount, r.per)
                     ELSE IF m \in L!DueIn(r) THEN r.amount ELSE 0
           Same(o, n) == /\ o \subseteq p2 /\ n \subseteq p2'
                         /\ \A r \in o : \E s \in n : L!Content(s) = L!Content(r)
                         /\ \A s \in n : \E r \in o : L!Content(r) = L!Content(s)
<1>9. Same(Latest(p2), Latest(p2'))
  BY <1>8
<1>10. ASSUME NEW o, NEW n, Same(o, n)
       PROVE  (o = {} <=> n = {}) /\ L!Contents(L!First(o)) = L!Contents(L!First(n))
  <2>1. o \subseteq L!Row /\ n \subseteq L!Row /\ L!Contents(o) = L!Contents(n)
    BY <1>1, <1>10 DEF L!Contents
  <2>2. \A r, q \in o, s, t \in n :
          L!Content(r) = L!Content(s) /\ L!Content(q) = L!Content(t) => (L!GoesBefore(r, q) <=> L!GoesBefore(s, t))
    BY <1>10 DEF L!OrderStays
  <2> QED
    BY <1>10, <2>1, <2>2, SameSaysSame
<1>11. ASSUME NEW o, NEW n, Same(o, n)
       PROVE  Same(LwfFits(o), LwfFits(n)) /\ Same(PtFits(o), PtFits(n)) /\ Same(Best(o), Best(n))
  <2>1. ASSUME NEW r \in o, NEW s \in n, L!Content(r) = L!Content(s)
        PROVE  /\ r \in LwfFits(o) <=> s \in LwfFits(n)
               /\ r \in PtFits(o) <=> s \in PtFits(n)
    BY <1>1, <1>6, <1>7, <1>11, <2>1
  <2>2. ASSUME NEW r \in o, NEW s \in n, L!Content(r) = L!Content(s)
        PROVE  r \in Best(o) <=> s \in Best(n)
    <3>1. /\ \A q \in o : \E t \in n : L!Score(t, g) = L!Score(q, g)
          /\ \A t \in n : \E q \in o : L!Score(q, g) = L!Score(t, g)
          /\ L!Score(r, g) = L!Score(s, g)
      BY <1>1, <1>7, <1>11, <2>2
    <3> QED
      BY <3>1
  <2> HIDE DEF LwfFits, PtFits, Best
  <2>3. /\ LwfFits(o) \subseteq o /\ LwfFits(n) \subseteq n
        /\ PtFits(o) \subseteq o /\ PtFits(n) \subseteq n
        /\ Best(o) \subseteq o /\ Best(n) \subseteq n
    BY DEF LwfFits, PtFits, Best
  <2>4. Same(LwfFits(o), LwfFits(n)) /\ Same(PtFits(o), PtFits(n))
    BY <1>11, <2>1, <2>3
  <2>5. Same(Best(o), Best(n))
    BY <1>11, <2>2, <2>3
  <2> QED
    BY <2>4, <2>5
<1>12. ASSUME NEW o, NEW n, Same(o, n)
       PROVE  /\ {Due(r) : r \in L!First(o)} = {Due(r) : r \in L!First(n)}
              /\ {L!PerMonth(r.amount, r.per) : r \in L!First(o)} = {L!PerMonth(r.amount, r.per) : r \in L!First(n)}
  <2>1. L!First(o) \subseteq L!Row /\ L!First(n) \subseteq L!Row
    BY <1>1, <1>12 DEF L!First
  <2>2. L!Contents(L!First(o)) = L!Contents(L!First(n))
    BY <1>10, <1>12
  <2>3. \A r, s \in L!Row : L!Content(r) = L!Content(s) =>
          Due(r) = Due(s) /\ L!PerMonth(r.amount, r.per) = L!PerMonth(s.amount, s.per)
    BY <1>6, <1>7
  <2>4. /\ \A r \in L!First(o) : \E s \in L!First(n) : L!Content(r) = L!Content(s)
        /\ \A s \in L!First(n) : \E r \in L!First(o) : L!Content(r) = L!Content(s)
    BY <2>2 DEF L!Contents
  <2> HIDE DEF Due
  <2> QED
    BY <2>1, <2>3, <2>4
\* A company that has no slabs, or none any more, owes by the reference or is in a finding.
<1>13. p2 = {} <=> p2' = {}
  <2>1. \A r \in L!Row : r.from > last => ~ L!InForce(r, L!FirstDay(m))
    BY <1>3 DEF L!InForce, L!None, L!Row
  <2>2. ASSUME p2 = {}, p2' # {} PROVE FALSE
    <3>1. \A s \in p2' : s.from > last
      BY <1>1, <1>4, <2>2 DEF L!Contents
    <3>2. L!Cohort(L!FirstDay(m))' = {}
      BY <1>1, <2>1, <3>1 DEF L!Cohort
    <3> QED
      BY <2>2, <3>2 DEF L!Gap
  <2>3. ASSUME p2' = {}, p2 # {} PROVE FALSE
    <3>1. \A r \in p2 : r.from > last
      BY <1>1, <1>4, <2>3 DEF L!Contents
    <3>2. L!Cohort(L!FirstDay(m)) = {}
      BY <1>1, <2>1, <3>1 DEF L!Cohort
    <3> QED
      BY <2>3, <3>2 DEF L!Gap
  <2> QED
    BY <2>2, <2>3
<1>14. L!LwfAmounts(last, m, wage)' = L!LwfAmounts(last, m, wage)
  <2>1. L!LwfAmounts(last, m, wage) =
          IF wage = 0 THEN {0} ELSE IF p2 = {} THEN L!SeedAmounts(last, wage)
          ELSE IF LwfFits(Latest(p2)) = {} THEN {0} ELSE {Due(r) : r \in L!First(LwfFits(Latest(p2)))}
    BY DEF L!LwfAmounts, L!Cohort
  <2>2. L!LwfAmounts(last, m, wage)' =
          IF wage = 0 THEN {0} ELSE IF p2' = {} THEN L!SeedAmounts(last, wage)
          ELSE IF LwfFits(Latest(p2')) = {} THEN {0} ELSE {Due(r) : r \in L!First(LwfFits(Latest(p2')))}
    BY DEF L!LwfAmounts, L!Cohort
  <2> HIDE DEF LwfFits, PtFits, Best, Latest, Due, Same
  <2>3. Same(LwfFits(Latest(p2)), LwfFits(Latest(p2')))
    BY <1>9, <1>11
  <2>4. LwfFits(Latest(p2)) = {} <=> LwfFits(Latest(p2')) = {}
    BY <1>10, <2>3
  <2>5. {Due(r) : r \in L!First(LwfFits(Latest(p2)))} = {Due(r) : r \in L!First(LwfFits(Latest(p2')))}
    BY <1>12, <2>3
  <2> QED
    BY <1>13, <2>1, <2>2, <2>4, <2>5
<1>15. L!PtAmounts(last, m, wage, g)' = L!PtAmounts(last, m, wage, g)
  <2>1. L!PtAmounts(last, m, wage, g) =
          IF p2 = {} THEN L!SeedAmounts(last, wage)
          ELSE IF PtFits(Latest(p2)) = {} THEN {0}
          ELSE {L!PerMonth(r.amount, r.per) : r \in L!First(Best(PtFits(Latest(p2))))}
    BY DEF L!PtAmounts, L!Cohort
  <2>2. L!PtAmounts(last, m, wage, g)' =
          IF p2' = {} THEN L!SeedAmounts(last, wage)
          ELSE IF PtFits(Latest(p2')) = {} THEN {0}
          ELSE {L!PerMonth(r.amount, r.per) : r \in L!First(Best(PtFits(Latest(p2'))))}
    BY DEF L!PtAmounts, L!Cohort
  <2> HIDE DEF LwfFits, PtFits, Best, Latest, Due, Same
  <2>3. Same(PtFits(Latest(p2)), PtFits(Latest(p2')))
    BY <1>9, <1>11
  <2>4. PtFits(Latest(p2)) = {} <=> PtFits(Latest(p2')) = {}
    BY <1>10, <2>3
  <2>5. {L!PerMonth(r.amount, r.per) : r \in L!First(Best(PtFits(Latest(p2))))}
          = {L!PerMonth(r.amount, r.per) : r \in L!First(Best(PtFits(Latest(p2'))))}
    <3>1. Same(Best(PtFits(Latest(p2))), Best(PtFits(Latest(p2'))))
      BY <1>11, <2>3
    <3> QED
      BY <1>12, <3>1
  <2> QED
    BY <1>13, <2>1, <2>2, <2>4, <2>5
<1> QED
  BY <1>2, <1>14, <1>15 DEF L!Asked, L!Amounts

--------------------------------------------------------------------------------
(* The parts together: a behaviour is one part's, and the others' places   *)
(* stand still.                                                            *)

AfterwardsInvariant ==
  /\ part = "findings" => FindingsInvariant
  /\ part = "books" => BooksInvariant
  /\ part = "protection" => ProtectionInvariant
  /\ part = "slabs" => SlabsInvariant

LEMMA PartsStep ==
  ASSUME [AfterwardsNext]_allVars
  PROVE  /\ part' = part
         /\ part = "findings" => [F!Next]_F!vars
         /\ part = "books" => [B!Next]_B!vars
         /\ part = "protection" => [P!Next]_P!vars
         /\ part = "slabs" => [L!Next]_L!vars
<1>1. part' = part
  BY DEF AfterwardsNext, allVars
<1>2. part = "findings" => [F!Next]_F!vars
  BY DEF AfterwardsNext, allVars, places, F!vars
<1>3. part = "books" => [B!Next]_B!vars
  BY DEF AfterwardsNext, allVars, places, B!vars
<1>4. part = "protection" => [P!Next]_P!vars
  BY DEF AfterwardsNext, allVars, places, P!vars, P!work, P!keeping
<1>5. part = "slabs" => [L!Next]_L!vars
  BY DEF AfterwardsNext, allVars, places, L!vars
<1> QED
  BY <1>1, <1>2, <1>3, <1>4, <1>5

\* Each part's invariant is kept by its steps, and no other part is the one of a behaviour.
LEMMA PartsHold == AfterwardsSpec => []AfterwardsInvariant
<1>1. AfterwardsInit => AfterwardsInvariant
  BY FindingsStart, BooksStart, ProtectionStart, SlabsStart DEF AfterwardsInit, AfterwardsInvariant
<1>2. AfterwardsInvariant /\ [AfterwardsNext]_allVars => AfterwardsInvariant'
  BY PartsStep, FindingsStep, BooksStep, ProtectionStep, SlabsStep DEF AfterwardsInvariant
<1> QED
  BY <1>1, <1>2, PTL DEF AfterwardsSpec

\* A finding's row knows the newest month it was reported in and counts at least every
\* month, in whatever order months are validated and validated again
\* (models/findings.py:258-262).
THEOREM FindingsAreCounted == AfterwardsSpec => []NothingGoesUncounted
<1>1. AfterwardsInvariant => NothingGoesUncounted
  BY FindingsCount DEF AfterwardsInvariant, NothingGoesUncounted
<1> QED
  BY <1>1, PartsHold, PTL

\* Waived is what the audit trail says last and always ends, and what a run reports as
\* waived was waived, by a waiver in force on the day the run read it
\* (finding_store.py:396-397, issues.py:8-11).
THEOREM WaiversHold == AfterwardsSpec => WaivedIsOnRecord
<1>1. AfterwardsInvariant => (part = "findings" => F!WaivedIsOnRecord)
  BY FindingsAreOnRecord DEF AfterwardsInvariant
<1>2. AfterwardsInvariant /\ [AfterwardsNext]_allVars => [part = "findings" => F!ReportsWaivedInForce]_allVars
  BY PartsStep, FindingsReport DEF AfterwardsInvariant
<1> QED
  BY <1>1, <1>2, PartsHold, PTL DEF AfterwardsSpec, WaivedIsOnRecord

\* A run resolves a finding only when no month that is not older than its own still
\* reports it, so a back-fill takes nothing off the worklist (finding_store.py:373-377).
THEOREM RunsResolveRightly == AfterwardsSpec => RunsResolveOnlyWhatStopped
<1>1. AfterwardsInvariant /\ [AfterwardsNext]_allVars => [part = "findings" => F!ResolvesOnlyWhatStopped]_allVars
  BY PartsStep, FindingsResolve DEF AfterwardsInvariant
<1> QED
  BY <1>1, PartsHold, PTL DEF AfterwardsSpec, RunsResolveOnlyWhatStopped

\* However many requests work a costing out at once, what one is shown is of no earlier
\* than its own beginning (models/derived_cache.py:18).
THEOREM CostingsAreOfTheirTime == AfterwardsSpec => []BooksAreOfTheirTime
<1>1. AfterwardsInvariant => BooksAreOfTheirTime
  BY BooksHold DEF AfterwardsInvariant, BooksAreOfTheirTime
<1> QED
  BY <1>1, PartsHold, PTL

\* After an erasure nothing names the person but what it listed and where the name came
\* in after it had looked; a pass leaves nothing older than its period, but what was
\* written since, and takes no month that its period keeps (data_protection.py:496,
\* models/data_protection.py:38).
THEOREM DataIsKept == AfterwardsSpec => DataIsKeptAsAgreed
<1>1. AfterwardsInvariant => (part = "protection" => P!ErasedStaysErased /\ P!KeptNoLonger)
  BY ProtectionHolds DEF AfterwardsInvariant
<1>2. AfterwardsInvariant /\ [AfterwardsNext]_allVars => [part = "protection" => P!KeptAsLong]_allVars
  BY PartsStep, ProtectionKeeps DEF AfterwardsInvariant
<1> QED
  BY <1>1, <1>2, PartsHold, PTL DEF AfterwardsSpec, DataIsKeptAsAgreed

\* No deduction goes unexamined where a scheme is run, a month's cost is what its validation asks
\* for, and slabs that come in force after a month leave it alone (validation.py:986, validation.py:940,
\* cost_model.py:378).
THEOREM DuesFollow == AfterwardsSpec => DuesFollowTheirSchedule
<1>1. AfterwardsInvariant => (part = "slabs" => L!DeductionsAreExamined /\ L!CostIsWhatIsAsked)
  BY SlabsExamine, SlabsCost DEF AfterwardsInvariant
<1>2. AfterwardsInvariant /\ [AfterwardsNext]_allVars => [part = "slabs" => L!OldMonthsKeepTheirDues]_allVars
  BY PartsStep, SlabsKeepOldMonths DEF AfterwardsInvariant
<1> QED
  BY <1>1, <1>2, PartsHold, PTL DEF AfterwardsSpec, DuesFollowTheirSchedule

\* A behaviour of this composition is one of the digests, which then stand still unless
\* they are its part: what is said of them above is said of it.
THEOREM DigestsAreAPart ==
  ASSUME "endpoint" \notin Purposes
  PROVE  AfterwardsSpec => [](DigestsAreOfTheirTime /\ NeverCallsAStaleRunCurrent)
<1>1. AfterwardsInit => Init
  BY DEF AfterwardsInit
<1>2. [AfterwardsNext]_allVars => [Next]_vars
  BY DEF AfterwardsNext, allVars, digests, vars
<1>3. AfterwardsSpec => Spec
  BY <1>1, <1>2, PTL DEF AfterwardsSpec, Spec
<1> QED
  BY <1>3, DigestsInTime, NeverStale, PTL
================================================================================

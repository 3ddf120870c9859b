---------------------------- MODULE ServicesProofs ----------------------------
(***************************************************************************)
(* Theorems about the components of MCServices, for any requests, workers, *)
(* flows, calls, keys, edits, years, bounds and numbers of attempts: each  *)
(* has an inductive invariant of its own, and they stand side by side at   *)
(* the end.                                                                *)
(*                                                                         *)
(*   requests    work under an idempotency key is counted, and whoever is  *)
(*               at it holds the row                                       *)
(*   deliveries  what is heard is counted, but for what died on its way    *)
(*   rules       published rules of two keys that share a month agree      *)
(*   releases    what a release found in force is what was there before    *)
(*   reports     a worker that is to write a file has the claim            *)
(*   automation  a run is as deep as its chain is long, and a fire is on   *)
(*               record, or flushed by one transaction                     *)
(*   versions    no two published versions start in one month              *)
(*   base        what a request is to write differs from what it read as   *)
(*               it says it does                                           *)
(***************************************************************************)
EXTENDS MCServices, FiniteSetTheorems, TLAPS

--------------------------------------------------------------------------------
(* Requests: work under a key takes effect once.                           *)

Rows == [id : Nat, body : Bodies \cup {None}, stored : Requests \cup {None}, expired : BOOLEAN]

Handling ==
  [pc : {"unsent", "looked", "working", "worked", "answered", "refused", "lost"},
   body : Bodies \cup {None}, seen : Rows, id : Nat, answer : Requests \cup {None}]

Typed ==
  /\ record \in Rows
  /\ rq \in [Requests -> Handling]
  /\ made \in Nat
  /\ today \in [effects : Nat, late : Nat]

Active(r) == rq[r].pc \in {"working", "worked"}

\* The reservations are numbered: whoever is at work has one of its own, and the row in
\* the table is the last of them or none.
NumbersAreOwn ==
  /\ record.id <= made
  /\ \A r \in Requests :
       /\ rq[r].id <= made /\ rq[r].seen.id <= made
       /\ \A s \in Requests : rq[r].id = rq[s].id /\ rq[r].id # NoRow => r = s

\* Whoever is at work holds the row that is in the table.
HoldersHaveTheRow ==
  \A r \in Requests : Active(r) =>
    /\ rq[r].id # NoRow /\ record.id = rq[r].id /\ record.body = rq[r].body
    /\ ~record.expired /\ record.stored = None

\* A row read as expired is expired or gone.
ExpiryIsFinal ==
  /\ record.expired => record.id # NoRow
  /\ \A r \in Requests :
       rq[r].pc = "looked" /\ rq[r].seen.expired =>
         rq[r].seen.id # NoRow /\ (rq[r].seen.id = record.id => record.expired)

\* A stored answer belongs to a request that asked for what the row says.
AnswersFit(row) == row.stored # None => rq[row.stored].pc # "unsent" /\ rq[row.stored].body = row.body

StoredFits ==
  /\ AnswersFit(record)
  /\ \A r \in Requests : /\ AnswersFit(rq[r].seen)
                         /\ rq[r].pc = "answered" =>
                              rq[r].answer \in Requests /\ rq[rq[r].answer].pc # "unsent"

\* What has been done under the key: nothing that is not accounted for while nobody has
\* it or its holder has yet to work, and one thing otherwise.
WorkIsCounted ==
  /\ today.effects <= 1 + today.late
  /\ record.id = NoRow \/ record.expired => today.effects <= today.late
  /\ \A r \in Requests : rq[r].pc = "working" => today.effects <= today.late

\* The inductive invariant.
KeyInvariant ==
  Typed /\ NumbersAreOwn /\ HoldersHaveTheRow /\ ExpiryIsFinal /\ StoredFits /\ WorkIsCounted
    /\ AtMostOncePerKey

--------------------------------------------------------------------------------
\* Request r goes on from where it is: what it asked for and what it saw stay.
RequestGoesOn(r) ==
  /\ rq' \in [Requests -> Handling]
  /\ rq[r].pc # "unsent" /\ rq'[r].pc # "unsent"
  /\ rq'[r].body = rq[r].body /\ rq'[r].seen = rq[r].seen
  /\ \A s \in Requests \ {r} : rq'[s] = rq[s]

\* Then answers that were given go on fitting, if the new ones do.
LEMMA AnswersKept ==
  ASSUME Typed, StoredFits, AtMostOncePerKey, NEW r \in Requests, RequestGoesOn(r),
         record' \in Rows, AnswersFit(record'),
         rq'[r].pc = "answered" =>
           LET a == rq'[r].answer IN a \in Requests /\ rq[a].pc # "unsent" /\ rq[a].body = rq[r].body,
         today'.effects <= 1 + today'.late
  PROVE  StoredFits' /\ AtMostOncePerKey'
<1>1. \A s \in Requests : rq[s].pc # "unsent" => rq'[s].pc # "unsent" /\ rq'[s].body = rq[s].body
  BY DEF RequestGoesOn
<1>2. ASSUME NEW row \in Rows, AnswersFit(row) PROVE AnswersFit(row)'
  BY <1>1, <1>2, RequestsAssumption DEF AnswersFit, Rows
<1>3. ASSUME NEW s \in Requests, rq'[s].pc = "answered"
      PROVE  LET a == rq'[s].answer IN a \in Requests /\ rq[a].pc # "unsent" /\ rq[a].body = rq'[s].body
  BY <1>3 DEF RequestGoesOn, StoredFits, AtMostOncePerKey
<1>4. \A s \in Requests : rq'[s].seen = rq[s].seen /\ rq[s].seen \in Rows
  BY DEF RequestGoesOn, Typed, Handling
<1>5. AnswersFit(record)' /\ \A s \in Requests : AnswersFit(rq[s].seen)'
  BY <1>2, <1>4 DEF StoredFits, AnswersFit
<1> QED
  BY <1>1, <1>3, <1>5 DEF StoredFits, AtMostOncePerKey

\* One step keeps the invariant, request by request.
LEMMA KeyStep == KeyInvariant /\ [Next]_vars => KeyInvariant'
<1> SUFFICES ASSUME KeyInvariant, [Next]_vars PROVE KeyInvariant'
  OBVIOUS
<1>0. /\ Typed /\ NumbersAreOwn /\ HoldersHaveTheRow /\ ExpiryIsFinal /\ StoredFits /\ WorkIsCounted
      /\ AtMostOncePerKey
      /\ None \notin Requests \cup Bodies
  BY RequestsAssumption DEF KeyInvariant
<1>1. ASSUME NEW r \in Requests, Arrives(r) PROVE KeyInvariant'
  <2>1. PICK b \in Bodies :
          rq' = [rq EXCEPT ![r] = [@ EXCEPT !.pc = "looked", !.body = b, !.seen = record]]
    BY <1>1 DEF Arrives
  <2>2. rq[r].pc = "unsent" /\ UNCHANGED <<record, made, today>>
    BY <1>1 DEF Arrives
  <2>3. /\ rq'[r].pc = "looked" /\ rq'[r].seen = record
        /\ rq'[r].id = rq[r].id /\ rq'[r].answer = rq[r].answer
        /\ \A s \in Requests \ {r} : rq'[s] = rq[s]
        /\ rq' \in [Requests -> Handling]
    BY <1>0, <2>1, ZenonT(60) DEF Typed, Handling
  <2>4. Typed' /\ NumbersAreOwn'
    BY <1>0, <2>2, <2>3 DEF Typed, NumbersAreOwn
  <2>5. HoldersHaveTheRow' /\ ExpiryIsFinal' /\ WorkIsCounted'
    BY <1>0, <2>2, <2>3 DEF HoldersHaveTheRow, ExpiryIsFinal, WorkIsCounted, Active
  <2>6. \A s \in Requests : rq[s].pc # "unsent" => rq'[s].pc # "unsent" /\ rq'[s].body = rq[s].body
    BY <2>2, <2>3
  <2>7. ASSUME NEW row \in Rows, AnswersFit(row) PROVE AnswersFit(row)'
    BY <1>0, <2>6, <2>7 DEF AnswersFit, Rows
  <2>8. /\ record \in Rows /\ AnswersFit(record)
        /\ \A s \in Requests : /\ rq'[s].seen = rq[s].seen \/ rq'[s].seen = record
                               /\ rq[s].seen \in Rows /\ AnswersFit(rq[s].seen)
    BY <1>0, <2>3 DEF Typed, Handling, StoredFits
  <2>9. AnswersFit(record)' /\ \A s \in Requests : AnswersFit(rq[s].seen)'
    BY <2>2, <2>7, <2>8 DEF AnswersFit
  <2>10. \A s \in Requests : rq'[s].pc = "answered" => s # r /\ rq[s].pc = "answered" /\ rq'[s] = rq[s]
    BY <2>3
  <2>11. StoredFits' /\ AtMostOncePerKey'
    BY <1>0, <2>2, <2>6, <2>9, <2>10 DEF StoredFits, AtMostOncePerKey
  <2> QED
    BY <2>4, <2>5, <2>11 DEF KeyInvariant
<1>2. ASSUME NEW r \in Requests, Replays(r) PROVE KeyInvariant'
  <2>1. /\ rq[r].pc = "looked" /\ UNCHANGED <<record, made, today>>
        /\ rq[r].seen.stored \in Requests \cup {None}
    BY <1>0, <1>2 DEF Replays, Typed, Handling, Rows
  <2>2. PICK pc \in {"answered", "refused"}, a \in Requests \cup {None} :
          /\ rq' = [rq EXCEPT ![r].pc = pc, ![r].answer = a]
          /\ pc = "answered" => a = rq[r].seen.stored /\ a # None /\ rq[r].seen.body = rq[r].body
    BY <1>2, <2>1 DEF Replays, Ends, Usable
  <2>3. RequestGoesOn(r) /\ rq'[r].pc = pc /\ rq'[r].answer = a /\ rq'[r].id = rq[r].id
    BY <1>0, <2>1, <2>2 DEF RequestGoesOn, Typed, Handling
  <2>4. Typed' /\ NumbersAreOwn' /\ HoldersHaveTheRow' /\ ExpiryIsFinal' /\ WorkIsCounted'
    BY <1>0, <2>1, <2>3
    DEF RequestGoesOn, Typed, NumbersAreOwn, HoldersHaveTheRow, ExpiryIsFinal, WorkIsCounted, Active
  <2>5. StoredFits' /\ AtMostOncePerKey'
    <3>1. pc = "answered" => a \in Requests /\ rq[a].pc # "unsent" /\ rq[a].body = rq[r].body
      BY <1>0, <2>2 DEF StoredFits, AnswersFit
    <3>2. AnswersFit(record') /\ record' \in Rows /\ today'.effects <= 1 + today'.late
      BY <1>0, <2>1 DEF StoredFits, Typed, WorkIsCounted
    <3> QED
      BY <1>0, <2>3, <3>1, <3>2, AnswersKept
  <2> QED
    BY <2>4, <2>5 DEF KeyInvariant
<1>3. ASSUME NEW r \in Requests, Reserves(r) PROVE KeyInvariant'
  <2>1. rq[r].pc = "looked" /\ today' = today
    BY <1>3 DEF Reserves
  <2>2. CASE ~Free(r)
    <3>1. rq' = [rq EXCEPT ![r].pc = "refused", ![r].answer = None] /\ UNCHANGED <<record, made>>
      BY <1>3, <2>2 DEF Reserves, Ends
    <3>2. RequestGoesOn(r) /\ rq'[r].pc = "refused" /\ rq'[r].id = rq[r].id
      BY <1>0, <2>1, <3>1, ZenonT(60) DEF RequestGoesOn, Typed, Handling
    <3>3. Typed' /\ NumbersAreOwn' /\ HoldersHaveTheRow' /\ ExpiryIsFinal' /\ WorkIsCounted'
      BY <1>0, <2>1, <3>1, <3>2
      DEF RequestGoesOn, Typed, NumbersAreOwn, HoldersHaveTheRow, ExpiryIsFinal, WorkIsCounted, Active
    <3>4. AnswersFit(record') /\ record' \in Rows /\ today'.effects <= 1 + today'.late
      BY <1>0, <2>1, <3>1 DEF StoredFits, Typed, WorkIsCounted
    <3>5. StoredFits' /\ AtMostOncePerKey'
      BY <1>0, <3>2, <3>4, AnswersKept
    <3> QED
      BY <3>3, <3>5 DEF KeyInvariant
  <2>3. CASE Free(r)
    <3>1. /\ made' = made + 1 /\ record' = New(made + 1, rq[r].body)
          /\ rq' = [rq EXCEPT ![r].pc = "working", ![r].id = made + 1]
      BY <1>3, <2>3 DEF Reserves
    \* The key was free, or the row it took was expired: nothing is under way.
    <3>2. record.id = NoRow \/ record.expired
      BY <1>0, <1>3, <2>1, <2>3 DEF Reserves, Free, ExpiryIsFinal
    <3>3. \A s \in Requests : ~Active(s)
      BY <1>0, <3>2 DEF HoldersHaveTheRow
    <3>4. /\ RequestGoesOn(r) /\ rq'[r].pc = "working" /\ rq'[r].id = made + 1
          /\ record' \in Rows /\ made' \in Nat
      <4>1. made + 1 \in Nat
        BY <1>0 DEF Typed
      <4>2. rq[r] \in Handling
        BY <1>0 DEF Typed
      <4>3. New(made + 1, rq[r].body) \in Rows
        BY <4>1, <4>2 DEF New, Rows, Handling
      <4>4. RequestGoesOn(r) /\ rq'[r].pc = "working" /\ rq'[r].id = made + 1
        BY <1>0, <2>1, <3>1, <4>1, <4>2 DEF RequestGoesOn, Typed, Handling
      <4> QED
        BY <3>1, <4>1, <4>3, <4>4
    <3>5. record'.id = made + 1 /\ record'.body = rq[r].body /\ record'.stored = None /\ ~record'.expired
      BY <3>1 DEF New
    <3>6. Typed'
      BY <1>0, <2>1, <3>4 DEF Typed, RequestGoesOn
    <3>7. NumbersAreOwn'
      BY <1>0, <3>1, <3>4, <3>5 DEF NumbersAreOwn, Typed, RequestGoesOn, Handling, Rows, NoRow
    <3>8. HoldersHaveTheRow'
      BY <1>0, <3>3, <3>4, <3>5 DEF HoldersHaveTheRow, RequestGoesOn, Active, Typed, NoRow
    <3>9. ExpiryIsFinal'
      <4>1. \A s \in Requests : rq[s].seen.id <= made /\ rq[s].seen.id \in Nat /\ made \in Nat
        BY <1>0 DEF NumbersAreOwn, Typed, Handling, Rows
      <4>2. \A s \in Requests : rq'[s].seen = rq[s].seen
        BY <3>4 DEF RequestGoesOn
      <4> QED
        BY <1>0, <3>4, <3>5, <4>1, <4>2 DEF ExpiryIsFinal, RequestGoesOn, NoRow
    <3>10. WorkIsCounted'
      BY <1>0, <2>1, <3>2 DEF WorkIsCounted
    <3>11. AnswersFit(record') /\ today'.effects <= 1 + today'.late
      BY <1>0, <2>1, <3>5 DEF AnswersFit, WorkIsCounted
    <3>12. StoredFits' /\ AtMostOncePerKey'
      BY <1>0, <3>4, <3>11, AnswersKept
    <3> QED
      BY <3>6, <3>7, <3>8, <3>9, <3>10, <3>12 DEF KeyInvariant
  <2> QED
    BY <2>2, <2>3
<1>4. ASSUME NEW r \in Requests, Works(r) PROVE KeyInvariant'
  <2>1. /\ rq[r].pc = "working" /\ UNCHANGED <<record, made>>
        /\ rq' = [rq EXCEPT ![r].pc = "worked"]
        /\ today' = [today EXCEPT !.effects = @ + 1]
    BY <1>4 DEF Works
  <2>2. /\ RequestGoesOn(r) /\ rq'[r].pc = "worked" /\ rq'[r].id = rq[r].id
    BY <1>0, <2>1 DEF RequestGoesOn, Typed, Handling
  <2>3. /\ today' \in [effects : Nat, late : Nat]
        /\ today'.effects = today.effects + 1 /\ today'.late = today.late
        /\ today.effects \in Nat /\ today.late \in Nat
    BY <1>0, <2>1 DEF Typed
  <2>4. Typed' /\ NumbersAreOwn' /\ HoldersHaveTheRow' /\ ExpiryIsFinal'
    BY <1>0, <2>1, <2>2, <2>3
    DEF RequestGoesOn, Typed, NumbersAreOwn, HoldersHaveTheRow, ExpiryIsFinal, Active
  \* Nobody else is at work: it would hold the same row.
  <2>5. \A s \in Requests : Active(s) => s = r
    BY <1>0, <2>1 DEF HoldersHaveTheRow, NumbersAreOwn, Active
  <2>6. WorkIsCounted'
    <3>1. today.effects <= today.late
      BY <1>0, <2>1 DEF WorkIsCounted
    <3>2. \A s \in Requests : rq'[s].pc # "working"
      BY <2>2, <2>5 DEF RequestGoesOn, Active
    <3>3. record.id # NoRow /\ ~record.expired
      BY <1>0, <2>1 DEF HoldersHaveTheRow, Active
    <3> QED
      BY <2>1, <2>3, <3>1, <3>2, <3>3 DEF WorkIsCounted
  <2>7. AnswersFit(record') /\ record' \in Rows /\ today'.effects <= 1 + today'.late
    BY <1>0, <2>1, <2>6 DEF StoredFits, Typed, WorkIsCounted
  <2>8. StoredFits' /\ AtMostOncePerKey'
    BY <1>0, <2>2, <2>7, AnswersKept
  <2> QED
    BY <2>4, <2>6, <2>8 DEF KeyInvariant
<1>5. ASSUME NEW r \in Requests, Finishes(r) PROVE KeyInvariant'
  <2>1. /\ rq[r].pc = "worked" /\ UNCHANGED <<made, today>>
        /\ rq' = [rq EXCEPT ![r].pc = "answered", ![r].answer = r]
    BY <1>5 DEF Finishes, Ends
  <2>2. record.id = rq[r].id /\ record.body = rq[r].body /\ ~record.expired /\ record.id # NoRow
    BY <1>0, <2>1 DEF HoldersHaveTheRow, Active
  <2>3. record' = [record EXCEPT !.stored = r]
    BY <1>5, <2>2 DEF Finishes
  <2>4. /\ record' \in Rows /\ record'.id = record.id /\ record'.body = record.body
        /\ record'.stored = r /\ record'.expired = record.expired
    BY <1>0, <2>3 DEF Typed, Rows
  <2>5. /\ RequestGoesOn(r) /\ rq'[r].pc = "answered" /\ rq'[r].answer = r /\ rq'[r].id = rq[r].id
    BY <1>0, <2>1 DEF RequestGoesOn, Typed, Handling
  <2>6. \A s \in Requests : Active(s) => s = r
    BY <1>0, <2>1 DEF HoldersHaveTheRow, NumbersAreOwn, Active
  <2>7. Typed' /\ NumbersAreOwn' /\ HoldersHaveTheRow' /\ ExpiryIsFinal' /\ WorkIsCounted'
    BY <1>0, <2>1, <2>2, <2>4, <2>5, <2>6
    DEF RequestGoesOn, Typed, NumbersAreOwn, HoldersHaveTheRow, ExpiryIsFinal, WorkIsCounted, Active
  <2>8. AnswersFit(record') /\ today'.effects <= 1 + today'.late
    BY <1>0, <2>1, <2>2, <2>4 DEF AnswersFit, WorkIsCounted
  <2>9. StoredFits' /\ AtMostOncePerKey'
    BY <1>0, <2>1, <2>4, <2>5, <2>8, AnswersKept
  <2> QED
    BY <2>7, <2>9 DEF KeyInvariant
<1>6. ASSUME NEW r \in Requests, Fails(r) PROVE KeyInvariant'
  <2>1. /\ rq[r].pc \in {"working", "worked"} /\ made' = made
        /\ rq' = [rq EXCEPT ![r].pc = "refused", ![r].answer = None]
        /\ today' = IF rq[r].pc = "worked" THEN [today EXCEPT !.late = @ + 1] ELSE today
    BY <1>6 DEF Fails, Ends
  <2>2. record' = Absent
    BY <1>0, <1>6, <2>1 DEF Fails, HoldersHaveTheRow, Active
  <2>3. record' \in Rows /\ record'.id = NoRow /\ record'.stored = None
    BY <2>2 DEF Absent, Rows, NoRow
  <2>4. /\ RequestGoesOn(r) /\ rq'[r].pc = "refused" /\ rq'[r].id = rq[r].id
    BY <1>0, <2>1, ZenonT(60) DEF RequestGoesOn, Typed, Handling
  <2>5. \A s \in Requests : Active(s) => s = r
    BY <1>0, <2>1 DEF HoldersHaveTheRow, NumbersAreOwn, Active
  <2>6. /\ today' \in [effects : Nat, late : Nat]
        /\ today'.effects = today.effects /\ today.effects \in Nat /\ today.late \in Nat
        /\ today'.late = IF rq[r].pc = "worked" THEN today.late + 1 ELSE today.late
    BY <1>0, <2>1 DEF Typed
  <2>7. \A s \in Requests : ~Active(s)'
    BY <2>4, <2>5 DEF RequestGoesOn, Active
  <2>8. Typed' /\ NumbersAreOwn' /\ HoldersHaveTheRow'
    BY <1>0, <2>1, <2>3, <2>4, <2>6, <2>7
    DEF RequestGoesOn, Typed, NumbersAreOwn, HoldersHaveTheRow, NoRow
  \* An expired row that somebody saw has a number of its own.
  <2>9. ExpiryIsFinal'
    BY <1>0, <2>2, <2>4 DEF ExpiryIsFinal, RequestGoesOn, Absent
  <2>10. WorkIsCounted'
    BY <1>0, <2>1, <2>6, <2>7 DEF WorkIsCounted, Active
  <2>11. AnswersFit(record') /\ today'.effects <= 1 + today'.late
    BY <2>3, <2>10 DEF AnswersFit, WorkIsCounted
  <2>12. StoredFits' /\ AtMostOncePerKey'
    BY <1>0, <2>3, <2>4, <2>11, AnswersKept
  <2> QED
    BY <2>8, <2>9, <2>10, <2>12 DEF KeyInvariant
<1>7. ASSUME NEW r \in Requests, Dies(r) PROVE KeyInvariant'
  <2>1. /\ rq[r].pc \in {"looked", "working", "worked"} /\ UNCHANGED <<record, made, today>>
        /\ rq' = [rq EXCEPT ![r].pc = "lost", ![r].answer = None]
    BY <1>7 DEF Dies, Ends
  <2>2. RequestGoesOn(r) /\ rq'[r].pc = "lost" /\ rq'[r].id = rq[r].id
    BY <1>0, <2>1, ZenonT(60) DEF RequestGoesOn, Typed, Handling
  <2>3. Typed' /\ NumbersAreOwn' /\ HoldersHaveTheRow' /\ ExpiryIsFinal' /\ WorkIsCounted'
    BY <1>0, <2>1, <2>2
    DEF RequestGoesOn, Typed, NumbersAreOwn, HoldersHaveTheRow, ExpiryIsFinal, WorkIsCounted, Active
  <2>4. AnswersFit(record') /\ record' \in Rows /\ today'.effects <= 1 + today'.late
    BY <1>0, <2>1 DEF StoredFits, Typed, WorkIsCounted
  <2>5. StoredFits' /\ AtMostOncePerKey'
    BY <1>0, <2>2, <2>4, AnswersKept
  <2> QED
    BY <2>3, <2>5 DEF KeyInvariant
<1>8. ASSUME Expires \/ Purge PROVE KeyInvariant'
  <2>1. rq' = rq /\ made' = made
    BY <1>8 DEF Expires, Purge
  <2>2. /\ record' \in Rows /\ today' \in [effects : Nat, late : Nat]
        /\ today'.effects <= today'.late
        /\ record'.id = NoRow <=> ~record'.expired
        /\ record'.id = NoRow \/ (record'.id = record.id /\ record'.body = record.body)
        /\ record'.stored = None \/ (record'.stored = record.stored /\ record'.body = record.body)
    <3>1. CASE Expires
      <4>1. /\ record' = [record EXCEPT !.expired = TRUE]
            /\ today' = [effects |-> 0, late |-> 0]
        BY <3>1 DEF Expires
      <4>2. /\ record' \in Rows /\ record'.expired /\ record'.id = record.id /\ record.id # NoRow
            /\ record'.body = record.body /\ record'.stored = record.stored
        BY <1>0, <3>1, <4>1 DEF Typed, Rows, Expires
      <4>3. today' \in [effects : Nat, late : Nat] /\ today'.effects <= today'.late
        BY <4>1
      <4> QED
        BY <4>2, <4>3
    <3>2. CASE Purge
      <4>1. record' = Absent /\ record.expired /\ today' = today
        BY <3>2 DEF Purge
      <4>2. today.effects <= today.late
        BY <1>0, <4>1 DEF WorkIsCounted
      <4> QED
        BY <1>0, <4>1, <4>2 DEF Absent, Rows, NoRow, Typed
    <3> QED
      BY <1>8, <3>1, <3>2
  \* Nobody is at work: a day is longer than any request, and a row that expired is
  \* nobody's.
  <2>3. \A s \in Requests : ~Active(s)
    BY <1>0, <1>8 DEF Expires, Purge, HoldersHaveTheRow, Active
  <2>4. Typed' /\ NumbersAreOwn' /\ HoldersHaveTheRow'
    BY <1>0, <2>1, <2>2, <2>3 DEF Typed, NumbersAreOwn, HoldersHaveTheRow, Active, NoRow
  <2>5. ExpiryIsFinal'
    BY <1>0, <2>1, <2>2 DEF ExpiryIsFinal, NoRow
  <2>6. WorkIsCounted'
    BY <1>0, <2>1, <2>2, <2>3 DEF WorkIsCounted, Active, Typed
  <2>7. StoredFits' /\ AtMostOncePerKey'
    BY <1>0, <2>1, <2>2, <2>6 DEF StoredFits, AnswersFit, AtMostOncePerKey, WorkIsCounted
  <2> QED
    BY <2>4, <2>5, <2>6, <2>7 DEF KeyInvariant
<1>9. CASE UNCHANGED vars
  BY <1>0, <1>9 DEF vars, KeyInvariant, Typed, NumbersAreOwn, HoldersHaveTheRow, ExpiryIsFinal,
     StoredFits, AnswersFit, WorkIsCounted, AtMostOncePerKey, Active
<1> QED
  BY <1>1, <1>2, <1>3, <1>4, <1>5, <1>6, <1>7, <1>8, <1>9 DEF Next

LEMMA KeyStart == Init => KeyInvariant
<1> SUFFICES ASSUME Init PROVE KeyInvariant
  OBVIOUS
<1>1. Absent \in Rows /\ Absent.id = 0 /\ Absent.stored = None /\ Absent.expired = FALSE
  BY DEF Absent, Rows, NoRow
<1>2. /\ record = Absent /\ made = 0 /\ today.effects = 0 /\ today.late = 0
      /\ today \in [effects : Nat, late : Nat]
  BY DEF Init
<1>3. \A r \in Requests : /\ rq[r].pc = "unsent" /\ rq[r].seen = Absent /\ rq[r].id = 0
  BY DEF Init, NoRow
<1>4. rq \in [Requests -> Handling]
  BY <1>1 DEF Init, Handling, NoRow
<1> HIDE DEF Absent
<1> QED
  BY <1>1, <1>2, <1>3, <1>4
  DEF KeyInvariant, Typed, NumbersAreOwn, HoldersHaveTheRow, ExpiryIsFinal, StoredFits, AnswersFit,
      WorkIsCounted, AtMostOncePerKey, Active, NoRow

(* Types, one actor at a time: the workers, the webhook's secrets, the     *)
(* calls that come in.  That a delivery is tried no oftener than it may be *)
(* is no matter of types: it follows below.                                *)

DeliveryRow ==
  [status : {"absent", "pending", "delivered", "failed", "replayed"},
   attempts : Nat, next : {"due", "later", "never"}]
DeliverySession ==
  [batch : SUBSET D!Deliveries, at : D!Deliveries \cup {D!None}, sent : {"no", "accepted", "refused", "unheard"}]

SendingTyped ==
  /\ dDelivery \in [D!Deliveries -> DeliveryRow]
  /\ dWk \in [Workers -> DeliverySession]
  /\ dHeard \in [D!Deliveries -> Nat]
  /\ dCrashes \in 0..DeliveryCrashes

SigningTyped ==
  /\ dHook \in [active : BOOLEAN, current : D!Secrets, previous : D!Secrets \cup {D!None}]
  /\ dRead \in [Admins -> D!Secrets \cup {D!None}]
  /\ dIssued \in D!Secrets
  /\ dReceiver \in [holds : D!Secrets, told : D!Secrets, behind : BOOLEAN]

InboundTyped ==
  /\ dOpen \in BOOLEAN
  /\ dCall \in [Calls -> {D!NoCall} \cup [at : {"new", "holds"}, event : Incoming]]
  /\ dReceipt \subseteq Incoming /\ dAnswered \subseteq Incoming
  /\ dTaken \in [Incoming -> Nat]
  /\ dCalls \in 0..CallBound

LEMMA SendingKeepsTypes ==
  ASSUME D!DeliveryAssumption, SendingTyped, D!Delivers
  PROVE  SendingTyped'
<1> USE DEF D!DeliveryAssumption, SendingTyped
<1>0. D!Pending \in DeliveryRow /\ D!Idle \in DeliverySession
  BY DEF D!Pending, D!Idle, DeliveryRow, DeliverySession
<1>1. CASE D!Subscribed
  BY <1>0, <1>1 DEF D!Subscribed
<1>2. ASSUME NEW c \in D!Deliveries, D!Replay(c) PROVE SendingTyped'
  BY <1>0, <1>2 DEF D!Replay
<1>3. CASE D!ReplayFailed
  <2>1. \A d \in D!Deliveries : [dDelivery[d] EXCEPT !.status = "replayed"] \in DeliveryRow
    BY DEF DeliveryRow
  <2> QED
    BY <1>0, <1>3, <2>1 DEF D!ReplayFailed
<1>4. ASSUME NEW d \in D!Deliveries, D!TimePasses(d) PROVE SendingTyped'
  <2>1. [dDelivery[d] EXCEPT !.next = "due"] \in DeliveryRow
    BY DEF DeliveryRow
  <2> QED
    BY <1>4, <2>1 DEF D!TimePasses
<1>5. ASSUME NEW w \in Workers, D!TakeDue(w) PROVE SendingTyped'
  <2>1. \A d \in D!Deliveries : D!PutOff(d) \in DeliveryRow
    BY DEF D!PutOff, DeliveryRow
  <2>2. \A due \in SUBSET D!Deliveries : [dWk[w] EXCEPT !.batch = due] \in DeliverySession
    BY <1>5 DEF DeliverySession
  <2>3. dWk' \in [Workers -> DeliverySession]
    BY <1>5, <2>2 DEF D!TakeDue
  <2> QED
    BY <1>5, <2>1, <2>3 DEF D!TakeDue
<1>6. ASSUME NEW w \in Workers, D!Send(w) PROVE SendingTyped'
  <2>1. \A d \in dWk[w].batch : d \in D!Deliveries
    BY DEF DeliverySession
  <2>2. dWk' \in [Workers -> DeliverySession]
    <3>1. PICK d \in dWk[w].batch, sent \in {"accepted", "refused", "unheard"} :
            dWk' = [dWk EXCEPT ![w].at = d, ![w].sent = sent]
      BY <1>6 DEF D!Send
    <3> QED
      BY <2>1, <3>1, ZenonT(60) DEF DeliverySession
  <2>3. dHeard' \in [D!Deliveries -> Nat]
    BY <1>6, <2>1 DEF D!Send
  <2>4. UNCHANGED <<dDelivery, dCrashes>>
    BY <1>6 DEF D!Send
  <2> QED
    BY <2>2, <2>3, <2>4
<1>7. ASSUME NEW w \in Workers, D!Record(w) PROVE SendingTyped'
  <2>1. dWk[w].at \in D!Deliveries
    BY <1>7 DEF D!Record, DeliverySession
  <2>2. D!Outcome(dWk[w].at, dWk[w].sent) \in DeliveryRow
    BY <1>7, <2>1 DEF D!Outcome, D!Attempt, DeliveryRow, DeliverySession
  <2> QED
    <3>1. [batch |-> dWk[w].batch \ {dWk[w].at}, at |-> D!None, sent |-> "no"] \in DeliverySession
      BY DEF DeliverySession
    <3>2. /\ dDelivery' = [dDelivery EXCEPT ![dWk[w].at] = D!Outcome(dWk[w].at, dWk[w].sent)]
          /\ dWk' = [dWk EXCEPT ![w] = [batch |-> dWk[w].batch \ {dWk[w].at}, at |-> D!None, sent |-> "no"]]
          /\ UNCHANGED <<dHeard, dCrashes>>
      BY <1>7 DEF D!Record
    <3> QED
      BY <2>1, <2>2, <3>1, <3>2
<1>8. ASSUME NEW w \in Workers, D!Crash(w) PROVE SendingTyped'
  BY <1>0, <1>8 DEF D!Crash
<1> QED
  BY <1>1, <1>2, <1>3, <1>4, <1>5, <1>6, <1>7, <1>8 DEF D!Delivers, D!Works

LEMMA SigningKeepsTypes ==
  ASSUME D!DeliveryAssumption, SigningTyped, D!Signs
  PROVE  SigningTyped'
<1> USE DEF D!DeliveryAssumption, SigningTyped, D!Secrets, D!None
<1>1. CASE D!Update
  BY <1>1 DEF D!Update
<1>2. CASE D!OverlapEnds
  BY <1>2 DEF D!OverlapEnds
<1>3. CASE D!ReceiverMoves
  BY <1>3 DEF D!ReceiverMoves
<1>4. ASSUME NEW a \in Admins, D!RotateReads(a) \/ D!RotateFails(a) PROVE SigningTyped'
  BY <1>4 DEF D!RotateReads, D!RotateFails
<1>5. ASSUME NEW a \in Admins, NEW overlap \in BOOLEAN, D!RotateWrites(a, overlap) PROVE SigningTyped'
  <2>1. dIssued + 1 \in D!Secrets
    BY <1>5 DEF D!RotateWrites
  <2>2. dHook' \in [active : BOOLEAN, current : D!Secrets, previous : D!Secrets \cup {D!None}]
    BY <1>5, <2>1 DEF D!RotateWrites, D!Rotated
  <2> QED
    BY <1>5, <2>1, <2>2 DEF D!RotateWrites
<1> QED
  BY <1>1, <1>2, <1>3, <1>4, <1>5 DEF D!Signs

LEMMA InboundKeepsTypes ==
  ASSUME D!DeliveryAssumption, InboundTyped, D!TakesIn
  PROVE  InboundTyped'
<1> USE DEF D!DeliveryAssumption, InboundTyped
<1>1. CASE D!UpdateInbound
  BY <1>1 DEF D!UpdateInbound
<1>2. ASSUME NEW c \in Calls, NEW e \in Incoming, D!Receive(c, e) PROVE InboundTyped'
  BY <1>2 DEF D!Receive
<1>3. ASSUME NEW c \in Calls, D!Flush(c) PROVE InboundTyped'
  <2>1. dCall[c] \in [at : {"new", "holds"}, event : Incoming]
    BY <1>3 DEF D!Flush, D!NoCall
  <2>2. [dCall[c] EXCEPT !.at = "holds"] \in [at : {"new", "holds"}, event : Incoming]
    BY <2>1
  <2> QED
    BY <1>3, <2>1, <2>2 DEF D!Flush
<1>4. ASSUME NEW c \in Calls, D!CallCommits(c) PROVE InboundTyped'
  <2>1. dCall[c] \in [at : {"new", "holds"}, event : Incoming]
    BY <1>4 DEF D!CallCommits, D!NoCall
  <2> QED
    BY <1>4, <2>1 DEF D!CallCommits
<1>5. ASSUME NEW c \in Calls, D!CallFails(c) PROVE InboundTyped'
  BY <1>5 DEF D!CallFails
<1> QED
  BY <1>1, <1>2, <1>3, <1>4, <1>5 DEF D!TakesIn

--------------------------------------------------------------------------------
(* What a receiver heard.                                                  *)

\* What a worker is to send is put off, and no other worker is to send it.
BatchesArePutOff ==
  \A w \in Workers : \A d \in dWk[w].batch : dDelivery[d].status = "pending" /\ dDelivery[d].next = "later"
BatchesAreApart == \A w, v \in Workers : w # v => dWk[w].batch \cap dWk[v].batch = {}
SendsFromItsBatch == \A w \in Workers : dWk[w].at # D!None => dWk[w].at \in dWk[w].batch

\* Deliveries are made in their order.
MadeInOrder ==
  \A c, d \in D!Deliveries : c < d /\ dDelivery[c].status = "absent" => dDelivery[d].status = "absent"

\* A request that was heard and is not counted yet.
InFlight(d) == \E w \in Workers : dWk[w].at = d /\ dWk[w].sent \in {"accepted", "refused"}

\* What was heard was counted, or is about to be, or its worker died.
HeardIsCounted ==
  \A d \in D!Deliveries :
    /\ dDelivery[d].attempts <= DeliveryAttempts
    /\ dDelivery[d].status = "pending" => dDelivery[d].attempts < DeliveryAttempts
    /\ dDelivery[d].status = "absent" => dHeard[d] = 0
    /\ dHeard[d] <= dDelivery[d].attempts + dCrashes + 1
    /\ ~InFlight(d) => dHeard[d] <= dDelivery[d].attempts + dCrashes

\* Whatever was accepted was heard.
AcceptedWasHeard ==
  /\ \A d \in D!Deliveries : dDelivery[d].status = "delivered" => dHeard[d] > 0
  /\ \A w \in Workers : dWk[w].at # D!None /\ dWk[w].sent = "accepted" => dHeard[dWk[w].at] > 0

\* The inductive invariant.
SendingInvariant ==
  /\ SendingTyped
  /\ BatchesArePutOff /\ BatchesAreApart /\ SendsFromItsBatch
  /\ MadeInOrder /\ HeardIsCounted /\ AcceptedWasHeard

\* Some deliveries that were absent are pending.
DeliveriesMade(new) ==
  /\ \A d \in new : dDelivery[d].status = "absent" /\ dDelivery'[d] = D!Pending
  /\ \A d \in D!Deliveries \ new :
       /\ dDelivery'[d].attempts = dDelivery[d].attempts /\ dDelivery'[d].next = dDelivery[d].next
       /\ \/ dDelivery'[d] = dDelivery[d]
          \/ dDelivery[d].status = "failed" /\ dDelivery'[d].status = "replayed"
  /\ \A c \in D!Deliveries, d \in new : c < d => c \in new \/ dDelivery[c].status # "absent"
  /\ UNCHANGED <<dWk, dHeard, dCrashes>>

LEMMA DeliveriesMadeKeep ==
  ASSUME D!DeliveryAssumption, SendingInvariant, SendingTyped', NEW new \in SUBSET D!Deliveries, DeliveriesMade(new)
  PROVE  SendingInvariant'
<1> USE DEF D!DeliveryAssumption, SendingInvariant, DeliveriesMade
<1>1. \A w \in Workers : \A d \in dWk[w].batch : d \in D!Deliveries \ new
  BY DEF SendingTyped, DeliverySession, BatchesArePutOff
<1>2. (BatchesArePutOff /\ BatchesAreApart /\ SendsFromItsBatch)'
  BY <1>1 DEF BatchesArePutOff, BatchesAreApart, SendsFromItsBatch
<1>3. MadeInOrder'
  BY DEF MadeInOrder, D!Pending, D!Deliveries
<1>4. \A d \in D!Deliveries : InFlight(d)' <=> InFlight(d)
  BY DEF InFlight
<1>5. HeardIsCounted'
  BY <1>4 DEF HeardIsCounted, D!Pending, SendingTyped, DeliveryRow
<1>6. AcceptedWasHeard'
  BY DEF AcceptedWasHeard, D!Pending
<1> QED
  BY <1>2, <1>3, <1>5, <1>6

LEMMA SendingKeepsInvariant ==
  ASSUME D!DeliveryAssumption, SendingInvariant, D!Delivers
  PROVE  SendingInvariant'
<1> USE DEF D!DeliveryAssumption, SendingInvariant
<1>0. SendingTyped'
  BY SendingKeepsTypes
<1>1. CASE D!Subscribed \/ \E c \in D!Deliveries : D!Replay(c)
  <2>1. PICK d \in D!NextDelivery : dDelivery' = [dDelivery EXCEPT ![d] = D!Pending] /\ UNCHANGED <<dWk, dHeard, dCrashes>>
    BY <1>1 DEF D!Subscribed, D!Replay
  <2>2. DeliveriesMade({d})
    BY <2>1 DEF DeliveriesMade, D!NextDelivery, SendingTyped, D!Deliveries
  <2> QED
    BY <1>0, <2>1, <2>2, DeliveriesMadeKeep DEF D!NextDelivery
<1>2. CASE D!ReplayFailed
  <2> DEFINE failed == {d \in D!Deliveries : dDelivery[d].status = "failed"}
             again == {d \in D!Deliveries : \E first \in D!NextDelivery :
                         d >= first /\ d < first + D!Cardinality(failed)}
  <2>1. D!Cardinality(failed) \in Nat
    <3>1. IsFiniteSet(D!Deliveries)
      BY FS_Interval DEF D!Deliveries
    <3> QED
      BY <3>1, FS_Subset, FS_CardinalityType DEF D!Cardinality, Cardinality
  <2>2. \A d \in again : dDelivery[d].status = "absent"
    <3> SUFFICES ASSUME NEW d \in again PROVE dDelivery[d].status = "absent"
      OBVIOUS
    <3>1. PICK first \in D!NextDelivery : d >= first
      OBVIOUS
    <3>2. first \in D!Deliveries /\ dDelivery[first].status = "absent" /\ d \in D!Deliveries
      BY DEF D!NextDelivery
    <3>3. d = first \/ first < d
      BY <3>1, <3>2 DEF D!Deliveries
    <3> QED
      BY <3>2, <3>3 DEF MadeInOrder
  <2>3. \A c \in D!Deliveries, d \in again : c < d => c \in again \/ dDelivery[c].status # "absent"
    <3> SUFFICES ASSUME NEW c \in D!Deliveries, NEW d \in again, c < d, dDelivery[c].status = "absent"
                 PROVE  c \in again
      OBVIOUS
    <3>1. PICK first \in D!NextDelivery : d >= first /\ d < first + D!Cardinality(failed)
      OBVIOUS
    <3>2. c >= first
      BY DEF D!NextDelivery, D!Deliveries
    <3>3. c < first + D!Cardinality(failed)
      BY <2>1, <3>1 DEF D!NextDelivery, D!Deliveries
    <3> QED
      BY <3>2, <3>3
  <2>4. DeliveriesMade(again)
    <3>1. /\ dDelivery' = [d \in D!Deliveries |->
                    IF d \in again THEN D!Pending
                    ELSE IF d \in failed THEN [dDelivery[d] EXCEPT !.status = "replayed"]
                    ELSE dDelivery[d]]
          /\ UNCHANGED <<dWk, dHeard, dCrashes>>
      BY <1>2 DEF D!ReplayFailed
    <3>2. again \subseteq D!Deliveries /\ failed \subseteq D!Deliveries
      OBVIOUS
    <3>3. \A d \in failed : dDelivery[d].status = "failed"
      OBVIOUS
    <3> HIDE DEF again, failed
    <3>4. \A d \in again : dDelivery'[d] = D!Pending
      BY <3>1, <3>2
    <3>5. \A d \in D!Deliveries \ again :
            /\ d \in failed => dDelivery'[d] = [dDelivery[d] EXCEPT !.status = "replayed"]
            /\ d \notin failed => dDelivery'[d] = dDelivery[d]
      BY <3>1
    <3>6. \A d \in D!Deliveries \ again :
            /\ dDelivery'[d].attempts = dDelivery[d].attempts /\ dDelivery'[d].next = dDelivery[d].next
            /\ \/ dDelivery'[d] = dDelivery[d]
               \/ dDelivery[d].status = "failed" /\ dDelivery'[d].status = "replayed"
      BY <3>3, <3>5 DEF SendingTyped, DeliveryRow
    <3> QED
      BY <2>2, <2>3, <3>1, <3>4, <3>6 DEF DeliveriesMade
  <2> QED
    BY <1>0, <2>4, DeliveriesMadeKeep
<1>3. ASSUME NEW d \in D!Deliveries, D!TimePasses(d) PROVE SendingInvariant'
  <2>1. \A w \in Workers : d \notin dWk[w].batch
    BY <1>3 DEF D!TimePasses, D!InBatches
  <2>2. \A c \in D!Deliveries : /\ dDelivery'[c].status = dDelivery[c].status
                                /\ dDelivery'[c].attempts = dDelivery[c].attempts
                                /\ c # d => dDelivery'[c] = dDelivery[c]
    BY <1>3 DEF D!TimePasses, SendingTyped, DeliveryRow
  <2>3. UNCHANGED <<dWk, dHeard, dCrashes>>
    BY <1>3 DEF D!TimePasses
  <2>4. (BatchesArePutOff /\ BatchesAreApart /\ SendsFromItsBatch)'
    BY <2>1, <2>2, <2>3 DEF BatchesArePutOff, BatchesAreApart, SendsFromItsBatch, SendingTyped, DeliverySession
  <2>5. (MadeInOrder /\ HeardIsCounted /\ AcceptedWasHeard)'
    BY <2>2, <2>3 DEF MadeInOrder, HeardIsCounted, InFlight, AcceptedWasHeard
  <2> QED
    BY <1>0, <2>4, <2>5
<1>4. ASSUME NEW w \in Workers, D!TakeDue(w) PROVE SendingInvariant'
  <2> DEFINE due == {d \in D!Deliveries : dDelivery[d].status = "pending" /\ dDelivery[d].next = "due"}
  <2>1. /\ dWk[w] = D!Idle
        /\ dWk' = [dWk EXCEPT ![w].batch = due]
        /\ dDelivery' = [d \in D!Deliveries |-> IF d \in due THEN D!PutOff(d) ELSE dDelivery[d]]
        /\ UNCHANGED <<dHeard, dCrashes>>
    BY <1>4 DEF D!TakeDue
  <2>2. \A v \in Workers : v # w => dWk'[v] = dWk[v]
    BY <2>1 DEF SendingTyped
  <2>3. dWk'[w].batch = due /\ dWk'[w].at = D!None /\ dWk'[w].sent = "no" /\ dWk[w].at = D!None /\ dWk[w].batch = {}
    BY <2>1 DEF SendingTyped, D!Idle
  <2>4. \A d \in D!Deliveries : /\ dDelivery'[d].status = dDelivery[d].status
                                /\ dDelivery'[d].attempts = dDelivery[d].attempts
                                /\ d \in due => dDelivery'[d].next = "later"
                                /\ d \notin due => dDelivery'[d] = dDelivery[d]
    BY <2>1 DEF SendingTyped, DeliveryRow, D!PutOff
  <2>5. \A v \in Workers : dWk[v].batch \cap due = {}
    BY DEF BatchesArePutOff
  <2>6. \A v \in Workers : dWk[v].batch \subseteq D!Deliveries
    BY DEF SendingTyped, DeliverySession
  <2>7. BatchesArePutOff'
    BY <2>2, <2>3, <2>4, <2>5, <2>6 DEF BatchesArePutOff
  <2>8. (BatchesAreApart /\ SendsFromItsBatch)'
    <3> HIDE DEF due
    <3> QED
      BY <2>2, <2>3, <2>5 DEF BatchesAreApart, SendsFromItsBatch
  <2>9. \A d \in D!Deliveries : InFlight(d)' <=> InFlight(d)
    BY <2>2, <2>3 DEF InFlight, D!None, D!Deliveries
  <2>10. (MadeInOrder /\ HeardIsCounted)'
    BY <2>1, <2>4, <2>9 DEF MadeInOrder, HeardIsCounted
  <2>11. AcceptedWasHeard'
    BY <2>1, <2>2, <2>3, <2>4 DEF AcceptedWasHeard
  <2> QED
    BY <1>0, <2>7, <2>8, <2>10, <2>11
<1>5. ASSUME NEW w \in Workers, D!Send(w) PROVE SendingInvariant'
  <2>1. PICK d \in dWk[w].batch, sent \in {"accepted", "refused", "unheard"} :
          /\ dWk' = [dWk EXCEPT ![w].at = d, ![w].sent = sent]
          /\ dHeard' = IF sent = "unheard" THEN dHeard ELSE [dHeard EXCEPT ![d] = @ + 1]
    BY <1>5 DEF D!Send
  <2>2. dWk[w].at = D!None /\ UNCHANGED <<dDelivery, dCrashes>>
    BY <1>5 DEF D!Send
  <2>3. d \in D!Deliveries /\ dDelivery[d].status = "pending"
    BY DEF SendingTyped, DeliverySession, BatchesArePutOff
  <2>4. \A v \in Workers : v # w => dWk'[v] = dWk[v]
    BY <2>1 DEF SendingTyped
  <2>5. dWk'[w].batch = dWk[w].batch /\ dWk'[w].at = d /\ dWk'[w].sent = sent
    BY <2>1 DEF SendingTyped, DeliverySession
  <2>6. (BatchesArePutOff /\ BatchesAreApart /\ SendsFromItsBatch /\ MadeInOrder)'
    BY <2>2, <2>4, <2>5 DEF BatchesArePutOff, BatchesAreApart, SendsFromItsBatch, MadeInOrder
  <2>7. ~InFlight(d)
    BY <2>2, <2>3 DEF InFlight, SendsFromItsBatch, BatchesAreApart, D!None, D!Deliveries
  <2>8. \A c \in D!Deliveries : c # d => dHeard'[c] = dHeard[c] /\ (InFlight(c) => InFlight(c)')
    <3>1. \A c \in D!Deliveries : c # d => dHeard'[c] = dHeard[c]
      BY <2>1 DEF SendingTyped
    <3>2. \A c \in D!Deliveries : c # D!None
      BY DEF D!None, D!Deliveries
    <3>3. \A c \in D!Deliveries : InFlight(c) => InFlight(c)'
      BY <2>2, <2>4, <3>2 DEF InFlight
    <3> QED
      BY <3>1, <3>3
  <2>9. /\ sent = "unheard" => dHeard'[d] = dHeard[d]
        /\ sent # "unheard" => dHeard'[d] = dHeard[d] + 1 /\ InFlight(d)'
    <3>1. dHeard \in [D!Deliveries -> Nat] /\ sent \in {"accepted", "refused", "unheard"}
      BY <2>1 DEF SendingTyped
    <3>2. sent # "unheard" => InFlight(d)'
      BY <2>5, <3>1 DEF InFlight
    <3>3. sent # "unheard" => dHeard'[d] = dHeard[d] + 1
      BY <2>1, <2>3, <3>1
    <3> QED
      BY <2>1, <3>2, <3>3
  <2>10. HeardIsCounted'
    <3> SUFFICES ASSUME NEW c \in D!Deliveries
                 PROVE  /\ dDelivery[c].attempts <= DeliveryAttempts
                        /\ dDelivery[c].status = "pending" => dDelivery[c].attempts < DeliveryAttempts
                        /\ dDelivery[c].status = "absent" => dHeard'[c] = 0
                        /\ dHeard'[c] <= dDelivery[c].attempts + dCrashes + 1
                        /\ ~InFlight(c)' => dHeard'[c] <= dDelivery[c].attempts + dCrashes
      BY <2>2 DEF HeardIsCounted
    <3>1. CASE c = d
      BY <2>3, <2>7, <2>9, <3>1 DEF HeardIsCounted, SendingTyped, DeliveryRow
    <3>2. CASE c # d
      BY <2>8, <3>2 DEF HeardIsCounted
    <3> QED
      BY <3>1, <3>2
  <2>11. AcceptedWasHeard'
    <3>1. \A c \in D!Deliveries : dHeard[c] \in Nat /\ dHeard'[c] >= dHeard[c]
      BY <2>8, <2>9 DEF SendingTyped
    <3>2. sent = "accepted" => dHeard'[d] > 0
      BY <2>3, <2>9 DEF SendingTyped
    <3>3. \A v \in Workers : dWk[v].at # D!None => dWk[v].at \in D!Deliveries
      BY DEF SendingTyped, DeliverySession
    <3>4. \A c \in D!Deliveries : dHeard[c] > 0 => dHeard'[c] > 0
      BY <1>0, <3>1 DEF SendingTyped
    <3> QED
      BY <2>2, <2>4, <2>5, <3>2, <3>3, <3>4 DEF AcceptedWasHeard
  <2> QED
    BY <1>0, <2>6, <2>10, <2>11
<1>6. ASSUME NEW w \in Workers, D!Record(w) PROVE SendingInvariant'
  <2> DEFINE d == dWk[w].at
             sent == dWk[w].sent
  <2>1. /\ d # D!None
        /\ dDelivery' = [dDelivery EXCEPT ![d] = D!Outcome(d, sent)]
        /\ dWk' = [dWk EXCEPT ![w] = [batch |-> dWk[w].batch \ {d}, at |-> D!None, sent |-> "no"]]
        /\ UNCHANGED <<dHeard, dCrashes>>
    BY <1>6 DEF D!Record
  <2>2. d \in D!Deliveries /\ d \in dWk[w].batch /\ dDelivery[d].status = "pending"
    BY <2>1 DEF SendingTyped, DeliverySession, SendsFromItsBatch, BatchesArePutOff
  <2>3. \A v \in Workers : v # w => dWk'[v] = dWk[v] /\ d \notin dWk[v].batch /\ dWk[v].at # d
    BY <2>1, <2>2 DEF SendingTyped, BatchesAreApart, SendsFromItsBatch
  <2>4. dWk'[w] = [batch |-> dWk[w].batch \ {d}, at |-> D!None, sent |-> "no"]
    BY <2>1 DEF SendingTyped
  <2>5. dDelivery'[d] = D!Outcome(d, sent) /\ \A c \in D!Deliveries : c # d => dDelivery'[c] = dDelivery[c]
    BY <2>1, <2>2 DEF SendingTyped
  <2>6. \A v \in Workers : dWk[v].batch \subseteq D!Deliveries
    BY DEF SendingTyped, DeliverySession
  <2>7. /\ dDelivery'[d].attempts = dDelivery[d].attempts + 1
        /\ dDelivery'[d].status # "absent"
        /\ dDelivery'[d].status = "pending" => dDelivery[d].attempts + 1 < DeliveryAttempts
        /\ dDelivery'[d].status = "delivered" => sent = "accepted"
    <3>1. dDelivery[d].attempts \in Nat
      BY <2>2 DEF SendingTyped, DeliveryRow
    <3> QED
      BY <2>5, <3>1 DEF D!Outcome, D!Attempt
  <2> HIDE DEF d, sent
  <2>8. (BatchesArePutOff /\ BatchesAreApart /\ SendsFromItsBatch)'
    BY <2>3, <2>4, <2>5, <2>6 DEF BatchesArePutOff, BatchesAreApart, SendsFromItsBatch
  <2>9. MadeInOrder'
    BY <2>2, <2>5, <2>7 DEF MadeInOrder
  <2>10. HeardIsCounted'
    <3>1. \A c \in D!Deliveries : c # d => (InFlight(c) => InFlight(c)')
      BY <2>3, <2>4 DEF InFlight, d
    <3>2. dDelivery[d].attempts \in Nat /\ dHeard[d] \in Nat /\ dCrashes \in Nat
      BY <2>2 DEF SendingTyped, DeliveryRow
    <3>3. /\ dDelivery[d].attempts < DeliveryAttempts
          /\ dHeard[d] <= dDelivery[d].attempts + dCrashes + 1
      BY <2>2 DEF HeardIsCounted
    <3> SUFFICES ASSUME NEW c \in D!Deliveries
                 PROVE  /\ dDelivery'[c].attempts <= DeliveryAttempts
                        /\ dDelivery'[c].status = "pending" => dDelivery'[c].attempts < DeliveryAttempts
                        /\ dDelivery'[c].status = "absent" => dHeard[c] = 0
                        /\ dHeard[c] <= dDelivery'[c].attempts + dCrashes + 1
                        /\ ~InFlight(c)' => dHeard[c] <= dDelivery'[c].attempts + dCrashes
      BY <2>1 DEF HeardIsCounted
    <3>4. CASE c = d
      BY <2>7, <3>2, <3>3, <3>4
    <3>5. CASE c # d
      BY <2>5, <3>1, <3>5 DEF HeardIsCounted
    <3> QED
      BY <3>4, <3>5
  <2>11. AcceptedWasHeard'
    BY <2>1, <2>2, <2>3, <2>4, <2>5, <2>7 DEF AcceptedWasHeard, d, sent
  <2> QED
    BY <1>0, <2>8, <2>9, <2>10, <2>11
<1>7. ASSUME NEW w \in Workers, D!Crash(w) PROVE SendingInvariant'
  <2>1. dWk'[w] = D!Idle /\ \A v \in Workers : v # w => dWk'[v] = dWk[v]
    BY <1>7 DEF D!Crash, SendingTyped
  <2>2. dCrashes' = dCrashes + 1 /\ UNCHANGED <<dDelivery, dHeard>>
    BY <1>7 DEF D!Crash
  <2>3. (BatchesArePutOff /\ BatchesAreApart /\ SendsFromItsBatch /\ MadeInOrder /\ AcceptedWasHeard)'
    BY <2>1, <2>2 DEF BatchesArePutOff, BatchesAreApart, SendsFromItsBatch, MadeInOrder, AcceptedWasHeard, D!Idle
  <2>4. \A d \in D!Deliveries : dDelivery[d].attempts \in Nat /\ dHeard[d] \in Nat /\ dCrashes \in Nat
    BY DEF SendingTyped, DeliveryRow
  <2>5. HeardIsCounted'
    BY <2>2, <2>4 DEF HeardIsCounted
  <2> QED
    BY <1>0, <2>3, <2>5
<1> QED
  BY <1>1, <1>2, <1>3, <1>4, <1>5, <1>6, <1>7 DEF D!Delivers, D!Works

\* What is called delivered was heard, and nothing is heard more often than it may be
\* tried and workers died: for any number of workers, deliveries and replays.
LEMMA SendingHolds ==
  ASSUME D!DeliveryAssumption
  PROVE  /\ D!Init => SendingInvariant
         /\ SendingInvariant /\ [D!Next]_D!vars => SendingInvariant'
         /\ SendingInvariant => D!HeardAtLeastOnceAndNotForEver
<1>1. D!Init => SendingInvariant
  BY DEF D!DeliveryAssumption, D!Init, SendingInvariant, SendingTyped, DeliveryRow, DeliverySession, D!Absent, D!Idle, D!None, D!Deliveries,
     BatchesArePutOff, BatchesAreApart, SendsFromItsBatch, MadeInOrder, HeardIsCounted, AcceptedWasHeard
<1>2. SendingInvariant /\ [D!Next]_D!vars => SendingInvariant'
  <2> SUFFICES ASSUME SendingInvariant, [D!Next]_D!vars PROVE SendingInvariant'
    OBVIOUS
  <2>1. CASE UNCHANGED D!sending
    BY <2>1 DEF D!sending, SendingInvariant, SendingTyped, BatchesArePutOff, BatchesAreApart, SendsFromItsBatch,
         MadeInOrder, HeardIsCounted, InFlight, AcceptedWasHeard
  <2>2. UNCHANGED D!sending \/ D!Delivers
    BY DEF D!Next, D!vars, D!sending, D!signing, D!inbound, D!Signs, D!Update, D!RotateReads, D!RotateWrites, D!RotateFails, D!OverlapEnds, D!ReceiverMoves,
         D!TakesIn, D!UpdateInbound, D!Receive, D!Flush, D!CallCommits, D!CallFails
  <2> QED
    BY <2>1, <2>2, SendingKeepsInvariant
<1>3. SendingInvariant => D!HeardAtLeastOnceAndNotForEver
  <2> SUFFICES ASSUME SendingInvariant, NEW d \in D!Deliveries
               PROVE  dHeard[d] <= DeliveryAttempts + dCrashes
    BY DEF SendingInvariant, AcceptedWasHeard, D!HeardAtLeastOnceAndNotForEver
  <2>1. dDelivery[d].attempts \in Nat /\ dHeard[d] \in Nat /\ dCrashes \in Nat /\ DeliveryAttempts \in Nat
    BY DEF D!DeliveryAssumption, SendingInvariant, SendingTyped, DeliveryRow
  <2>2. CASE InFlight(d)
    <3>1. dDelivery[d].attempts < DeliveryAttempts
      BY <2>2 DEF InFlight, SendingInvariant, SendsFromItsBatch, BatchesArePutOff, HeardIsCounted, D!None, D!Deliveries
    <3> QED
      BY <2>1, <3>1 DEF SendingInvariant, HeardIsCounted
  <2>3. CASE ~InFlight(d)
    BY <2>1, <2>3 DEF SendingInvariant, HeardIsCounted
  <2> QED
    BY <2>2, <2>3
<1> QED
  BY <1>1, <1>2, <1>3

--------------------------------------------------------------------------------
(* The secret and its receiver.                                            *)

\* The receiver was told of the secret that signs now, whatever rotations overlapped.
SigningInvariant == SigningTyped /\ D!SignedForItsReceiver /\ dReceiver.told = dHook.current

\* A receiver that moves to the secret it was told, before it is rotated again and
\* while the overlap lasts, can check every delivery: for any rotations at once.
LEMMA SigningHolds ==
  ASSUME D!DeliveryAssumption
  PROVE  /\ D!Init => SigningInvariant
         /\ SigningInvariant /\ [D!Next]_D!vars => SigningInvariant'
<1>1. D!Init => SigningInvariant
  BY DEF D!DeliveryAssumption, D!Init, SigningInvariant, SigningTyped, D!Secrets, D!None, D!SignedForItsReceiver, D!SigningSecrets
<1>2. SigningInvariant /\ [D!Next]_D!vars => SigningInvariant'
  <2> SUFFICES ASSUME SigningInvariant, [D!Next]_D!vars PROVE SigningInvariant'
    OBVIOUS
  <2> USE DEF SigningInvariant
  <2>0. D!Signs => SigningTyped'
    BY SigningKeepsTypes
  <2>1. CASE D!Update
    <3>1. D!SignedForItsReceiver' /\ dReceiver'.told = dHook'.current
      BY <2>1 DEF D!Update, SigningTyped, D!SignedForItsReceiver, D!SigningSecrets
    <3> QED
      BY <2>0, <2>1, <3>1 DEF D!Signs
  <2>2. CASE D!OverlapEnds
    <3>1. D!SignedForItsReceiver' /\ dReceiver'.told = dHook'.current
      BY <2>2 DEF D!OverlapEnds, SigningTyped, D!SignedForItsReceiver, D!SigningSecrets, D!Secrets, D!None
    <3> QED
      BY <2>0, <2>2, <3>1 DEF D!Signs
  <2>3. CASE D!ReceiverMoves
    <3>1. D!SignedForItsReceiver' /\ dReceiver'.told = dHook'.current
      BY <2>3 DEF D!ReceiverMoves, SigningTyped, D!SignedForItsReceiver, D!SigningSecrets, D!Secrets, D!None
    <3> QED
      BY <2>0, <2>3, <3>1 DEF D!Signs
  <2>4. ASSUME NEW a \in Admins, NEW overlap \in BOOLEAN, D!RotateWrites(a, overlap) PROVE SigningInvariant'
    <3>1. D!SignedForItsReceiver' /\ dReceiver'.told = dHook'.current
      BY <2>4 DEF D!RotateWrites, D!Rotated, SigningTyped, D!SignedForItsReceiver, D!SigningSecrets, D!Secrets, D!None
    <3> QED
      BY <2>0, <2>4, <3>1 DEF D!Signs
  <2>5. ASSUME NEW a \in Admins, D!RotateReads(a) \/ D!RotateFails(a) PROVE SigningInvariant'
    BY <2>0, <2>5 DEF D!Signs, D!RotateReads, D!RotateFails, D!SignedForItsReceiver, D!SigningSecrets
  <2>6. CASE UNCHANGED D!signing
    BY <2>6 DEF D!signing, SigningTyped, D!SignedForItsReceiver, D!SigningSecrets
  <2>7. UNCHANGED D!signing \/ D!Signs
    BY DEF D!Next, D!vars, D!sending, D!signing, D!inbound, D!Delivers, D!Subscribed, D!Replay, D!ReplayFailed, D!TimePasses, D!Works, D!TakeDue, D!Send, D!Record, D!Crash,
         D!TakesIn, D!UpdateInbound, D!Receive, D!Flush, D!CallCommits, D!CallFails
  <2> QED
    BY <2>1, <2>2, <2>3, <2>4, <2>5, <2>6, <2>7 DEF D!Signs
<1> QED
  BY <1>1, <1>2

--------------------------------------------------------------------------------
(* What comes in.                                                          *)

\* Of an event at most one call holds a receipt that is not committed, and only while
\* there is none that is.
OneHolds ==
  /\ \A c \in Calls : dCall[c].at = "holds" => dCall[c].event \notin dReceipt
  /\ \A b, c \in Calls : b # c /\ dCall[b].at = "holds" /\ dCall[c].at = "holds" => dCall[b].event # dCall[c].event

\* The inductive invariant.
InboundInvariant == InboundTyped /\ D!TakenOnce /\ OneHolds

\* However many calls bring an event, overlap and fail, it starts one run at most, and
\* whoever was told it is in was told the truth.
LEMMA InboundHolds ==
  ASSUME D!DeliveryAssumption
  PROVE  /\ D!Init => InboundInvariant
         /\ InboundInvariant /\ [D!Next]_D!vars => InboundInvariant'
<1>1. D!Init => InboundInvariant
  BY DEF D!DeliveryAssumption, D!Init, InboundInvariant, InboundTyped, D!TakenOnce, OneHolds, D!NoCall
<1>2. InboundInvariant /\ [D!Next]_D!vars => InboundInvariant'
  <2> SUFFICES ASSUME InboundInvariant, [D!Next]_D!vars PROVE InboundInvariant'
    OBVIOUS
  <2> USE DEF InboundInvariant
  <2>0. D!TakesIn => InboundTyped'
    BY InboundKeepsTypes
  <2>1. CASE D!UpdateInbound
    BY <2>0, <2>1 DEF D!TakesIn, D!UpdateInbound, D!TakenOnce, OneHolds
  <2>2. ASSUME NEW c \in Calls, NEW e \in Incoming, D!Receive(c, e) PROVE InboundInvariant'
    <3>1. D!TakenOnce' /\ OneHolds'
      BY <2>2 DEF D!Receive, D!TakenOnce, OneHolds, InboundTyped, D!NoCall
    <3> QED
      BY <2>0, <2>2, <3>1 DEF D!TakesIn
  <2>3. ASSUME NEW c \in Calls, D!Flush(c) PROVE InboundInvariant'
    <3>1. dCall[c] \in [at : {"new", "holds"}, event : Incoming]
      BY <2>3 DEF D!Flush, InboundTyped, D!NoCall
    <3>2. D!TakenOnce' /\ OneHolds'
      BY <2>3, <3>1 DEF D!Flush, D!Held, D!TakenOnce, OneHolds, InboundTyped, D!NoCall
    <3> QED
      BY <2>0, <2>3, <3>2 DEF D!TakesIn
  <2>4. ASSUME NEW c \in Calls, D!CallCommits(c) PROVE InboundInvariant'
    <3>1. dCall[c] \in [at : {"new", "holds"}, event : Incoming]
      BY <2>4 DEF D!CallCommits, InboundTyped, D!NoCall
    <3>2. D!TakenOnce' /\ OneHolds'
      BY <2>4, <3>1 DEF D!CallCommits, D!TakenOnce, OneHolds, InboundTyped, D!NoCall
    <3> QED
      BY <2>0, <2>4, <3>2 DEF D!TakesIn
  <2>5. ASSUME NEW c \in Calls, D!CallFails(c) PROVE InboundInvariant'
    <3>1. D!TakenOnce' /\ OneHolds'
      BY <2>5 DEF D!CallFails, D!TakenOnce, OneHolds, InboundTyped, D!NoCall
    <3> QED
      BY <2>0, <2>5, <3>1 DEF D!TakesIn
  <2>6. CASE UNCHANGED D!inbound
    BY <2>6 DEF D!inbound, InboundTyped, D!TakenOnce, OneHolds
  <2>7. UNCHANGED D!inbound \/ D!TakesIn
    BY DEF D!Next, D!vars, D!sending, D!signing, D!inbound, D!Delivers, D!Subscribed, D!Replay, D!ReplayFailed, D!TimePasses, D!Works, D!TakeDue, D!Send, D!Record, D!Crash,
         D!Signs, D!Update, D!RotateReads, D!RotateWrites, D!RotateFails, D!OverlapEnds, D!ReceiverMoves
  <2> QED
    BY <2>1, <2>2, <2>3, <2>4, <2>5, <2>6, <2>7 DEF D!TakesIn
<1> QED
  BY <1>1, <1>2

--------------------------------------------------------------------------------
DeliveriesInvariant == SendingInvariant /\ SigningInvariant /\ InboundInvariant

LEMMA DeliveriesStart == D!Init => DeliveriesInvariant
BY ServicesAssumption, SendingHolds, SigningHolds, InboundHolds DEF DeliveriesInvariant

LEMMA DeliveriesStep ==
  ASSUME DeliveriesInvariant, [D!Next]_D!vars
  PROVE  DeliveriesInvariant'
BY ServicesAssumption, SendingHolds, SigningHolds, InboundHolds DEF DeliveriesInvariant

LEMMA DeliveriesHold ==
  DeliveriesInvariant => D!HeardAtLeastOnceAndNotForEver /\ D!SignedForItsReceiver /\ D!TakenOnce
BY ServicesAssumption, SendingHolds DEF DeliveriesInvariant, SigningInvariant, InboundInvariant

LEMMA DeliveriesTypes == DeliveriesInvariant => D!TypeOK
<1> SUFFICES ASSUME DeliveriesInvariant PROVE D!TypeOK
  OBVIOUS
<1>0. D!DeliveryAssumption /\ SendingInvariant /\ SigningTyped /\ InboundTyped
  BY ServicesAssumption DEF DeliveriesInvariant, SigningInvariant, InboundInvariant
<1>1. dDelivery \in [D!Deliveries -> [status : {"absent", "pending", "delivered", "failed", "replayed"},
                                     attempts : 0..DeliveryAttempts, next : {"due", "later", "never"}]]
  BY <1>0 DEF D!DeliveryAssumption, SendingInvariant, SendingTyped, DeliveryRow, HeardIsCounted
<1> QED
  BY <1>0, <1>1 DEF D!TypeOK, SendingInvariant, SendingTyped, SigningTyped, InboundTyped, DeliverySession

--------------------------------------------------------------------------------
(* What the steps do to sequences.                                         *)

LEMMA Appended ==
  ASSUME NEW S, NEW s \in Seq(S), NEW e \in S, NEW t, t = Append(s, e)
  PROVE  /\ t \in Seq(S) /\ Len(s) \in Nat /\ Len(t) = Len(s) + 1
         /\ DOMAIN s = 1..Len(s) /\ DOMAIN t = 1..(Len(s) + 1)
         /\ \A i \in DOMAIN s : t[i] = s[i]
         /\ t[Len(s) + 1] = e
OBVIOUS

LEMMA Rewritten ==
  ASSUME NEW S, NEW s \in Seq(S), NEW t \in [DOMAIN s -> S]
  PROVE  t \in Seq(S) /\ Len(t) = Len(s) /\ DOMAIN t = DOMAIN s /\ Len(s) \in Nat /\ DOMAIN s = 1..Len(s)
<1>1. Len(s) \in Nat /\ DOMAIN s = 1..Len(s)
  OBVIOUS
<1>2. t \in [1..Len(s) -> S]
  BY <1>1
<1>3. t \in Seq(S)
  BY <1>1, <1>2
<1>4. Len(t) = Len(s)
  BY <1>1, <1>2, <1>3
<1> QED
  BY <1>1, <1>2, <1>3, <1>4

LEMMA Replaced ==
  ASSUME NEW S, NEW s \in Seq(S), NEW i \in DOMAIN s, NEW e \in S, NEW t, t = [s EXCEPT ![i] = e]
  PROVE  /\ t \in Seq(S) /\ Len(t) = Len(s) /\ DOMAIN t = DOMAIN s
         /\ t[i] = e /\ \A j \in DOMAIN s : j # i => t[j] = s[j]
<1>1. t \in [DOMAIN s -> S]
  OBVIOUS
<1> QED
  BY <1>1, Rewritten

LEMMA Elements ==
  ASSUME NEW S, NEW s \in Seq(S)
  PROVE  Len(s) \in Nat /\ DOMAIN s = 1..Len(s) /\ \A i \in DOMAIN s : s[i] \in S
OBVIOUS

\* A finite set of integers has a greatest element.
LEMMA HasGreatest ==
  ASSUME NEW S, S \subseteq Int, IsFiniteSet(S), S # {}
  PROVE  \E x \in S : \A y \in S : y <= x
<1> DEFINE Above(x) == {y \in S : x < y}
           Sets == {Above(x) : x \in S}
<1>1. Sets # {} /\ Sets \subseteq FiniteSubsetsOf(S)
  <2>1. Sets # {}
    OBVIOUS
  <2>2. \A U \in Sets : U \in SUBSET S
    OBVIOUS
  <2> QED
    BY <2>1, <2>2, FS_FiniteSubsetsOfFinite
<1>2. PICK U \in Sets : \A V \in Sets : <<V, U>> \notin StrictSubsetOrdering(S)
  <2> HIDE DEF Sets
  <2> QED
    BY <1>1, FS_StrictSubsetOrderingWellFounded, WFMin
<1>3. PICK x \in S : U = Above(x)
  OBVIOUS
<1>4. \A y \in S : y <= x
  <2> SUFFICES ASSUME NEW y \in S, x < y PROVE FALSE
    OBVIOUS
  <2>1. Above(y) \in Sets
    OBVIOUS
  <2>2. y \in U /\ y \notin Above(y)
    BY <1>3
  <2>3. Above(y) \subseteq U /\ U \subseteq S
    <3>1. \A z \in S : x < y /\ y < z => x < z
      <4> x \in Int /\ y \in Int /\ \A z \in S : z \in Int
        OBVIOUS
      <4> QED
        OBVIOUS
    <3> QED
      BY <1>3, <3>1
  <2>4. <<Above(y), U>> \in StrictSubsetOrdering(S)
    <3> HIDE DEF Above
    <3> QED
      BY <2>2, <2>3 DEF StrictSubsetOrdering
  <2> QED
    BY <1>2, <2>1, <2>4
<1> QED
  BY <1>4

\* A set of natural numbers that is not empty has a least element.
LEMMA HasLeast ==
  ASSUME NEW S, S \subseteq Nat, S # {}
  PROVE  \E x \in S : \A y \in S : x <= y
<1>1. PICK n \in S : TRUE
  OBVIOUS
<1> DEFINE Below == {-x : x \in {y \in S : y <= n}}
<1>2. Below \subseteq (-n)..0 /\ Below # {}
  <2>1. n \in Nat /\ n <= n
    BY <1>1
  <2>2. -n \in Below
    BY <1>1, <2>1
  <2>3. ASSUME NEW z \in Below PROVE z \in (-n)..0
    <3>1. PICK y \in S : y <= n /\ z = -y
      BY <2>3
    <3>2. y \in Nat
      BY <3>1
    <3> HIDE DEF Below
    <3> QED
      BY <2>1, <3>1, <3>2
  <2> HIDE DEF Below
  <2> QED
    BY <2>2, <2>3
<1>3. IsFiniteSet((-n)..0)
  BY <1>1, FS_Interval
<1>4. Below \subseteq Int /\ IsFiniteSet(Below)
  BY <1>2, <1>3, FS_Subset
<1>5. PICK m \in Below : \A y \in Below : y <= m
  <2> HIDE DEF Below
  <2> QED
    BY <1>2, <1>4, HasGreatest
<1>6. PICK x \in S : x <= n /\ m = -x
  OBVIOUS
<1>7. ASSUME NEW y \in S PROVE x <= y
  <2>1. CASE y <= n
    <3>1. -y \in Below
      BY <2>1
    <3>2. -y <= -x
      BY <1>5, <1>6, <3>1
    <3> x \in Nat /\ y \in Nat
      OBVIOUS
    <3> QED
      BY <3>2
  <2>2. CASE ~(y <= n)
    <3> x \in Nat /\ y \in Nat /\ n \in Nat
      OBVIOUS
    <3> QED
      BY <1>6, <2>2
  <2> QED
    BY <2>1, <2>2
<1> QED
  BY <1>7

LEMMA Joined ==
  ASSUME NEW S, NEW s \in Seq(S), NEW t \in Seq(S), NEW u, u = s \o t
  PROVE  /\ u \in Seq(S) /\ Len(s) \in Nat /\ DOMAIN s \subseteq DOMAIN u
         /\ \A i \in DOMAIN s : u[i] = s[i]
         /\ \A i \in DOMAIN u \ DOMAIN s : i - Len(s) \in DOMAIN t /\ u[i] = t[i - Len(s)] /\ i = (i - Len(s)) + Len(s)
OBVIOUS

--------------------------------------------------------------------------------
(* Company rules: one month, one rule.                                     *)

RuleRow ==
  [key : RuleKeys, demand : Demands, from : M!Months, to : {M!Open} \cup M!Months,
   status : {"draft", "pending", "published", "retired"}]

RulesTyped == mRule \in Seq(RuleRow) /\ mExtended \in BOOLEAN

\* Of the versions that are dated no two contradict one another.
DatedAgree == ~mExtended => \A u, v \in M!Dated : ~M!Contradict(u, v)

\* The inductive invariant.
RulesInvariant == RulesTyped /\ DatedAgree

\* v is the latest to start of those of its key that have, and has not ended.
Leads(key, m, v) ==
  /\ v \in M!Dated /\ mRule[v].key = key /\ mRule[v].from <= m
  /\ \A u \in M!Dated \ {v} : mRule[u].key = key /\ mRule[u].from <= m => M!StartsAfter(v, u)
  /\ ~M!EndsBefore(v, m)

\* Whoever leads governs, and whoever governs leads.
LeadersGovern ==
  \A key \in RuleKeys, m \in M!Months :
    /\ M!Governs(key, m) # M!NoRule => Leads(key, m, M!Governs(key, m))
    /\ \A v \in M!Dated : Leads(key, m, v) => M!Governs(key, m) = v

LEMMA RuleFacts ==
  ASSUME RulesTyped
  PROVE  /\ M!Dated \subseteq M!Versions /\ M!Versions = 1..Len(mRule) /\ Len(mRule) \in Nat
         /\ \A v \in M!Versions : /\ mRule[v] \in RuleRow
                                  /\ v \in Nat /\ v # M!NoRule
                                  /\ mRule[v].from \in Nat /\ mRule[v].to \in Nat
<1>1. M!Versions = 1..Len(mRule) /\ Len(mRule) \in Nat /\ \A v \in M!Versions : mRule[v] \in RuleRow
  BY DEF RulesTyped, M!Versions
<1>2. \A row \in RuleRow : row.from \in Nat /\ row.to \in Nat
  <2>1. M!Months \subseteq Nat /\ M!Open \in Nat
    BY DEF M!Months, M!Open
  <2> QED
    BY <2>1 DEF RuleRow
<1>3. M!Dated \subseteq M!Versions
  BY DEF M!Dated
<1> QED
  BY <1>1, <1>2, <1>3 DEF M!NoRule

LEMMA LeadersDoGovern == RulesTyped => LeadersGovern
<1> SUFFICES ASSUME RulesTyped, NEW key \in RuleKeys, NEW m \in M!Months
             PROVE  /\ M!Governs(key, m) # M!NoRule => Leads(key, m, M!Governs(key, m))
                    /\ \A v \in M!Dated : Leads(key, m, v) => M!Governs(key, m) = v
  BY DEF LeadersGovern
<1> DEFINE started == {v \in M!Dated : mRule[v].key = key /\ mRule[v].from <= m}
           latest == {v \in started : \A u \in started \ {v} : M!StartsAfter(v, u)}
           lasting == {v \in latest : ~M!EndsBefore(v, m)}
<1>1. M!Governs(key, m) = IF lasting = {} THEN M!NoRule ELSE CHOOSE v \in lasting : TRUE
  BY DEF M!Governs
<1>2. \A v : v \in lasting <=> Leads(key, m, v)
  BY DEF Leads
<1>3. \A u, v \in lasting : u = v
  <2> SUFFICES ASSUME NEW u \in lasting, NEW v \in lasting, u # v PROVE FALSE
    OBVIOUS
  <2>1. M!StartsAfter(u, v) /\ M!StartsAfter(v, u)
    OBVIOUS
  <2>2. u \in M!Versions /\ v \in M!Versions
    BY RuleFacts
  <2> QED
    BY <2>1, <2>2, RuleFacts DEF M!StartsAfter
<1> HIDE DEF lasting
<1>4. lasting # {} => M!Governs(key, m) \in lasting
  BY <1>1
<1>5. M!Governs(key, m) # M!NoRule => M!Governs(key, m) \in lasting
  BY <1>1, <1>4
<1>6. ASSUME NEW v \in M!Dated, Leads(key, m, v) PROVE M!Governs(key, m) = v
  BY <1>2, <1>3, <1>4, <1>6
<1> QED
  BY <1>2, <1>5, <1>6

\* What a step does to the versions there are: it adds a draft, moves one that is in
\* force to nowhere, or publishes or retires one.
Drafts ==
  /\ mExtended' = mExtended
  /\ M!Dated' = M!Dated
  /\ \A v \in M!Dated : mRule'[v] = mRule[v]

LEMMA DraftsAreNotDated ==
  ASSUME RulesTyped, M!Create \/ \E v \in M!Versions : M!Clone(v) \/ M!Rollback(v) \/ M!Submit(v) \/ M!ReturnToDraft(v)
  PROVE  RulesTyped' /\ Drafts
<1>1. ASSUME NEW key \in RuleKeys, NEW demand \in Demands, NEW from \in M!Months, NEW to \in {M!Open} \cup M!Months,
             M!NewDraft(key, demand, from, to)
      PROVE  RulesTyped' /\ Drafts
  <2>1. PICK row : row = [key |-> key, demand |-> demand, from |-> from, to |-> to, status |-> "draft"]
    OBVIOUS
  <2>2. row \in RuleRow /\ row.status = "draft"
    BY <2>1 DEF RuleRow
  <2>3. mRule' = Append(mRule, row) /\ mExtended' = mExtended
    BY <1>1, <2>1 DEF M!NewDraft
  <2>4. RulesTyped'
    BY <2>2, <2>3 DEF RulesTyped
  <2>5. DOMAIN mRule' = 1..(Len(mRule) + 1) /\ DOMAIN mRule = 1..Len(mRule) /\ Len(mRule) \in Nat
    BY <2>2, <2>3 DEF RulesTyped
  <2>6. \A v \in DOMAIN mRule : mRule'[v] = mRule[v]
    BY <2>2, <2>3, <2>5 DEF RulesTyped
  <2>7. mRule'[Len(mRule) + 1] = row
    BY <2>2, <2>3, <2>5 DEF RulesTyped
  <2>8. M!Dated' = M!Dated
    BY <2>2, <2>5, <2>6, <2>7 DEF M!Dated, M!Versions
  <2> QED
    BY <2>3, <2>4, <2>6, <2>8 DEF Drafts, M!Dated, M!Versions
<1>2. ASSUME NEW v \in M!Versions, NEW from \in {"draft", "pending"}, NEW to \in {"draft", "pending"}, M!Moves(v, from, to)
      PROVE  RulesTyped' /\ Drafts
  <2>1. mRule' = [mRule EXCEPT ![v].status = to] /\ mRule[v].status = from /\ mExtended' = mExtended
    BY <1>2 DEF M!Moves
  <2>2. PICK row : row = [mRule[v] EXCEPT !.status = to]
    OBVIOUS
  <2>3. row \in RuleRow /\ row.status = to /\ v \in DOMAIN mRule
    BY <2>2, RuleFacts DEF RuleRow, M!Versions
  <2>4. mRule' = [mRule EXCEPT ![v] = row]
    BY <2>1, <2>2
  <2>5. RulesTyped' /\ DOMAIN mRule' = DOMAIN mRule
    BY <2>1, <2>3, <2>4 DEF RulesTyped
  <2>6. \A u \in DOMAIN mRule : u # v => mRule'[u] = mRule[u]
    BY <2>4
  <2>7. mRule'[v] = row
    BY <2>3, <2>4
  <2>8. M!Dated' = M!Dated
    BY <2>1, <2>3, <2>5, <2>6, <2>7 DEF M!Dated, M!Versions
  <2> QED
    BY <2>1, <2>5, <2>6, <2>8 DEF Drafts, M!Dated, M!Versions
<1>3. CASE M!Create
  BY <1>1, <1>3 DEF M!Create
<1>4. ASSUME NEW v \in M!Versions, M!Clone(v) \/ M!Rollback(v) PROVE RulesTyped' /\ Drafts
  <2>1. /\ mRule[v].key \in RuleKeys /\ mRule[v].demand \in Demands /\ mRule[v].from \in M!Months
        /\ mRule[v].to \in {M!Open} \cup M!Months
    BY RuleFacts DEF RuleRow
  <2> QED
    BY <1>1, <1>4, <2>1 DEF M!Clone, M!Rollback
<1>5. ASSUME NEW v \in M!Versions, M!Submit(v) \/ M!ReturnToDraft(v) PROVE RulesTyped' /\ Drafts
  BY <1>2, <1>5 DEF M!Submit, M!ReturnToDraft
<1> QED
  BY <1>3, <1>4, <1>5

LEMMA Publishes ==
  ASSUME RulesTyped, NEW v \in M!Versions, M!Publish(v)
  PROVE  /\ RulesTyped' /\ mExtended' = mExtended
         /\ v \notin M!Dated /\ M!Dated' = M!Dated \cup {v}
         /\ \A u \in M!Versions : /\ mRule'[u].key = mRule[u].key /\ mRule'[u].from = mRule[u].from
                                  /\ mRule'[u].to = mRule[u].to /\ mRule'[u].demand = mRule[u].demand
<1>1. mRule' = [mRule EXCEPT ![v].status = "published"] /\ mRule[v].status = "pending" /\ mExtended' = mExtended
  BY DEF M!Publish, M!Moves
<1>2. PICK row : row = [mRule[v] EXCEPT !.status = "published"]
  OBVIOUS
<1>3. /\ row \in RuleRow /\ row.status = "published" /\ v \in DOMAIN mRule
      /\ row.key = mRule[v].key /\ row.from = mRule[v].from /\ row.to = mRule[v].to /\ row.demand = mRule[v].demand
  BY <1>2, RuleFacts DEF RuleRow, M!Versions
<1>4. mRule' = [mRule EXCEPT ![v] = row]
  BY <1>1, <1>2
<1>5. RulesTyped' /\ DOMAIN mRule' = DOMAIN mRule
  BY <1>1, <1>3, <1>4 DEF RulesTyped
<1>6. (\A u \in DOMAIN mRule : u # v => mRule'[u] = mRule[u]) /\ mRule'[v] = row
  BY <1>3, <1>4
<1>7. v \notin M!Dated /\ M!Dated' = M!Dated \cup {v}
  BY <1>1, <1>3, <1>5, <1>6 DEF M!Dated, M!Versions
<1> QED
  BY <1>1, <1>3, <1>5, <1>6, <1>7 DEF M!Versions

LEMMA Retires ==
  ASSUME RulesTyped, NEW v \in M!Versions, M!Retire(v)
  PROVE  /\ RulesTyped' /\ v \in M!Dated /\ M!Dated' = M!Dated
         /\ mRule'[v].to \in M!Months /\ mRule'[v].status = "retired"
         /\ mExtended' = (mExtended \/ M!EndsBefore(v, mRule'[v].to))
         /\ \A u \in M!Versions : /\ mRule'[u].key = mRule[u].key /\ mRule'[u].from = mRule[u].from
                                  /\ mRule'[u].demand = mRule[u].demand
                                  /\ u # v => mRule'[u].to = mRule[u].to
<1>1. PICK to \in M!Months : /\ mRule' = [mRule EXCEPT ![v].status = "retired", ![v].to = to]
                             /\ mExtended' = (mExtended \/ M!EndsBefore(v, to))
  BY DEF M!Retire
<1>2. PICK row : row = [mRule[v] EXCEPT !.status = "retired", !.to = to]
  OBVIOUS
<1>3. /\ row \in RuleRow /\ row.status = "retired" /\ row.to = to /\ v \in DOMAIN mRule
      /\ row.key = mRule[v].key /\ row.from = mRule[v].from /\ row.demand = mRule[v].demand
  BY <1>2, RuleFacts DEF RuleRow, M!Versions
<1>4. mRule' = [mRule EXCEPT ![v] = row]
  BY <1>1, <1>2
<1>5. mExtended \in BOOLEAN /\ mExtended' \in BOOLEAN
  BY <1>1, Zenon DEF RulesTyped
<1>6. RulesTyped' /\ DOMAIN mRule' = DOMAIN mRule
  BY <1>3, <1>4, <1>5 DEF RulesTyped
<1>7. (\A u \in DOMAIN mRule : u # v => mRule'[u] = mRule[u]) /\ mRule'[v] = row
  BY <1>3, <1>4
<1>8. v \in M!Dated /\ M!Dated' = M!Dated
  BY <1>3, <1>6, <1>7 DEF M!Dated, M!Versions, M!Retire
<1>9. mExtended' = (mExtended \/ M!EndsBefore(v, mRule'[v].to))
  BY <1>1, <1>3, <1>7, Zenon
<1> QED
  BY <1>3, <1>6, <1>7, <1>8, <1>9 DEF M!Versions

LEMMA RulesStep ==
  ASSUME RulesInvariant, [M!Next]_M!vars
  PROVE  RulesInvariant'
<1> USE DEF RulesInvariant
<1>1. CASE M!Create \/ \E v \in M!Versions : M!Clone(v) \/ M!Rollback(v) \/ M!Submit(v) \/ M!ReturnToDraft(v)
  <2>1. RulesTyped' /\ Drafts
    BY <1>1, DraftsAreNotDated
  <2>2. DatedAgree'
    BY <2>1 DEF Drafts, DatedAgree, M!Contradict, M!DatesOverlap, M!EndsBefore
  <2> QED
    BY <2>1, <2>2
<1>2. ASSUME NEW v \in M!Versions, M!Publish(v) PROVE RulesInvariant'
  <2>1. \A u \in M!Dated : ~M!Contradict(u, v) /\ ~M!Contradict(v, u)
    BY <1>2, Publishes DEF M!Publish, M!Others, M!Contradict, M!DatesOverlap
  <2>2. ~M!Contradict(v, v)
    BY DEF M!Contradict
  <2>3. \A u, w \in M!Versions : M!Contradict(u, w)' <=> M!Contradict(u, w)
    BY <1>2, Publishes DEF M!Contradict, M!DatesOverlap, M!EndsBefore
  <2>4. DatedAgree'
    BY <1>2, <2>1, <2>2, <2>3, Publishes, RuleFacts DEF DatedAgree
  <2> QED
    BY <1>2, <2>4, Publishes
<1>3. ASSUME NEW v \in M!Versions, M!Retire(v) PROVE RulesInvariant'
  <2>1. RulesTyped' /\ M!Dated' = M!Dated /\ M!Dated \subseteq M!Versions
    BY <1>3, Retires, RuleFacts
  <2>2. CASE mExtended'
    BY <2>1, <2>2 DEF DatedAgree
  <2>3. CASE ~mExtended'
    <3>1. ~mExtended /\ ~M!EndsBefore(v, mRule'[v].to)
      BY <1>3, <2>3, Retires
    <3>2. \A m \in Nat : M!EndsBefore(v, m) => M!EndsBefore(v, m)'
      <4>1. mRule'[v].to \in Nat /\ mRule'[v].to # M!Open /\ mRule[v].to \in Nat
        BY <1>3, Retires, RuleFacts DEF M!Months, M!Open
      <4> QED
        BY <3>1, <4>1 DEF M!EndsBefore
    <3>3. \A u \in M!Versions, m \in Nat : M!EndsBefore(u, m) => M!EndsBefore(u, m)'
      BY <1>3, <3>2, Retires DEF M!EndsBefore
    <3>4. \A u, w \in M!Versions : M!Contradict(u, w)' => M!Contradict(u, w)
      BY <1>3, <3>3, Retires, RuleFacts DEF M!Contradict, M!DatesOverlap
    <3> QED
      BY <2>1, <3>1, <3>4 DEF DatedAgree
  <2> QED
    BY <2>2, <2>3
<1>4. CASE UNCHANGED M!vars
  BY <1>4 DEF M!vars, RulesTyped, DatedAgree, M!Contradict, M!DatesOverlap, M!EndsBefore, M!Dated, M!Versions
<1> QED
  BY <1>1, <1>2, <1>3, <1>4 DEF M!Next

LEMMA RulesStart == M!Init => RulesInvariant
<1> SUFFICES ASSUME M!Init PROVE RulesInvariant
  OBVIOUS
<1>1. mRule = <<>> /\ mExtended = FALSE
  BY DEF M!Init
<1>2. mRule \in Seq(RuleRow) /\ DOMAIN mRule = {}
  BY <1>1
<1>3. M!Dated = {}
  BY <1>2 DEF M!Dated, M!Versions
<1> QED
  BY <1>1, <1>2, <1>3 DEF RulesInvariant, RulesTyped, DatedAgree

LEMMA RulesAgree == RulesInvariant => M!NoMonthContradictsItself
<1> SUFFICES ASSUME RulesInvariant, ~mExtended, NEW m \in M!Months, NEW k \in RuleKeys, NEW l \in RuleKeys, k # l,
                    M!Governs(k, m) # M!NoRule, M!Governs(l, m) # M!NoRule
             PROVE  mRule[M!Governs(k, m)].demand = mRule[M!Governs(l, m)].demand
  BY DEF M!NoMonthContradictsItself
<1>1. PICK u : u = M!Governs(k, m)
  OBVIOUS
<1>2. PICK v : v = M!Governs(l, m)
  OBVIOUS
<1>3. Leads(k, m, u) /\ Leads(l, m, v)
  BY <1>1, <1>2, LeadersDoGovern DEF LeadersGovern, RulesInvariant
<1>4. u \in M!Dated /\ v \in M!Dated /\ m \in Nat
  BY <1>3 DEF Leads, M!Months
<1>5. ~M!Contradict(u, v)
  BY <1>4 DEF RulesInvariant, DatedAgree
<1>6. M!DatesOverlap(u, v)
  BY <1>3, <1>4, RuleFacts DEF RulesInvariant, Leads, M!DatesOverlap, M!EndsBefore
<1> QED
  BY <1>1, <1>2, <1>3, <1>5, <1>6 DEF Leads, M!Contradict

\* A month's rule gives way as OldMonthsKeepTheirRule says.
GivesWay(key, m) ==
  LET v == M!Governs(key, m)
  IN (v # M!NoRule /\ M!Governs(key, m)' # v) =>
       \/ \E u \in M!Dated' \ M!Dated : mRule[u].key = key /\ mRule[u].from <= m /\ M!StartsAfter(u, v)
       \/ mRule'[v].status = "retired" /\ mRule'[v].to < m

LEMMA RulesGiveWay ==
  ASSUME RulesInvariant, [M!Next]_M!vars
  PROVE  \A key \in RuleKeys, m \in M!Months : GivesWay(key, m)
<1> SUFFICES ASSUME NEW key \in RuleKeys, NEW m \in M!Months, NEW v, v = M!Governs(key, m),
                    v # M!NoRule, M!Governs(key, m)' # v
             PROVE  \/ \E u \in M!Dated' \ M!Dated : mRule[u].key = key /\ mRule[u].from <= m /\ M!StartsAfter(u, v)
                    \/ mRule'[v].status = "retired" /\ mRule'[v].to < m
  BY DEF GivesWay
<1> USE DEF RulesInvariant
<1>1. (RulesTyped => LeadersGovern)'
  BY LeadersDoGovern, PTL
<1>2. RulesTyped'
  BY RulesStep
<1>3. Leads(key, m, v) /\ v \in M!Dated
  BY LeadersDoGovern DEF LeadersGovern, Leads
<1>4. v \in M!Dated' => ~Leads(key, m, v)'
  BY <1>1, <1>2 DEF LeadersGovern
<1>5. m \in Nat /\ v \in M!Versions
  BY <1>3, RuleFacts DEF M!Months
<1>6. CASE M!Create \/ \E u \in M!Versions : M!Clone(u) \/ M!Rollback(u) \/ M!Submit(u) \/ M!ReturnToDraft(u)
  <2>1. Drafts
    BY <1>6, DraftsAreNotDated
  <2> QED
    BY <1>3, <1>4, <2>1 DEF Drafts, Leads, M!StartsAfter, M!EndsBefore
<1>7. ASSUME NEW w \in M!Versions, M!Publish(w)
      PROVE  \E u \in M!Dated' \ M!Dated : mRule[u].key = key /\ mRule[u].from <= m /\ M!StartsAfter(u, v)
  <2>1. w \in M!Dated' \ M!Dated /\ M!Dated' = M!Dated \cup {w} /\ w # v
    BY <1>3, <1>7, Publishes
  <2> SUFFICES ASSUME ~(mRule[w].key = key /\ mRule[w].from <= m /\ M!StartsAfter(w, v))
               PROVE  FALSE
    BY <2>1
  <2>2. mRule[w].key = key /\ mRule[w].from <= m => M!StartsAfter(v, w)
    BY <1>5, <2>1, RuleFacts DEF M!StartsAfter
  <2>3. \A u \in M!Versions : M!StartsAfter(v, u)' <=> M!StartsAfter(v, u)
    BY <1>5, <1>7, Publishes DEF M!StartsAfter
  <2>4. M!EndsBefore(v, m)' <=> M!EndsBefore(v, m)
    BY <1>5, <1>7, Publishes DEF M!EndsBefore
  <2>5. Leads(key, m, v)'
    BY <1>3, <1>5, <1>7, <2>1, <2>2, <2>3, <2>4, Publishes, RuleFacts DEF Leads
  <2> QED
    BY <1>3, <1>4, <2>1, <2>5
<1>8. ASSUME NEW w \in M!Versions, M!Retire(w)
      PROVE  mRule'[v].status = "retired" /\ mRule'[v].to < m
  <2>1. M!Dated' = M!Dated
    BY <1>8, Retires
  <2>2. \A u \in M!Versions : M!StartsAfter(v, u)' <=> M!StartsAfter(v, u)
    BY <1>5, <1>8, Retires DEF M!StartsAfter
  <2>3. M!EndsBefore(v, m)'
    BY <1>3, <1>4, <1>5, <1>8, <2>1, <2>2, Retires, RuleFacts DEF Leads
  <2>4. w = v
    BY <1>3, <1>5, <1>8, <2>3, Retires DEF Leads, M!EndsBefore
  <2> QED
    BY <1>8, <2>3, <2>4, Retires DEF M!EndsBefore
<1>9. CASE UNCHANGED M!vars
  <2>1. M!Governs(key, m)' = M!Governs(key, m)
    BY <1>9 DEF M!vars, M!Governs, M!Dated, M!Versions, M!StartsAfter, M!EndsBefore
  <2> QED
    BY <2>1
<1> QED
  BY <1>6, <1>7, <1>8, <1>9 DEF M!Next

--------------------------------------------------------------------------------
(* Releases: a rollback restores.                                          *)

VersionRow == [spec : Specs \cup {"none"}, from : L!From, status : {"draft", "published", "retired"}]

ReleaseRow ==
  [status : {"draft", "awaiting_approval", "approved", "rejected", "promoted"}, kind : {"mapping", "retire"},
   spec : Specs \cup {"none"}, from : L!From, made : Nat, of : Nat, prev : Nat,
   outcome : {"none", "unchanged", "published", "retired"}, alone : BOOLEAN]

ReleasesTyped ==
  /\ lVersion \in Seq(VersionRow)
  /\ lRel \in Seq(ReleaseRow)
  /\ lLater \in BOOLEAN
  /\ \A r \in DOMAIN lRel : lRel[r].prev <= Len(lVersion) /\ lRel[r].made <= Len(lVersion)

\* What a release found in force is no draft, and took effect: it stays what it was.
FoundInForce ==
  \A r \in DOMAIN lRel : lRel[r].prev # 0 =>
    /\ lVersion[lRel[r].prev].status # "draft"
    /\ lVersion[lRel[r].prev].from = "now" \/ lLater

\* A rollback carries what the release that it takes back had found.
CarriesBack(b) ==
  LET r == lRel[b].of IN
  /\ r \in DOMAIN lRel
  /\ lRel[r].status = "promoted" /\ lRel[r].outcome = "published"
  /\ lRel[r].prev = 0 => lRel[b].kind = "retire" /\ lRel[b].made = lRel[r].made
  /\ lRel[r].prev # 0 => /\ lRel[b].kind = "mapping"
                         /\ lRel[b].spec = lVersion[lRel[r].prev].spec
                         /\ lRel[b].from = lVersion[lRel[r].prev].from

RollbacksCarryBack == \A b \in DOMAIN lRel : lRel[b].of # 0 => CarriesBack(b)

\* Where nothing was in force, and nothing has changed since, only what the release made is.
AloneInForce ==
  \A r \in DOMAIN lRel : lRel[r].alone /\ lRel[r].outcome = "published" /\ lRel[r].prev = 0 =>
    \A v \in DOMAIN lVersion : L!Effective(v) => v = lRel[r].made

\* The inductive invariant.
ReleasesInvariant == ReleasesTyped /\ FoundInForce /\ RollbacksCarryBack /\ AloneInForce

\* What is in force is the greatest of the effective versions, where there is one.
GreatestInForce ==
  /\ L!InForce # 0 => L!InForce \in DOMAIN lVersion /\ L!Effective(L!InForce)
  /\ L!InForce = 0 => \A v \in DOMAIN lVersion : ~L!Effective(v)
  /\ (\A v \in DOMAIN lVersion : ~L!Effective(v)) => L!InForce = 0
  /\ \A v \in DOMAIN lVersion :
       L!Effective(v) /\ (\A u \in DOMAIN lVersion : L!Effective(u) => u <= v) => L!InForce = v

LEMMA GreatestIsInForce == ReleasesTyped => GreatestInForce
<1> SUFFICES ASSUME ReleasesTyped PROVE GreatestInForce
  OBVIOUS
<1> DEFINE good == {v \in DOMAIN lVersion : L!Effective(v)}
           top(v) == L!Effective(v) /\ \A u \in DOMAIN lVersion : L!Effective(u) => u <= v
<1>1. DOMAIN lVersion = 1..Len(lVersion) /\ Len(lVersion) \in Nat
  BY Elements DEF ReleasesTyped
<1>2. good \subseteq Int /\ IsFiniteSet(good)
  <2>1. IsFiniteSet(DOMAIN lVersion) /\ DOMAIN lVersion \subseteq Int
    BY <1>1, FS_Interval
  <2>2. good \subseteq DOMAIN lVersion
    OBVIOUS
  <2> QED
    BY <2>1, <2>2, FS_Subset
<1>3. good # {} => \E v \in DOMAIN lVersion : top(v)
  BY <1>2, HasGreatest
<1>4. \A u, v \in DOMAIN lVersion : top(u) /\ top(v) => u = v
  BY <1>1
<1>5. L!InForce = IF good # {} THEN CHOOSE v \in DOMAIN lVersion : top(v) ELSE 0
  <2>1. L!InForce = IF \E v \in DOMAIN lVersion : L!Effective(v)
                      THEN CHOOSE v \in DOMAIN lVersion : top(v) ELSE 0
    BY DEF L!InForce, L!NoVersion
  <2>2. (\E v \in DOMAIN lVersion : L!Effective(v)) <=> good # {}
    OBVIOUS
  <2> QED
    BY <2>1, <2>2
<1>6. good # {} => L!InForce \in DOMAIN lVersion /\ top(L!InForce)
  <2> HIDE DEF top, good
  <2> QED
    BY <1>3, <1>5
<1>7. good # {} => L!InForce # 0
  BY <1>1, <1>6
<1>8. \A v \in DOMAIN lVersion : top(v) => L!InForce = v
  BY <1>4, <1>6
<1> QED
  BY <1>5, <1>6, <1>7, <1>8 DEF GreatestInForce

--------------------------------------------------------------------------------
\* The versions there are go on, and what is no draft keeps what it says.
VersionsGoOn ==
  /\ lVersion' \in Seq(VersionRow) /\ Len(lVersion) <= Len(lVersion')
  /\ lLater' \in BOOLEAN /\ (lLater => lLater')
  /\ \A v \in DOMAIN lVersion : lVersion[v].status # "draft" =>
       /\ lVersion'[v].status # "draft"
       /\ lVersion'[v].spec = lVersion[v].spec /\ lVersion'[v].from = lVersion[v].from

\* A release carries what it carried, and one that was promoted is what it was.
GoesOn(r) ==
  /\ lRel'[r].kind = lRel[r].kind /\ lRel'[r].spec = lRel[r].spec /\ lRel'[r].from = lRel[r].from
  /\ lRel'[r].of = lRel[r].of
  /\ lRel[r].kind = "retire" => lRel'[r].made = lRel[r].made
  /\ lRel[r].status = "promoted" =>
       /\ lRel'[r].status = "promoted" /\ lRel'[r].outcome = lRel[r].outcome
       /\ lRel'[r].prev = lRel[r].prev /\ lRel'[r].made = lRel[r].made

\* It keeps what it found and made as well.
StandsStill(r) ==
  /\ GoesOn(r)
  /\ lRel'[r].prev = lRel[r].prev /\ lRel'[r].made = lRel[r].made /\ lRel'[r].outcome = lRel[r].outcome

LEMMA VersionsStand ==
  ASSUME ReleasesTyped, UNCHANGED <<lVersion, lLater>>
  PROVE  VersionsGoOn
BY DEF ReleasesTyped, VersionsGoOn

LEMMA CarriesOn ==
  ASSUME ReleasesInvariant, VersionsGoOn, DOMAIN lRel \subseteq DOMAIN lRel',
         \A r \in DOMAIN lRel : GoesOn(r),
         NEW b \in DOMAIN lRel, lRel[b].of # 0
  PROVE  CarriesBack(b)'
<1> DEFINE r == lRel[b].of
<1>1. CarriesBack(b) /\ r \in DOMAIN lRel
  BY DEF ReleasesInvariant, RollbacksCarryBack, CarriesBack
<1>2. GoesOn(b) /\ GoesOn(r) /\ lRel'[b].of = r
  BY <1>1 DEF GoesOn
<1>3. lRel'[r].status = "promoted" /\ lRel'[r].outcome = "published" /\ lRel'[r].prev = lRel[r].prev /\ lRel'[r].made = lRel[r].made
  BY <1>1, <1>2 DEF CarriesBack, GoesOn
<1>4. ASSUME lRel[r].prev = 0 PROVE lRel'[b].kind = "retire" /\ lRel'[b].made = lRel[r].made
  BY <1>1, <1>2, <1>4 DEF CarriesBack, GoesOn
<1>5. ASSUME lRel[r].prev # 0
      PROVE  /\ lRel'[b].kind = "mapping"
             /\ lRel'[b].spec = lVersion'[lRel[r].prev].spec
             /\ lRel'[b].from = lVersion'[lRel[r].prev].from
  <2>1. lRel[r].prev \in DOMAIN lVersion
    <3>1. lRel[r] \in ReleaseRow /\ lRel[r].prev <= Len(lVersion) /\ DOMAIN lVersion = 1..Len(lVersion) /\ Len(lVersion) \in Nat
      BY <1>1, Elements DEF ReleasesInvariant, ReleasesTyped
    <3>2. lRel[r].prev \in Nat
      BY <3>1 DEF ReleaseRow
    <3> QED
      BY <1>5, <3>1, <3>2
  <2>2. lVersion[lRel[r].prev].status # "draft"
    BY <1>1, <1>5 DEF ReleasesInvariant, FoundInForce
  <2> QED
    BY <1>1, <1>2, <1>5, <2>1, <2>2 DEF CarriesBack, GoesOn, VersionsGoOn
<1> HIDE DEF r
<1> QED
  BY <1>1, <1>2, <1>3, <1>4, <1>5 DEF CarriesBack

\* What a release had found goes on to be in force.
LEMMA FoundGoesOn ==
  ASSUME ReleasesInvariant, VersionsGoOn, NEW r \in DOMAIN lRel, StandsStill(r), lRel[r].prev # 0
  PROVE  /\ lVersion'[lRel'[r].prev].status # "draft"
         /\ lVersion'[lRel'[r].prev].from = "now" \/ lLater'
<1>1. lRel[r].prev \in DOMAIN lVersion
  <2>1. lRel[r] \in ReleaseRow /\ lRel[r].prev <= Len(lVersion) /\ DOMAIN lVersion = 1..Len(lVersion) /\ Len(lVersion) \in Nat
    BY Elements DEF ReleasesInvariant, ReleasesTyped
  <2>2. lRel[r].prev \in Nat
    BY <2>1 DEF ReleaseRow
  <2> QED
    BY <2>1, <2>2
<1>2. lVersion[lRel[r].prev].status # "draft" /\ (lVersion[lRel[r].prev].from = "now" \/ lLater)
  BY DEF ReleasesInvariant, FoundInForce
<1> QED
  BY <1>1, <1>2 DEF VersionsGoOn, StandsStill

\* A step of the versions, or of time: no release moves, and either nothing that is
\* effective changes or every release is told.
VersionsMove ==
  /\ VersionsGoOn
  /\ lRel' \in Seq(ReleaseRow) /\ Len(lRel') = Len(lRel)
  /\ \A r \in DOMAIN lRel : StandsStill(r) /\ (lRel'[r].alone => lRel[r].alone)
  /\ \/ \A r \in DOMAIN lRel : ~lRel'[r].alone
     \/ \A v \in DOMAIN lVersion' : L!Effective(v)' => v \in DOMAIN lVersion /\ L!Effective(v)

LEMMA VersionsMoveOn ==
  ASSUME ReleasesInvariant, VersionsMove
  PROVE  ReleasesInvariant'
<1>1. DOMAIN lRel' = DOMAIN lRel /\ Len(lVersion) \in Nat /\ Len(lVersion') \in Nat
  BY Elements DEF ReleasesInvariant, ReleasesTyped, VersionsMove, VersionsGoOn
<1>2. ReleasesTyped'
  <2>1. \A r \in DOMAIN lRel : lRel'[r].prev <= Len(lVersion') /\ lRel'[r].made <= Len(lVersion')
    <3>1. \A r \in DOMAIN lRel : lRel[r].prev \in Nat /\ lRel[r].made \in Nat
      <4>1. \A r \in DOMAIN lRel : lRel[r] \in ReleaseRow
        BY Elements DEF ReleasesInvariant, ReleasesTyped
      <4> QED
        BY <4>1 DEF ReleaseRow
    <3> QED
      BY <1>1, <3>1 DEF ReleasesInvariant, ReleasesTyped, VersionsMove, VersionsGoOn, StandsStill
  <2> QED
    BY <1>1, <2>1 DEF ReleasesTyped, VersionsMove, VersionsGoOn
<1>3. FoundInForce'
  BY <1>1, FoundGoesOn DEF FoundInForce, VersionsMove, StandsStill
<1>4. RollbacksCarryBack'
  BY <1>1, CarriesOn DEF RollbacksCarryBack, VersionsMove, StandsStill, GoesOn
<1>5. AloneInForce'
  BY <1>1 DEF AloneInForce, VersionsMove, StandsStill, ReleasesInvariant
<1> QED
  BY <1>2, <1>3, <1>4, <1>5 DEF ReleasesInvariant

LEMMA DisturbedIs ==
  ASSUME ReleasesTyped, NEW t, t = L!Disturbed
  PROVE  /\ t \in Seq(ReleaseRow) /\ Len(t) = Len(lRel) /\ DOMAIN t = DOMAIN lRel
         /\ \A r \in DOMAIN lRel :
              /\ ~t[r].alone
              /\ t[r].kind = lRel[r].kind /\ t[r].spec = lRel[r].spec /\ t[r].from = lRel[r].from
              /\ t[r].of = lRel[r].of /\ t[r].made = lRel[r].made /\ t[r].prev = lRel[r].prev
              /\ t[r].status = lRel[r].status /\ t[r].outcome = lRel[r].outcome
<1>1. t = [r \in DOMAIN lRel |-> [lRel[r] EXCEPT !.alone = FALSE]]
  BY DEF L!Disturbed
<1>2. \A r \in DOMAIN lRel : lRel[r] \in ReleaseRow
  BY Elements DEF ReleasesTyped
<1>3. \A row \in ReleaseRow :
        LET told == [row EXCEPT !.alone = FALSE] IN
        /\ told \in ReleaseRow /\ ~told.alone
        /\ told.kind = row.kind /\ told.spec = row.spec /\ told.from = row.from
        /\ told.of = row.of /\ told.made = row.made /\ told.prev = row.prev
        /\ told.status = row.status /\ told.outcome = row.outcome
  BY DEF ReleaseRow
<1>4. t \in [DOMAIN lRel -> ReleaseRow]
  BY <1>1, <1>2, <1>3
<1>5. t \in Seq(ReleaseRow) /\ Len(t) = Len(lRel) /\ DOMAIN t = DOMAIN lRel
  BY <1>4, Rewritten DEF ReleasesTyped
<1>6. ASSUME NEW r \in DOMAIN lRel
      PROVE  /\ ~t[r].alone
             /\ t[r].kind = lRel[r].kind /\ t[r].spec = lRel[r].spec /\ t[r].from = lRel[r].from
             /\ t[r].of = lRel[r].of /\ t[r].made = lRel[r].made /\ t[r].prev = lRel[r].prev
             /\ t[r].status = lRel[r].status /\ t[r].outcome = lRel[r].outcome
  <2>1. PICK row \in ReleaseRow : row = lRel[r]
    BY <1>2
  <2>2. t[r] = [row EXCEPT !.alone = FALSE]
    BY <1>1, <2>1
  <2> QED
    BY <1>3, <2>1, <2>2
<1> QED
  BY <1>5, <1>6

\* One version is written anew.
LEMMA VersionWritten ==
  ASSUME ReleasesTyped, NEW v \in DOMAIN lVersion, NEW row \in VersionRow,
         lVersion' = [lVersion EXCEPT ![v] = row], lLater' = lLater,
         lVersion[v].status = "draft" \/
           (row.status # "draft" /\ row.spec = lVersion[v].spec /\ row.from = lVersion[v].from)
  PROVE  VersionsGoOn /\ DOMAIN lVersion' = DOMAIN lVersion
<1>1. /\ lVersion' \in Seq(VersionRow) /\ Len(lVersion') = Len(lVersion) /\ DOMAIN lVersion' = DOMAIN lVersion
      /\ lVersion'[v] = row /\ \A u \in DOMAIN lVersion : u # v => lVersion'[u] = lVersion[u]
  BY Replaced DEF ReleasesTyped
<1>2. Len(lVersion) \in Nat
  BY Elements DEF ReleasesTyped
<1> QED
  BY <1>1, <1>2 DEF ReleasesTyped, VersionsGoOn

\* One version is added.
LEMMA VersionAdded ==
  ASSUME ReleasesTyped, NEW row \in VersionRow, lVersion' = Append(lVersion, row), lLater' = lLater
  PROVE  /\ VersionsGoOn
         /\ Len(lVersion) \in Nat /\ Len(lVersion') = Len(lVersion) + 1
         /\ DOMAIN lVersion = 1..Len(lVersion) /\ DOMAIN lVersion' = 1..(Len(lVersion) + 1)
         /\ \A v \in DOMAIN lVersion : lVersion'[v] = lVersion[v]
         /\ lVersion'[Len(lVersion) + 1] = row
<1>1. /\ lVersion' \in Seq(VersionRow) /\ Len(lVersion) \in Nat /\ Len(lVersion') = Len(lVersion) + 1
      /\ DOMAIN lVersion = 1..Len(lVersion) /\ DOMAIN lVersion' = 1..(Len(lVersion) + 1)
      /\ \A v \in DOMAIN lVersion : lVersion'[v] = lVersion[v]
      /\ lVersion'[Len(lVersion) + 1] = row
  BY Appended DEF ReleasesTyped
<1> QED
  BY <1>1 DEF ReleasesTyped, VersionsGoOn

LEMMA ReleasesStandStill ==
  ASSUME ReleasesTyped, lRel' = lRel
  PROVE  /\ lRel' \in Seq(ReleaseRow) /\ Len(lRel') = Len(lRel)
         /\ \A r \in DOMAIN lRel : StandsStill(r) /\ (lRel'[r].alone => lRel[r].alone)
BY DEF ReleasesTyped, StandsStill, GoesOn

LEMMA ReleasesAreTold ==
  ASSUME ReleasesTyped, lRel' = L!Disturbed
  PROVE  /\ lRel' \in Seq(ReleaseRow) /\ Len(lRel') = Len(lRel)
         /\ \A r \in DOMAIN lRel : StandsStill(r) /\ ~lRel'[r].alone
BY DisturbedIs DEF StandsStill, GoesOn

LEMMA VersionSteps ==
  ASSUME ReleasesInvariant,
         L!Draft \/ L!DateComes \/ \E v \in DOMAIN lVersion : L!UpdateDraft(v) \/ L!Publish(v) \/ L!Retire(v)
  PROVE  ReleasesInvariant'
<1>0. ReleasesTyped
  BY DEF ReleasesInvariant
<1>1. CASE L!Draft
  <2>1. PICK spec \in Specs, from \in L!From : lVersion' = L!Append1(spec, from, "draft")
    BY <1>1 DEF L!Draft
  <2>2. PICK row : row = [spec |-> spec, from |-> from, status |-> "draft"]
    OBVIOUS
  <2>3. row \in VersionRow /\ row.status = "draft"
    BY <2>2 DEF VersionRow
  <2>4. lVersion' = Append(lVersion, row) /\ lLater' = lLater /\ lRel' = lRel
    BY <1>1, <2>1, <2>2 DEF L!Draft, L!Append1
  <2>5. \A v \in DOMAIN lVersion' : L!Effective(v)' => v \in DOMAIN lVersion /\ L!Effective(v)
    BY <1>0, <2>3, <2>4, VersionAdded DEF L!Effective
  <2>6. VersionsMove
    BY <1>0, <2>3, <2>4, <2>5, VersionAdded, ReleasesStandStill DEF VersionsMove
  <2> QED
    BY <2>6, VersionsMoveOn
<1>2. CASE L!DateComes
  <2>1. lLater' = TRUE /\ lRel' = L!Disturbed /\ lVersion' = lVersion
    BY <1>2 DEF L!DateComes
  <2>2. VersionsGoOn
    BY <1>0, <2>1, Elements DEF VersionsGoOn, ReleasesTyped
  <2> QED
    BY <1>0, <2>1, <2>2, ReleasesAreTold, VersionsMoveOn DEF VersionsMove
<1>3. ASSUME NEW v \in DOMAIN lVersion, L!UpdateDraft(v) PROVE ReleasesInvariant'
  <2>1. PICK spec \in Specs : lVersion' = [lVersion EXCEPT ![v].spec = spec]
    BY <1>3 DEF L!UpdateDraft
  <2>2. PICK row : row = [lVersion[v] EXCEPT !.spec = spec]
    OBVIOUS
  <2>3. row \in VersionRow /\ row.status = "draft"
    <3>1. lVersion[v] \in VersionRow /\ lVersion[v].status = "draft"
      BY <1>0, <1>3, Elements DEF ReleasesTyped, L!UpdateDraft
    <3> QED
      BY <2>2, <3>1 DEF VersionRow
  <2>4. lVersion' = [lVersion EXCEPT ![v] = row] /\ lLater' = lLater /\ lRel' = lRel /\ lVersion[v].status = "draft"
    BY <1>3, <2>1, <2>2 DEF L!UpdateDraft
  <2>5. VersionsGoOn /\ DOMAIN lVersion' = DOMAIN lVersion
    BY <1>0, <2>3, <2>4, VersionWritten
  <2>6. lVersion'[v] = row /\ \A u \in DOMAIN lVersion : u # v => lVersion'[u] = lVersion[u]
    BY <2>4
  <2>7. \A u \in DOMAIN lVersion' : L!Effective(u)' => u \in DOMAIN lVersion /\ L!Effective(u)
    BY <2>3, <2>4, <2>5, <2>6 DEF L!Effective
  <2> QED
    BY <1>0, <2>4, <2>5, <2>7, ReleasesStandStill, VersionsMoveOn DEF VersionsMove
<1>4. ASSUME NEW v \in DOMAIN lVersion, L!Publish(v) \/ L!Retire(v) PROVE ReleasesInvariant'
  <2>1. PICK status \in {"published", "retired"} : lVersion' = [lVersion EXCEPT ![v].status = status]
    BY <1>4 DEF L!Publish, L!Retire
  <2>2. PICK row : row = [lVersion[v] EXCEPT !.status = status]
    OBVIOUS
  <2>3. row \in VersionRow /\ row.status # "draft" /\ row.spec = lVersion[v].spec /\ row.from = lVersion[v].from
    <3>1. lVersion[v] \in VersionRow
      BY <1>0, Elements DEF ReleasesTyped
    <3> QED
      BY <2>2, <3>1 DEF VersionRow
  <2>4. lVersion' = [lVersion EXCEPT ![v] = row] /\ lLater' = lLater /\ lRel' = L!Disturbed
    BY <1>4, <2>1, <2>2 DEF L!Publish, L!Retire
  <2>5. VersionsGoOn
    BY <1>0, <2>3, <2>4, VersionWritten
  <2> QED
    BY <1>0, <2>4, <2>5, ReleasesAreTold, VersionsMoveOn DEF VersionsMove
<1> QED
  BY <1>1, <1>2, <1>3, <1>4

--------------------------------------------------------------------------------
\* Where releases move, it is enough to look at those that are new or are promoted.
LEMMA ReleasesMove ==
  ASSUME ReleasesInvariant, VersionsGoOn, lRel' \in Seq(ReleaseRow), Len(lRel) <= Len(lRel'),
         \A r \in DOMAIN lRel' : lRel'[r].prev <= Len(lVersion') /\ lRel'[r].made <= Len(lVersion'),
         \A r \in DOMAIN lRel : GoesOn(r),
         \A r \in DOMAIN lRel' :
           \/ lRel'[r].prev = 0
           \/ r \in DOMAIN lRel /\ StandsStill(r)
           \/ /\ lVersion'[lRel'[r].prev].status # "draft"
              /\ lVersion'[lRel'[r].prev].from = "now" \/ lLater',
         \A b \in DOMAIN lRel' \ DOMAIN lRel : lRel'[b].of # 0 => CarriesBack(b)',
         AloneInForce'
  PROVE  ReleasesInvariant'
<1>1. DOMAIN lRel \subseteq DOMAIN lRel'
  <2>1. DOMAIN lRel = 1..Len(lRel) /\ Len(lRel) \in Nat /\ DOMAIN lRel' = 1..Len(lRel') /\ Len(lRel') \in Nat
    BY Elements DEF ReleasesInvariant, ReleasesTyped
  <2> QED
    BY <2>1
<1>2. ReleasesTyped'
  BY DEF ReleasesTyped, VersionsGoOn
<1>3. FoundInForce'
  <2> SUFFICES ASSUME NEW r \in DOMAIN lRel', lRel'[r].prev # 0
               PROVE  /\ lVersion'[lRel'[r].prev].status # "draft"
                      /\ lVersion'[lRel'[r].prev].from = "now" \/ lLater'
    BY DEF FoundInForce
  <2>1. CASE r \in DOMAIN lRel /\ StandsStill(r)
    BY <2>1, FoundGoesOn DEF StandsStill
  <2> QED
    BY <2>1
<1>4. RollbacksCarryBack'
  <2> SUFFICES ASSUME NEW b \in DOMAIN lRel', lRel'[b].of # 0 PROVE CarriesBack(b)'
    BY DEF RollbacksCarryBack
  <2>1. CASE b \in DOMAIN lRel
    BY <1>1, <2>1, CarriesOn DEF GoesOn
  <2> QED
    BY <2>1
<1> QED
  BY <1>2, <1>3, <1>4 DEF ReleasesInvariant

\* A release is added.
LEMMA ReleaseAdded ==
  ASSUME ReleasesInvariant, UNCHANGED <<lVersion, lLater>>,
         NEW row \in ReleaseRow, lRel' = Append(lRel, row),
         row.prev = 0, row.made <= Len(lVersion), ~row.alone,
         row.of # 0 =>
           /\ row.of \in DOMAIN lRel
           /\ lRel[row.of].status = "promoted" /\ lRel[row.of].outcome = "published"
           /\ lRel[row.of].prev = 0 => row.kind = "retire" /\ row.made = lRel[row.of].made
           /\ lRel[row.of].prev # 0 => /\ row.kind = "mapping"
                                       /\ row.spec = lVersion[lRel[row.of].prev].spec
                                       /\ row.from = lVersion[lRel[row.of].prev].from
  PROVE  ReleasesInvariant'
<1>0. ReleasesTyped
  BY DEF ReleasesInvariant
<1>1. /\ lRel' \in Seq(ReleaseRow) /\ Len(lRel) \in Nat /\ Len(lRel') = Len(lRel) + 1
      /\ DOMAIN lRel = 1..Len(lRel) /\ DOMAIN lRel' = 1..(Len(lRel) + 1)
      /\ \A r \in DOMAIN lRel : lRel'[r] = lRel[r]
      /\ lRel'[Len(lRel) + 1] = row
  BY <1>0, Appended DEF ReleasesTyped
<1>2. VersionsGoOn
  BY <1>0, VersionsStand
<1>3. \A r \in DOMAIN lRel : StandsStill(r)
  BY <1>1 DEF StandsStill, GoesOn
<1>4. \A r \in DOMAIN lRel' : r \in DOMAIN lRel \/ (r = Len(lRel) + 1 /\ lRel'[r] = row)
  BY <1>1
<1>5. \A r \in DOMAIN lRel' : lRel'[r].prev <= Len(lVersion') /\ lRel'[r].made <= Len(lVersion')
  <2>1. Len(lVersion) \in Nat
    BY <1>0, Elements DEF ReleasesTyped
  <2> QED
    BY <1>0, <1>1, <1>4, <2>1 DEF ReleasesTyped
<1>6. AloneInForce'
  <2>1. \A v \in DOMAIN lVersion' : L!Effective(v)' <=> L!Effective(v)
    BY DEF L!Effective
  <2> QED
    BY <1>1, <1>4, <2>1 DEF AloneInForce, ReleasesInvariant
<1>7. ASSUME NEW b \in DOMAIN lRel' \ DOMAIN lRel, lRel'[b].of # 0 PROVE CarriesBack(b)'
  <2>1. lRel'[b] = row /\ row.of \in DOMAIN lRel /\ lRel'[row.of] = lRel[row.of] /\ row.of \in DOMAIN lRel'
    BY <1>1, <1>4, <1>7
  <2> QED
    BY <1>7, <2>1 DEF CarriesBack
<1> QED
  BY <1>1, <1>2, <1>3, <1>4, <1>5, <1>6, <1>7, ReleasesMove DEF StandsStill

LEMMA ReleasesMade ==
  ASSUME ReleasesInvariant, L!Create \/ \E r \in DOMAIN lRel : L!Rollback(r)
  PROVE  ReleasesInvariant'
<1>0. ReleasesTyped
  BY DEF ReleasesInvariant
<1>1. CASE L!Create
  <2>1. PICK spec \in Specs, from \in L!From :
          lRel' = Append(lRel, L!NewRelease("mapping", spec, from, L!NoVersion, L!NoRelease))
    BY <1>1 DEF L!Create
  <2>2. PICK row : row = L!NewRelease("mapping", spec, from, L!NoVersion, L!NoRelease)
    OBVIOUS
  <2>3. row \in ReleaseRow /\ row.prev = 0 /\ row.made = 0 /\ row.of = 0 /\ ~row.alone
    BY <2>2 DEF L!NewRelease, L!NoVersion, L!NoRelease, ReleaseRow
  <2>4. lRel' = Append(lRel, row) /\ UNCHANGED <<lVersion, lLater>> /\ Len(lVersion) \in Nat
    BY <1>0, <1>1, <2>1, <2>2, Elements DEF L!Create, ReleasesTyped
  <2> QED
    BY <2>3, <2>4, ReleaseAdded
<1>2. ASSUME NEW r \in DOMAIN lRel, L!Rollback(r) PROVE ReleasesInvariant'
  <2>1. /\ lRel[r] \in ReleaseRow /\ r \in Nat /\ r # 0 /\ lRel[r].made \in Nat /\ lRel[r].made <= Len(lVersion)
        /\ lRel[r].prev \in Nat /\ lRel[r].prev <= Len(lVersion) /\ Len(lVersion) \in Nat
        /\ DOMAIN lVersion = 1..Len(lVersion)
    <3>1. lRel[r] \in ReleaseRow /\ DOMAIN lRel = 1..Len(lRel) /\ Len(lRel) \in Nat
      BY <1>0, Elements DEF ReleasesTyped
    <3>2. lRel[r].made \in Nat /\ lRel[r].prev \in Nat
      BY <3>1 DEF ReleaseRow
    <3>3. lRel[r].made <= Len(lVersion) /\ lRel[r].prev <= Len(lVersion) /\ Len(lVersion) \in Nat
          /\ DOMAIN lVersion = 1..Len(lVersion)
      BY <1>0, Elements DEF ReleasesTyped
    <3> QED
      BY <3>1, <3>2, <3>3
  <2>2. lRel[r].status = "promoted" /\ lRel[r].outcome = "published" /\ UNCHANGED <<lVersion, lLater>>
    BY <1>2 DEF L!Rollback
  <2>3. CASE lRel[r].prev = 0
    <3>1. PICK row : row = L!NewRelease("retire", "none", "now", lRel[r].made, r)
      OBVIOUS
    <3>2. /\ row \in ReleaseRow /\ row.prev = 0 /\ row.made = lRel[r].made /\ row.of = r /\ ~row.alone /\ row.kind = "retire"
      BY <2>1, <3>1 DEF L!NewRelease, L!NoVersion, L!NoRelease, L!From, ReleaseRow
    <3>3. lRel' = Append(lRel, row)
      BY <1>2, <2>3, <3>1 DEF L!Rollback, L!NoVersion
    <3> QED
      BY <2>1, <2>2, <2>3, <3>2, <3>3, ReleaseAdded
  <2>4. CASE lRel[r].prev # 0
    <3>0. PICK old \in VersionRow : old = lVersion[lRel[r].prev]
      BY <1>0, <2>1, <2>4, Elements DEF ReleasesTyped
    <3>1. PICK row : row = L!NewRelease("mapping", old.spec, old.from, L!NoVersion, r)
      OBVIOUS
    <3>2. /\ row \in ReleaseRow /\ row.prev = 0 /\ row.made = 0 /\ row.of = r /\ ~row.alone /\ row.kind = "mapping"
          /\ row.spec = old.spec /\ row.from = old.from
      BY <2>1, <3>1 DEF L!NewRelease, L!NoVersion, L!NoRelease, ReleaseRow, VersionRow
    <3>3. lRel' = Append(lRel, row)
      BY <1>2, <2>4, <3>0, <3>1 DEF L!Rollback, L!NoVersion
    <3> QED
      BY <2>1, <2>2, <2>4, <3>0, <3>2, <3>3, ReleaseAdded
  <2> QED
    BY <2>3, <2>4
<1> QED
  BY <1>1, <1>2

\* One release is written anew.
LEMMA ReleaseWritten ==
  ASSUME ReleasesTyped, NEW p \in DOMAIN lRel, NEW row \in ReleaseRow, lRel' = [lRel EXCEPT ![p] = row]
  PROVE  /\ lRel' \in Seq(ReleaseRow) /\ Len(lRel') = Len(lRel) /\ DOMAIN lRel' = DOMAIN lRel
         /\ lRel'[p] = row /\ \A r \in DOMAIN lRel : r # p => lRel'[r] = lRel[r] /\ StandsStill(r)
<1>1. /\ lRel' \in Seq(ReleaseRow) /\ Len(lRel') = Len(lRel) /\ DOMAIN lRel' = DOMAIN lRel
      /\ lRel'[p] = row /\ \A r \in DOMAIN lRel : r # p => lRel'[r] = lRel[r]
  BY Replaced DEF ReleasesTyped
<1> QED
  BY <1>1 DEF StandsStill, GoesOn

LEMMA ReleasesSubmitted ==
  ASSUME ReleasesInvariant, NEW r \in DOMAIN lRel, L!Submit(r) \/ L!Decide(r)
  PROVE  ReleasesInvariant'
<1>0. ReleasesTyped
  BY DEF ReleasesInvariant
<1>1. PICK status \in {"awaiting_approval", "approved", "rejected"} : lRel' = [lRel EXCEPT ![r].status = status]
  BY DEF L!Submit, L!Decide
<1>2. PICK row : row = [lRel[r] EXCEPT !.status = status]
  OBVIOUS
<1>3. /\ row \in ReleaseRow /\ lRel[r].status # "promoted"
      /\ row.kind = lRel[r].kind /\ row.spec = lRel[r].spec /\ row.from = lRel[r].from
      /\ row.of = lRel[r].of /\ row.made = lRel[r].made /\ row.prev = lRel[r].prev
      /\ row.outcome = lRel[r].outcome /\ row.alone = lRel[r].alone
  <2>1. lRel[r] \in ReleaseRow
    BY <1>0, Elements DEF ReleasesTyped
  <2>2. lRel[r].status # "promoted"
    BY DEF L!Submit, L!Decide
  <2> QED
    BY <1>2, <2>1, <2>2 DEF ReleaseRow
<1>4. lRel' = [lRel EXCEPT ![r] = row] /\ UNCHANGED <<lVersion, lLater>>
  BY <1>1, <1>2 DEF L!Submit, L!Decide
<1>5. /\ lRel' \in Seq(ReleaseRow) /\ Len(lRel') = Len(lRel)
      /\ \A q \in DOMAIN lRel : StandsStill(q) /\ (lRel'[q].alone => lRel[q].alone)
  <2>1. StandsStill(r)
    BY <1>0, <1>3, <1>4, ReleaseWritten DEF StandsStill, GoesOn
  <2> QED
    BY <1>0, <1>3, <1>4, <2>1, ReleaseWritten
<1>6. VersionsMove
  BY <1>0, <1>4, <1>5, VersionsStand DEF VersionsMove, L!Effective
<1> QED
  BY <1>6, VersionsMoveOn

\* What a promotion makes of the release it promotes.
BecomesPromoted(p, outcome, own, row) ==
  /\ row \in ReleaseRow
  /\ row.status = "promoted" /\ row.outcome = outcome /\ row.made = own /\ row.prev = L!InForce
  /\ row.kind = lRel[p].kind /\ row.spec = lRel[p].spec /\ row.from = lRel[p].from /\ row.of = lRel[p].of

LEMMA PromotedIs ==
  ASSUME ReleasesTyped, NEW p \in DOMAIN lRel, lRel[p].status = "approved",
         NEW outcome \in {"published", "retired"}, NEW own \in Nat, lRel[p].kind = "retire" => own = lRel[p].made,
         lRel' = L!Promoted(p, outcome, own)
  PROVE  /\ lRel' \in Seq(ReleaseRow) /\ Len(lRel') = Len(lRel) /\ DOMAIN lRel' = DOMAIN lRel
         /\ BecomesPromoted(p, outcome, own, lRel'[p]) /\ GoesOn(p)
         /\ \A r \in DOMAIN lRel : r # p => StandsStill(r) /\ ~lRel'[r].alone
<1>1. PICK t : t = L!Disturbed
  OBVIOUS
<1>2. /\ t \in Seq(ReleaseRow) /\ Len(t) = Len(lRel) /\ DOMAIN t = DOMAIN lRel
      /\ \A r \in DOMAIN lRel :
           /\ ~t[r].alone
           /\ t[r].kind = lRel[r].kind /\ t[r].spec = lRel[r].spec /\ t[r].from = lRel[r].from
           /\ t[r].of = lRel[r].of /\ t[r].made = lRel[r].made /\ t[r].prev = lRel[r].prev
           /\ t[r].status = lRel[r].status /\ t[r].outcome = lRel[r].outcome
  BY <1>1, DisturbedIs
<1>3. L!InForce \in Nat
  <2>1. DOMAIN lVersion = 1..Len(lVersion) /\ Len(lVersion) \in Nat
    BY Elements DEF ReleasesTyped
  <2> QED
    BY <2>1, GreatestIsInForce DEF GreatestInForce
<1>4. PICK found \in Nat : found = L!InForce
  BY <1>3
<1>5. PICK old \in ReleaseRow : old = t[p]
  BY <1>2, Elements
<1>6. PICK row : row = [old EXCEPT !.status = "promoted", !.outcome = outcome, !.made = own, !.prev = found, !.alone = TRUE]
  OBVIOUS
<1>7. /\ row \in ReleaseRow /\ row.status = "promoted" /\ row.outcome = outcome /\ row.made = own /\ row.prev = found
      /\ row.kind = old.kind /\ row.spec = old.spec /\ row.from = old.from /\ row.of = old.of
  BY <1>6 DEF ReleaseRow
<1>8. lRel' = [t EXCEPT ![p] = row]
  BY <1>1, <1>4, <1>5, <1>6 DEF L!Promoted
<1>9. /\ lRel' \in Seq(ReleaseRow) /\ Len(lRel') = Len(t) /\ DOMAIN lRel' = DOMAIN t
      /\ lRel'[p] = row /\ \A r \in DOMAIN t : r # p => lRel'[r] = t[r]
  BY <1>2, <1>7, <1>8, Replaced
<1>10. BecomesPromoted(p, outcome, own, lRel'[p])
  BY <1>2, <1>4, <1>5, <1>7, <1>9 DEF BecomesPromoted
<1>11. GoesOn(p)
  BY <1>2, <1>5, <1>7, <1>9 DEF GoesOn
<1>12. \A r \in DOMAIN lRel : r # p => StandsStill(r) /\ ~lRel'[r].alone
  BY <1>2, <1>9 DEF StandsStill, GoesOn
<1> QED
  BY <1>2, <1>9, <1>10, <1>11, <1>12

\* What is in force took effect.
LEMMA InForceTookEffect ==
  ASSUME ReleasesTyped
  PROVE  /\ L!InForce \in Nat /\ L!InForce <= Len(lVersion)
         /\ L!InForce # 0 => /\ L!InForce \in DOMAIN lVersion
                             /\ lVersion[L!InForce].status # "draft"
                             /\ lVersion[L!InForce].from = "now" \/ lLater
<1>1. DOMAIN lVersion = 1..Len(lVersion) /\ Len(lVersion) \in Nat
  BY Elements DEF ReleasesTyped
<1> QED
  BY <1>1, GreatestIsInForce DEF GreatestInForce, L!Effective

LEMMA PromotesUnchanged ==
  ASSUME ReleasesInvariant, NEW p \in DOMAIN lRel, lRel[p].status = "approved", lRel[p].kind = "mapping",
         lRel' = [lRel EXCEPT ![p] = [@ EXCEPT !.status = "promoted", !.outcome = "unchanged",
                                               !.prev = L!InForce, !.alone = TRUE]],
         UNCHANGED <<lVersion, lLater>>
  PROVE  ReleasesInvariant'
<1>0. ReleasesTyped
  BY DEF ReleasesInvariant
<1>1. PICK found \in Nat : found = L!InForce
  BY <1>0, InForceTookEffect
<1>2. PICK row : row = [lRel[p] EXCEPT !.status = "promoted", !.outcome = "unchanged", !.prev = found, !.alone = TRUE]
  OBVIOUS
<1>3. lRel' = [lRel EXCEPT ![p] = row]
  BY <1>1, <1>2
<1>4. /\ row \in ReleaseRow /\ row.outcome = "unchanged" /\ row.prev = found /\ row.made = lRel[p].made
      /\ row.kind = lRel[p].kind /\ row.spec = lRel[p].spec /\ row.from = lRel[p].from /\ row.of = lRel[p].of
  <2>1. lRel[p] \in ReleaseRow
    BY <1>0, Elements DEF ReleasesTyped
  <2> QED
    BY <1>2, <2>1 DEF ReleaseRow
<1>5. /\ lRel' \in Seq(ReleaseRow) /\ Len(lRel') = Len(lRel) /\ DOMAIN lRel' = DOMAIN lRel
      /\ lRel'[p] = row /\ \A r \in DOMAIN lRel : r # p => lRel'[r] = lRel[r] /\ StandsStill(r)
  BY <1>0, <1>3, <1>4, ReleaseWritten
<1>6. \A r \in DOMAIN lRel : GoesOn(r)
  BY <1>4, <1>5 DEF StandsStill, GoesOn
<1>7. \A r \in DOMAIN lRel' : lRel'[r].prev <= Len(lVersion') /\ lRel'[r].made <= Len(lVersion')
  BY <1>0, <1>1, <1>4, <1>5, InForceTookEffect DEF ReleasesTyped
<1>8. \A r \in DOMAIN lRel' : \/ lRel'[r].prev = 0
                              \/ r \in DOMAIN lRel /\ StandsStill(r)
                              \/ /\ lVersion'[lRel'[r].prev].status # "draft"
                                 /\ lVersion'[lRel'[r].prev].from = "now" \/ lLater'
  BY <1>0, <1>1, <1>4, <1>5, InForceTookEffect
<1>9. AloneInForce'
  BY <1>4, <1>5 DEF AloneInForce, ReleasesInvariant, L!Effective
<1>10. Len(lRel) \in Nat
  BY <1>0, Elements DEF ReleasesTyped
<1> QED
  BY <1>0, <1>5, <1>6, <1>7, <1>8, <1>9, <1>10, VersionsStand, ReleasesMove

LEMMA PromotesItsOwn ==
  ASSUME ReleasesInvariant, NEW p \in DOMAIN lRel, lRel[p].status = "approved", lRel[p].kind = "mapping",
         lVersion' = L!Append1(lRel[p].spec, lRel[p].from, "published"),
         lRel' = L!Promoted(p, "published", Len(lVersion) + 1), lLater' = lLater
  PROVE  /\ ReleasesInvariant'
         /\ Len(lVersion) \in Nat /\ DOMAIN lVersion' = 1..(Len(lVersion) + 1)
         /\ lVersion'[Len(lVersion) + 1] = [spec |-> lRel[p].spec, from |-> lRel[p].from, status |-> "published"]
<1>0. ReleasesTyped
  BY DEF ReleasesInvariant
<1>1. PICK row : row = [spec |-> lRel[p].spec, from |-> lRel[p].from, status |-> "published"]
  OBVIOUS
<1>2. row \in VersionRow
  <2>1. lRel[p] \in ReleaseRow
    BY <1>0, Elements DEF ReleasesTyped
  <2> QED
    BY <1>1, <2>1 DEF ReleaseRow, VersionRow
<1>3. lVersion' = Append(lVersion, row)
  BY <1>1 DEF L!Append1
<1>4. /\ VersionsGoOn
      /\ Len(lVersion) \in Nat /\ Len(lVersion') = Len(lVersion) + 1
      /\ DOMAIN lVersion = 1..Len(lVersion) /\ DOMAIN lVersion' = 1..(Len(lVersion) + 1)
      /\ \A v \in DOMAIN lVersion : lVersion'[v] = lVersion[v]
      /\ lVersion'[Len(lVersion) + 1] = row
  BY <1>0, <1>2, <1>3, VersionAdded
<1>5. /\ lRel' \in Seq(ReleaseRow) /\ Len(lRel') = Len(lRel) /\ DOMAIN lRel' = DOMAIN lRel
      /\ BecomesPromoted(p, "published", Len(lVersion) + 1, lRel'[p]) /\ GoesOn(p)
      /\ \A r \in DOMAIN lRel : r # p => StandsStill(r) /\ ~lRel'[r].alone
  BY <1>0, <1>4, PromotedIs
<1>6. /\ L!InForce \in Nat /\ L!InForce <= Len(lVersion)
      /\ L!InForce # 0 => /\ L!InForce \in DOMAIN lVersion
                          /\ lVersion[L!InForce].status # "draft"
                          /\ lVersion[L!InForce].from = "now" \/ lLater
  BY <1>0, InForceTookEffect
<1>7. \A r \in DOMAIN lRel : GoesOn(r)
  BY <1>5 DEF StandsStill
<1>8. \A r \in DOMAIN lRel' : lRel'[r].prev <= Len(lVersion') /\ lRel'[r].made <= Len(lVersion')
  <2>1. \A r \in DOMAIN lRel : lRel[r].prev <= Len(lVersion) /\ lRel[r].made <= Len(lVersion)
                               /\ lRel[r].prev \in Nat /\ lRel[r].made \in Nat
    <3>1. \A r \in DOMAIN lRel : lRel[r] \in ReleaseRow
      BY <1>0, Elements DEF ReleasesTyped
    <3>2. \A r \in DOMAIN lRel : lRel[r].prev \in Nat /\ lRel[r].made \in Nat
      BY <3>1 DEF ReleaseRow
    <3> QED
      BY <1>0, <3>2 DEF ReleasesTyped
  <2> QED
    BY <1>4, <1>5, <1>6, <2>1 DEF BecomesPromoted, StandsStill
<1>9. \A r \in DOMAIN lRel' : \/ lRel'[r].prev = 0
                              \/ r \in DOMAIN lRel /\ StandsStill(r)
                              \/ /\ lVersion'[lRel'[r].prev].status # "draft"
                                 /\ lVersion'[lRel'[r].prev].from = "now" \/ lLater'
  BY <1>4, <1>5, <1>6 DEF BecomesPromoted
<1>10. AloneInForce'
  <2>1. L!InForce = 0 => \A v \in DOMAIN lVersion : ~L!Effective(v)
    BY <1>0, GreatestIsInForce DEF GreatestInForce
  <2>2. \A v \in DOMAIN lVersion : L!Effective(v)' <=> L!Effective(v)
    BY <1>4 DEF L!Effective
  <2>3. L!InForce = 0 => \A v \in DOMAIN lVersion' : L!Effective(v)' => v = Len(lVersion) + 1
    BY <1>4, <2>1, <2>2
  <2> QED
    BY <1>5, <2>3 DEF AloneInForce, BecomesPromoted
<1>11. Len(lRel) \in Nat
  BY <1>0, Elements DEF ReleasesTyped
<1>12. ReleasesInvariant'
  BY <1>4, <1>5, <1>7, <1>8, <1>9, <1>10, <1>11, ReleasesMove
<1> QED
  BY <1>1, <1>4, <1>12

LEMMA PromotesTheEnd ==
  ASSUME ReleasesInvariant, NEW p \in DOMAIN lRel, lRel[p].status = "approved", lRel[p].kind = "retire",
         lVersion' = IF lVersion[lRel[p].made].status = "published"
                       THEN [lVersion EXCEPT ![lRel[p].made].status = "retired"] ELSE lVersion,
         lRel' = L!Promoted(p, "retired", lRel[p].made), lLater' = lLater
  PROVE  /\ ReleasesInvariant'
         /\ DOMAIN lVersion' = DOMAIN lVersion
         /\ \A v \in DOMAIN lVersion : L!Effective(v)' => L!Effective(v) /\ v # lRel[p].made
<1>0. ReleasesTyped
  BY DEF ReleasesInvariant
<1> DEFINE own == lRel[p].made
<1>1. own \in Nat /\ DOMAIN lVersion = 1..Len(lVersion) /\ Len(lVersion) \in Nat /\ own <= Len(lVersion)
  <2>1. lRel[p] \in ReleaseRow
    BY <1>0, Elements DEF ReleasesTyped
  <2>2. own \in Nat
    BY <2>1 DEF ReleaseRow
  <2> QED
    BY <1>0, <2>2, Elements DEF ReleasesTyped
<1>2. VersionsGoOn /\ DOMAIN lVersion' = DOMAIN lVersion
      /\ \A v \in DOMAIN lVersion : L!Effective(v)' => L!Effective(v) /\ v # own
  <2>1. CASE lVersion[own].status = "published" /\ own \in DOMAIN lVersion
    <3>1. PICK row : row = [lVersion[own] EXCEPT !.status = "retired"]
      OBVIOUS
    <3>2. row \in VersionRow /\ row.status = "retired" /\ row.spec = lVersion[own].spec /\ row.from = lVersion[own].from
      <4>1. lVersion[own] \in VersionRow
        BY <1>0, <2>1, Elements DEF ReleasesTyped
      <4> QED
        BY <3>1, <4>1 DEF VersionRow
    <3>3. lVersion' = [lVersion EXCEPT ![own] = row]
      BY <2>1, <3>1
    <3>4. VersionsGoOn /\ DOMAIN lVersion' = DOMAIN lVersion
      BY <1>0, <2>1, <3>2, <3>3, VersionWritten
    <3>5. lVersion'[own] = row /\ \A v \in DOMAIN lVersion : v # own => lVersion'[v] = lVersion[v]
      BY <2>1, <3>3
    <3> QED
      BY <3>2, <3>4, <3>5 DEF L!Effective
  <2>2. CASE own \in DOMAIN lVersion /\ lVersion[own].status # "published"
    <3>1. UNCHANGED <<lVersion, lLater>>
      BY <2>2
    <3> QED
      BY <1>0, <2>2, <3>1, VersionsStand DEF L!Effective
  <2>3. CASE own \notin DOMAIN lVersion
    <3>1. UNCHANGED <<lVersion, lLater>>
      <4>1. [lVersion EXCEPT ![own].status = "retired"] = lVersion
        <5>1. lVersion \in [DOMAIN lVersion -> VersionRow]
          BY <1>0, <1>1 DEF ReleasesTyped
        <5> HIDE DEF own
        <5> QED
          BY <2>3, <5>1
      <4> QED
        BY <4>1
    <3> QED
      BY <1>0, <2>3, <3>1, VersionsStand DEF L!Effective
  <2> QED
    BY <2>1, <2>2, <2>3
<1>3. /\ lRel' \in Seq(ReleaseRow) /\ Len(lRel') = Len(lRel) /\ DOMAIN lRel' = DOMAIN lRel
      /\ BecomesPromoted(p, "retired", own, lRel'[p]) /\ GoesOn(p)
      /\ \A r \in DOMAIN lRel : r # p => StandsStill(r) /\ ~lRel'[r].alone
  BY <1>0, <1>1, PromotedIs
<1>4. /\ L!InForce \in Nat /\ L!InForce <= Len(lVersion)
      /\ L!InForce # 0 => /\ L!InForce \in DOMAIN lVersion
                          /\ lVersion[L!InForce].status # "draft"
                          /\ lVersion[L!InForce].from = "now" \/ lLater
  BY <1>0, InForceTookEffect
<1>5. \A r \in DOMAIN lRel : GoesOn(r)
  BY <1>3 DEF StandsStill
<1>6. \A r \in DOMAIN lRel' : lRel'[r].prev <= Len(lVersion') /\ lRel'[r].made <= Len(lVersion')
  <2>1. Len(lVersion') = Len(lVersion)
    BY <1>1, <1>2, Elements DEF VersionsGoOn
  <2> QED
    BY <1>0, <1>1, <1>3, <1>4, <2>1 DEF BecomesPromoted, StandsStill, ReleasesTyped
<1>7. \A r \in DOMAIN lRel' : \/ lRel'[r].prev = 0
                              \/ r \in DOMAIN lRel /\ StandsStill(r)
                              \/ /\ lVersion'[lRel'[r].prev].status # "draft"
                                 /\ lVersion'[lRel'[r].prev].from = "now" \/ lLater'
  BY <1>2, <1>3, <1>4 DEF BecomesPromoted, VersionsGoOn
<1>8. AloneInForce'
  BY <1>3 DEF AloneInForce, BecomesPromoted
<1>9. Len(lRel) \in Nat
  BY <1>0, Elements DEF ReleasesTyped
<1> QED
  BY <1>2, <1>3, <1>5, <1>6, <1>7, <1>8, <1>9, ReleasesMove

LEMMA ReleasesStep ==
  ASSUME ReleasesInvariant, [L!Next]_L!vars
  PROVE  ReleasesInvariant'
<1>1. CASE L!Draft \/ L!DateComes \/ \E v \in DOMAIN lVersion : L!UpdateDraft(v) \/ L!Publish(v) \/ L!Retire(v)
  BY <1>1, VersionSteps
<1>2. CASE L!Create \/ \E r \in DOMAIN lRel : L!Rollback(r)
  BY <1>2, ReleasesMade
<1>3. ASSUME NEW r \in DOMAIN lRel, L!Submit(r) \/ L!Decide(r) PROVE ReleasesInvariant'
  BY <1>3, ReleasesSubmitted
<1>4. ASSUME NEW r \in DOMAIN lRel, L!Promote(r) PROVE ReleasesInvariant'
  BY <1>4, PromotesUnchanged, PromotesItsOwn, PromotesTheEnd DEF L!Promote
<1>5. CASE UNCHANGED L!vars
  <2>1. VersionsMove
    BY <1>5, VersionsStand, ReleasesStandStill DEF L!vars, VersionsMove, ReleasesInvariant, L!Effective
  <2> QED
    BY <2>1, VersionsMoveOn
<1> QED
  BY <1>1, <1>2, <1>3, <1>4, <1>5 DEF L!Next

LEMMA ReleasesStart == L!Init => ReleasesInvariant
<1> SUFFICES ASSUME L!Init PROVE ReleasesInvariant
  OBVIOUS
<1>1. lVersion = <<>> /\ lRel = <<>> /\ lLater = FALSE
  BY DEF L!Init
<1>2. lVersion \in Seq(VersionRow) /\ lRel \in Seq(ReleaseRow) /\ DOMAIN lRel = {}
  BY <1>1
<1> QED
  BY <1>1, <1>2 DEF ReleasesInvariant, ReleasesTyped, FoundInForce, RollbacksCarryBack, AloneInForce

\* b is promoted by the step, and takes back a release that nothing has disturbed.
TakesBack(b) ==
  LET r == lRel[b].of IN
  lRel[b].status = "approved" /\ lRel'[b].status = "promoted" /\ r # L!NoRelease /\ lRel[r].alone

\* Only its own promotion promotes a release.
LEMMA PromotedByItself ==
  ASSUME ReleasesInvariant, [L!Next]_L!vars, NEW b \in DOMAIN lRel,
         lRel[b].status = "approved", lRel'[b].status = "promoted"
  PROVE  L!Promote(b)
<1>0. ReleasesTyped
  BY DEF ReleasesInvariant
<1>1. CASE lRel' = lRel
  BY <1>1
<1>2. CASE lRel' = L!Disturbed
  BY <1>0, <1>2, DisturbedIs
<1>3. ASSUME NEW row, lRel' = Append(lRel, row) PROVE FALSE
  <2>1. lRel'[b] = lRel[b]
    BY <1>0, <1>3, Elements DEF ReleasesTyped
  <2> QED
    BY <2>1
<1>4. ASSUME NEW r \in DOMAIN lRel, L!Submit(r) \/ L!Decide(r) PROVE FALSE
  <2>1. PICK status \in {"awaiting_approval", "approved", "rejected"} : lRel' = [lRel EXCEPT ![r].status = status]
    BY <1>4 DEF L!Submit, L!Decide
  <2>2. lRel[b] \in ReleaseRow
    BY <1>0, Elements DEF ReleasesTyped
  <2> QED
    BY <2>1, <2>2 DEF ReleaseRow
<1>5. ASSUME NEW p \in DOMAIN lRel, L!Promote(p), p # b PROVE FALSE
  <2>1. CASE UNCHANGED lVersion /\ lRel[p].kind = "mapping" /\ L!Unchanged(p)
             /\ lRel' = [lRel EXCEPT ![p] = [@ EXCEPT !.status = "promoted", !.outcome = "unchanged",
                                               !.prev = L!InForce, !.alone = TRUE]]
    BY <1>5, <2>1
  <2>2. PICK outcome, own : lRel' = L!Promoted(p, outcome, own)
    BY <1>5, <2>1 DEF L!Promote
  <2>3. PICK t : t = L!Disturbed
    OBVIOUS
  <2>4. t[b].status = lRel[b].status /\ b \in DOMAIN t
    BY <1>0, <2>3, DisturbedIs
  <2>5. lRel'[b] = t[b]
    BY <1>5, <2>2, <2>3, <2>4 DEF L!Promoted
  <2> QED
    BY <2>4, <2>5
<1> QED
  BY <1>1, <1>2, <1>3, <1>4, <1>5 DEF L!Next, L!vars, L!Draft, L!DateComes, L!UpdateDraft, L!Publish, L!Retire, L!Create, L!Rollback

LEMMA RollbacksRestore ==
  ASSUME ReleasesInvariant, [L!Next]_L!vars
  PROVE  \A b \in DOMAIN lRel : TakesBack(b) => L!SpecOf(L!InForce)' = L!SpecOf(lRel[lRel[b].of].prev)
<1> SUFFICES ASSUME NEW b \in DOMAIN lRel, NEW r, r = lRel[b].of,
                    lRel[b].status = "approved", lRel'[b].status = "promoted", r # 0, lRel[r].alone
             PROVE  L!SpecOf(L!InForce)' = L!SpecOf(lRel[r].prev)
  BY DEF TakesBack, L!NoRelease
<1>0. ReleasesTyped /\ ReleasesInvariant'
  BY ReleasesStep DEF ReleasesInvariant
<1>1. L!Promote(b)
  BY PromotedByItself
<1>2. CarriesBack(b)
  BY DEF ReleasesInvariant, RollbacksCarryBack
<1>3. r \in DOMAIN lRel /\ lRel[r].outcome = "published"
  BY <1>2 DEF CarriesBack
<1>4. (ReleasesTyped => GreatestInForce)'
  BY GreatestIsInForce, PTL
<1>5. GreatestInForce'
  BY <1>0, <1>4 DEF ReleasesInvariant
<1>6. lRel[r].prev \in Nat /\ lRel[r].prev <= Len(lVersion) /\ DOMAIN lVersion = 1..Len(lVersion) /\ Len(lVersion) \in Nat
  <2>1. lRel[r] \in ReleaseRow
    BY <1>0, <1>3, Elements DEF ReleasesTyped
  <2>2. lRel[r].prev \in Nat
    BY <2>1 DEF ReleaseRow
  <2> QED
    BY <1>0, <1>3, <2>2, Elements DEF ReleasesTyped
<1>7. CASE lRel[r].prev # 0
  <2>1. /\ lRel[b].kind = "mapping" /\ lRel[b].spec = lVersion[lRel[r].prev].spec
        /\ lRel[b].from = lVersion[lRel[r].prev].from
    BY <1>2, <1>7 DEF CarriesBack
  <2>2. lVersion[lRel[r].prev].from = "now" \/ lLater
    BY <1>3, <1>7 DEF ReleasesInvariant, FoundInForce
  <2>3. L!SpecOf(lRel[r].prev) = lRel[b].spec
    BY <1>7, <2>1 DEF L!SpecOf, L!NoVersion
  <2>4. CASE L!Unchanged(b) /\ UNCHANGED <<lVersion, lLater>>
    <3>1. L!InForce' = L!InForce
      BY <2>4 DEF L!InForce, L!Effective
    <3> QED
      BY <2>3, <2>4, <3>1 DEF L!Unchanged, L!SpecOf
  <2>5. CASE /\ lVersion' = L!Append1(lRel[b].spec, lRel[b].from, "published")
             /\ lRel' = L!Promoted(b, "published", Len(lVersion) + 1) /\ lLater' = lLater
    <3>1. /\ DOMAIN lVersion' = 1..(Len(lVersion) + 1)
          /\ lVersion'[Len(lVersion) + 1] = [spec |-> lRel[b].spec, from |-> lRel[b].from, status |-> "published"]
      BY <2>1, <2>5, PromotesItsOwn
    <3>2. PICK last : last = Len(lVersion) + 1
      OBVIOUS
    <3>3. last \in DOMAIN lVersion' /\ last # 0 /\ \A v \in DOMAIN lVersion' : v <= last
      BY <1>6, <3>1, <3>2
    <3>4. L!Effective(last)'
      <4>1. lVersion'[last].status = "published" /\ lVersion'[last].from = lRel[b].from
        BY <3>1, <3>2
      <4>2. lRel[b].from = "now" \/ lLater'
        BY <2>1, <2>2, <2>5
      <4> QED
        BY <4>1, <4>2 DEF L!Effective
    <3>5. L!InForce' = last
      BY <1>5, <3>3, <3>4 DEF GreatestInForce
    <3>6. lVersion'[last].spec = lRel[b].spec
      BY <3>1, <3>2
    <3> QED
      BY <2>3, <3>3, <3>5, <3>6 DEF L!SpecOf, L!NoVersion
  <2> QED
    BY <1>1, <2>1, <2>4, <2>5 DEF L!Promote
<1>8. CASE lRel[r].prev = 0
  <2>1. lRel[b].kind = "retire" /\ lRel[b].made = lRel[r].made
    BY <1>2, <1>8 DEF CarriesBack
  <2>2. \A v \in DOMAIN lVersion : L!Effective(v) => v = lRel[b].made
    BY <1>3, <1>8, <2>1 DEF ReleasesInvariant, AloneInForce
  <2>3. /\ DOMAIN lVersion' = DOMAIN lVersion
        /\ \A v \in DOMAIN lVersion : L!Effective(v)' => L!Effective(v) /\ v # lRel[b].made
    BY <1>1, <2>1, PromotesTheEnd DEF L!Promote
  <2>4. L!InForce' = 0
    BY <1>5, <2>2, <2>3 DEF GreatestInForce
  <2> QED
    BY <1>8, <2>4 DEF L!SpecOf, L!NoVersion
<1> QED
  BY <1>7, <1>8

--------------------------------------------------------------------------------
(* Reports: a generated file stays what it is.                             *)

JobRow ==
  [state : {"absent", "queued", "running", "succeeded", "failed", "cancelled"}, claims : Nat, cancel : BOOLEAN,
   file : Nat, expired : BOOLEAN]

ReportSession ==
  [pc : {"idle", "claimed", "permitted", "building"}, job : R!Jobs \cup {0}, claim : Nat, told : BOOLEAN]

ReportsTyped == rJob \in [R!Jobs -> JobRow] /\ rWk \in [Workers -> ReportSession]

\* One worker has a job, and none has one that is still to be claimed.
OneHasAJob ==
  /\ \A w \in Workers : rWk[w].pc = "idle" <=> rWk[w].job = 0
  /\ \A w, v \in Workers : w # v /\ rWk[w].job # 0 => rWk[w].job # rWk[v].job
  /\ \A w \in Workers : rWk[w].job # 0 => rJob[rWk[w].job].state \notin {"absent", "queued"}

\* What is still to be built, or is being built, has no file and had none.
Bare(j) == rJob[j].file = 0 /\ ~rJob[j].expired

FilesComeOnce ==
  /\ \A j \in R!Jobs : rJob[j].state \in {"absent", "queued", "running"} => Bare(j)
  /\ \A w \in Workers : rWk[w].job # 0 => Bare(rWk[w].job)
  /\ \A j \in R!Jobs : rJob[j].expired => rJob[j].file = 0

\* The inductive invariant.
ReportsInvariant == ReportsTyped /\ OneHasAJob /\ FilesComeOnce

\* What becomes of job j: a row, and nothing else.
Becomes(j, row) ==
  /\ rJob'[j] = row
  /\ \A i \in R!Jobs : i # j => rJob'[i] = rJob[i]

\* What becomes of worker w.
Turns(w, session) ==
  /\ rWk'[w] = session
  /\ \A v \in Workers : v # w => rWk'[v] = rWk[v]

\* A row is written that no worker has, or one that has not been begun goes on.
LEMMA RowWritten ==
  ASSUME ReportsInvariant, NEW j \in R!Jobs, NEW row \in JobRow, rJob' = [rJob EXCEPT ![j] = row], rWk' = rWk,
         \/ row.file = rJob[j].file /\ row.expired = rJob[j].expired /\ row.state = rJob[j].state
         \/ row.file = rJob[j].file /\ row.expired = rJob[j].expired /\ row.state = "cancelled"
         \/ /\ \A w \in Workers : rWk[w].job # j
            /\ row.state \in {"absent", "queued", "running"} => row.file = 0 /\ ~row.expired
            /\ row.expired => row.file = 0
  PROVE  ReportsInvariant' /\ Becomes(j, row)
<1> USE DEF ReportsInvariant
<1>1. Becomes(j, row)
  BY DEF ReportsTyped, Becomes
<1>2. ReportsTyped'
  BY DEF ReportsTyped
<1>3. \A w \in Workers : rWk[w].job \in R!Jobs \cup {0}
  BY DEF ReportsTyped, ReportSession
<1>4. OneHasAJob'
  BY <1>1, <1>3 DEF OneHasAJob, Becomes
<1>5. FilesComeOnce'
  <2>1. \A i \in R!Jobs : rJob'[i].state \in {"absent", "queued", "running"} => Bare(i)'
    BY <1>1 DEF FilesComeOnce, Becomes, Bare
  <2>2. (\A w \in Workers : rWk[w].job # 0 => Bare(rWk[w].job))'
    BY <1>1, <1>3 DEF FilesComeOnce, Becomes, Bare
  <2>3. \A i \in R!Jobs : rJob'[i].expired => rJob'[i].file = 0
    BY <1>1 DEF FilesComeOnce, Becomes
  <2> QED
    BY <2>1, <2>2, <2>3 DEF FilesComeOnce
<1> QED
  BY <1>1, <1>2, <1>4, <1>5

\* A worker lets go of its job, which becomes what row says.
LEMMA LetsGo ==
  ASSUME ReportsInvariant, NEW w \in Workers, rWk[w].pc # "idle", NEW j, j = rWk[w].job,
         NEW row \in JobRow, rJob' = [rJob EXCEPT ![j] = row], R!Release(w),
         row.state \in {"absent", "queued", "running"} => row.file = 0 /\ ~row.expired,
         row.expired => row.file = 0
  PROVE  ReportsInvariant' /\ j \in R!Jobs /\ Bare(j) /\ Becomes(j, row)
<1> USE DEF ReportsInvariant
<1>1. j \in R!Jobs /\ j # 0
  BY DEF ReportsTyped, ReportSession, OneHasAJob
<1>2. Becomes(j, row)
  BY <1>1 DEF ReportsTyped, Becomes
<1>3. R!Idle \in ReportSession /\ R!Idle.pc = "idle" /\ R!Idle.job = 0
  BY DEF R!Idle, R!None, ReportSession
<1>4. rWk'[w] = R!Idle /\ \A v \in Workers : v # w => rWk'[v] = rWk[v]
  BY DEF R!Release, ReportsTyped
<1>5. ReportsTyped'
  BY <1>3 DEF R!Release, ReportsTyped
<1>6. \A v \in Workers : v # w => rWk[v].job # j
  BY <1>1 DEF OneHasAJob
<1>7. \A v \in Workers : rWk[v].job \in R!Jobs \cup {0}
  BY DEF ReportsTyped, ReportSession
<1> HIDE DEF R!Idle
<1>8. OneHasAJob'
  BY <1>2, <1>3, <1>4, <1>6, <1>7 DEF OneHasAJob, Becomes
<1>9. FilesComeOnce'
  <2>1. \A i \in R!Jobs : rJob'[i].state \in {"absent", "queued", "running"} => Bare(i)'
    BY <1>2 DEF FilesComeOnce, Becomes, Bare
  <2>2. (\A v \in Workers : rWk[v].job # 0 => Bare(rWk[v].job))'
    BY <1>2, <1>3, <1>4, <1>6, <1>7 DEF FilesComeOnce, Becomes, Bare
  <2>3. \A i \in R!Jobs : rJob'[i].expired => rJob'[i].file = 0
    BY <1>2 DEF FilesComeOnce, Becomes
  <2> QED
    BY <2>1, <2>2, <2>3 DEF FilesComeOnce
<1> QED
  BY <1>1, <1>2, <1>5, <1>8, <1>9 DEF FilesComeOnce

\* The worker lets go, and the row stays.
LEMMA LetsItBe ==
  ASSUME ReportsInvariant, NEW w \in Workers, rWk[w].pc # "idle", rJob' = rJob, R!Release(w)
  PROVE  ReportsInvariant'
<1>1. PICK j : j = rWk[w].job
  OBVIOUS
<1>2. j \in R!Jobs
  BY <1>1 DEF ReportsInvariant, ReportsTyped, ReportSession, OneHasAJob
<1>3. PICK row \in JobRow : row = rJob[j]
  BY <1>2 DEF ReportsInvariant, ReportsTyped
<1>4. rJob' = [rJob EXCEPT ![j] = row]
  BY <1>3, <1>2 DEF ReportsInvariant, ReportsTyped
<1>5. Bare(j)
  BY <1>1, <1>2 DEF ReportsInvariant, FilesComeOnce, OneHasAJob
<1> QED
  BY <1>1, <1>3, <1>4, <1>5, LetsGo DEF Bare

\* A worker goes on with its job, or has claimed one that nobody has.
LEMMA GoesOnWithIt ==
  ASSUME ReportsInvariant, NEW w \in Workers, NEW session \in ReportSession,
         session.pc # "idle", session.job # 0, rWk' = [rWk EXCEPT ![w] = session],
         NEW row \in JobRow, rJob' = [rJob EXCEPT ![session.job] = row],
         row.state \notin {"absent", "queued"}, row.file = rJob[session.job].file, row.expired = rJob[session.job].expired,
         Bare(session.job), \A v \in Workers : v # w => rWk[v].job # session.job
  PROVE  ReportsInvariant' /\ Becomes(session.job, row)
<1> USE DEF ReportsInvariant
<1>1. session.job \in R!Jobs
  BY DEF ReportSession
<1>2. Becomes(session.job, row)
  BY <1>1 DEF ReportsTyped, Becomes
<1>3. rWk'[w] = session /\ \A v \in Workers : v # w => rWk'[v] = rWk[v]
  BY DEF ReportsTyped
<1>4. ReportsTyped'
  BY <1>1 DEF ReportsTyped
<1>5. \A v \in Workers : rWk[v].job \in R!Jobs \cup {0}
  BY DEF ReportsTyped, ReportSession
<1>6. OneHasAJob'
  <2>1. \A v \in Workers : rWk'[v].pc = "idle" <=> rWk'[v].job = 0
    BY <1>3 DEF OneHasAJob
  <2>2. \A v, u \in Workers : v # u /\ rWk'[v].job # 0 => rWk'[v].job # rWk'[u].job
    BY <1>3 DEF OneHasAJob
  <2>3. \A v \in Workers : rWk'[v].job # 0 => rJob'[rWk'[v].job].state \notin {"absent", "queued"}
    BY <1>2, <1>3, <1>5 DEF OneHasAJob, Becomes
  <2> QED
    BY <2>1, <2>2, <2>3 DEF OneHasAJob
<1>7. FilesComeOnce'
  <2>1. \A i \in R!Jobs : rJob'[i].state \in {"absent", "queued", "running"} => Bare(i)'
    BY <1>2 DEF FilesComeOnce, Becomes, Bare
  <2>2. (\A v \in Workers : rWk[v].job # 0 => Bare(rWk[v].job))'
    BY <1>2, <1>3, <1>5 DEF FilesComeOnce, Becomes, Bare
  <2>3. \A i \in R!Jobs : rJob'[i].expired => rJob'[i].file = 0
    BY <1>2 DEF FilesComeOnce, Becomes
  <2> QED
    BY <2>1, <2>2, <2>3 DEF FilesComeOnce
<1> QED
  BY <1>2, <1>4, <1>6, <1>7

\* What the step may do to the file of job j.
FileStays(j) ==
  /\ rJob[j].file # R!None => rJob'[j].file \in {rJob[j].file, R!None}
  /\ rJob[j].expired => rJob'[j].file = R!None

LEMMA Untouched ==
  ASSUME ReportsInvariant, UNCHANGED <<rJob, rWk>>
  PROVE  ReportsInvariant' /\ \A j \in R!Jobs : FileStays(j)
BY DEF ReportsInvariant, ReportsTyped, OneHasAJob, FilesComeOnce, Bare, FileStays, R!None

LEMMA StaysAsItMay ==
  ASSUME ReportsInvariant, NEW j \in R!Jobs, NEW row, Becomes(j, row),
         rJob[j].file # 0 => row.file \in {rJob[j].file, 0}, rJob[j].expired => row.file = 0
  PROVE  \A i \in R!Jobs : FileStays(i)
BY DEF ReportsInvariant, FilesComeOnce, Becomes, FileStays, R!None

\* A step is safe: it keeps the invariant and the files.
Safe == ReportsInvariant' /\ \A j \in R!Jobs : FileStays(j)

LEMMA Enqueues ==
  ASSUME ReportsInvariant, R!Enqueue, rWk' = rWk
  PROVE  Safe
<1>1. CASE rJob' = rJob
  BY <1>1, Untouched DEF Safe
<1>2. CASE \E j \in R!NextJob : rJob' = [rJob EXCEPT ![j].state = "queued"]
  <2>1. PICK j \in R!Jobs : rJob[j].state = "absent" /\ rJob' = [rJob EXCEPT ![j].state = "queued"]
    BY <1>2 DEF R!NextJob
  <2>2. PICK old \in JobRow : old = rJob[j]
    BY DEF ReportsInvariant, ReportsTyped
  <2>3. PICK row : row = [old EXCEPT !.state = "queued"]
    OBVIOUS
  <2>4. row \in JobRow /\ row.file = old.file /\ row.expired = old.expired /\ row.state = "queued"
    BY <2>3 DEF JobRow
  <2>5. old.file = 0 /\ ~old.expired
    BY <2>1, <2>2 DEF ReportsInvariant, FilesComeOnce, Bare
  <2>6. \A w \in Workers : rWk[w].job # j
    <3>1. j # 0
      BY DEF R!Jobs
    <3> QED
      BY <2>1, <3>1 DEF ReportsInvariant, OneHasAJob
  <2>7. rJob' = [rJob EXCEPT ![j] = row]
    BY <2>1, <2>2, <2>3
  <2>8. ReportsInvariant' /\ Becomes(j, row)
    BY <2>4, <2>5, <2>6, <2>7, RowWritten
  <2> QED
    BY <2>2, <2>4, <2>5, <2>8, StaysAsItMay DEF Safe
<1> QED
  BY <1>1, <1>2 DEF R!Enqueue

LEMMA Cancels ==
  ASSUME ReportsInvariant, NEW j \in R!Jobs, R!CancelWrites(j)
  PROVE  Safe
<1>1. PICK old \in JobRow : old = rJob[j]
  BY DEF ReportsInvariant, ReportsTyped
<1>2. PICK row : row = IF rAsked[j] = "queued" THEN [old EXCEPT !.state = "cancelled"] ELSE [old EXCEPT !.cancel = TRUE]
  OBVIOUS
<1>3. row \in JobRow /\ row.file = old.file /\ row.expired = old.expired /\ row.state \in {old.state, "cancelled"}
  BY <1>2 DEF JobRow
<1>4. rJob' = [rJob EXCEPT ![j] = row] /\ rWk' = rWk
  BY <1>1, <1>2 DEF R!CancelWrites
<1>5. ReportsInvariant' /\ Becomes(j, row)
  <2>1. CASE row.state = old.state
    BY <1>1, <1>3, <1>4, <2>1, RowWritten
  <2>2. CASE row.state = "cancelled"
    BY <1>1, <1>3, <1>4, <2>2, RowWritten
  <2> QED
    BY <1>3, <2>1, <2>2
<1>6. rJob[j].expired => row.file = 0
  BY <1>1, <1>3 DEF ReportsInvariant, FilesComeOnce
<1> QED
  BY <1>1, <1>3, <1>5, <1>6, StaysAsItMay DEF Safe

LEMMA CleansUp ==
  ASSUME ReportsInvariant, R!CleanUp
  PROVE  Safe
<1>1. PICK j \in R!Jobs : /\ rJob[j].file # 0 /\ ~R!Held(j)
                          /\ rJob' = [rJob EXCEPT ![j].file = 0, ![j].expired = TRUE]
  BY DEF R!CleanUp, R!None
<1>2. PICK old \in JobRow : old = rJob[j]
  BY DEF ReportsInvariant, ReportsTyped
<1>3. PICK row : row = [old EXCEPT !.file = 0, !.expired = TRUE]
  OBVIOUS
<1>4. row \in JobRow /\ row.file = 0 /\ row.state = old.state
  BY <1>3 DEF JobRow
<1>5. rJob' = [rJob EXCEPT ![j] = row] /\ rWk' = rWk
  BY <1>1, <1>2, <1>3 DEF R!CleanUp
<1>6. (\A w \in Workers : rWk[w].job # j) /\ old.state \notin {"absent", "queued", "running"}
  BY <1>1, <1>2 DEF R!Held, ReportsInvariant, FilesComeOnce, Bare
<1>7. ReportsInvariant' /\ Becomes(j, row)
  BY <1>4, <1>5, <1>6, RowWritten
<1> QED
  BY <1>4, <1>7, StaysAsItMay DEF Safe

LEMMA Claims ==
  ASSUME ReportsInvariant, NEW w \in Workers, R!Claim(w)
  PROVE  Safe
<1>1. PICK j \in R!Jobs :
        /\ R!Claimable(j)
        /\ rJob' = [rJob EXCEPT ![j].state = "running", ![j].claims = @ + 1]
        /\ rWk' = [rWk EXCEPT ![w] = [pc |-> "claimed", job |-> j, claim |-> rJob[j].claims + 1, told |-> FALSE]]
  BY DEF R!Claim
<1>2. PICK old \in JobRow : old = rJob[j]
  BY DEF ReportsInvariant, ReportsTyped
<1>0. old.claims + 1 \in Nat
  BY DEF JobRow
<1>3. PICK row : row = [old EXCEPT !.state = "running", !.claims = old.claims + 1]
  OBVIOUS
<1>4. row \in JobRow /\ row.state = "running" /\ row.file = old.file /\ row.expired = old.expired
  BY <1>0, <1>3 DEF JobRow
<1>5. PICK session : session = [pc |-> "claimed", job |-> j, claim |-> old.claims + 1, told |-> FALSE]
  OBVIOUS
<1>6. session \in ReportSession /\ session.pc = "claimed" /\ session.job = j /\ j # 0
  BY <1>0, <1>5 DEF ReportSession, JobRow, R!Jobs
<1>7. rJob' = [rJob EXCEPT ![session.job] = row] /\ rWk' = [rWk EXCEPT ![w] = session]
  BY <1>1, <1>2, <1>3, <1>5, <1>6
\* It is queued, or running and nobody has it: a worker that lives keeps its lease.
<1>8. Bare(j) /\ \A v \in Workers : rWk[v].job # j
  BY <1>1, <1>6 DEF R!Claimable, R!Held, ReportsInvariant, OneHasAJob, FilesComeOnce
<1>9. ReportsInvariant' /\ Becomes(j, row)
  <2>1. row.state \notin {"absent", "queued"}
    BY <1>4
  <2>2. row.file = rJob[session.job].file /\ row.expired = rJob[session.job].expired
    BY <1>2, <1>4, <1>6
  <2>3. ReportsInvariant' /\ Becomes(session.job, row)
    BY <1>4, <1>6, <1>7, <1>8, <2>1, <2>2, GoesOnWithIt
  <2> QED
    BY <1>6, <2>3
<1> QED
  BY <1>2, <1>4, <1>8, <1>9, StaysAsItMay DEF Safe, Bare

\* It goes on to its next stage.
LEMMA NextStage ==
  ASSUME ReportsInvariant, NEW w \in Workers, rWk[w].pc # "idle", rJob' = rJob,
         NEW session \in ReportSession, session.pc # "idle", session.job = rWk[w].job,
         rWk' = [rWk EXCEPT ![w] = session]
  PROVE  Safe
<1>1. session.job # 0 /\ session.job \in R!Jobs
  BY DEF ReportsInvariant, ReportsTyped, ReportSession, OneHasAJob
<1>2. PICK row \in JobRow : row = rJob[session.job]
  BY <1>1 DEF ReportsInvariant, ReportsTyped
<1>3. rJob' = [rJob EXCEPT ![session.job] = row]
  BY <1>1, <1>2 DEF ReportsInvariant, ReportsTyped
<1>4. /\ row.state \notin {"absent", "queued"} /\ Bare(session.job)
      /\ \A v \in Workers : v # w => rWk[v].job # session.job
  BY <1>1, <1>2 DEF ReportsInvariant, OneHasAJob, FilesComeOnce
<1>5. ReportsInvariant' /\ Becomes(session.job, row)
  <2>1. row.file = rJob[session.job].file /\ row.expired = rJob[session.job].expired
    BY <1>2
  <2> QED
    BY <1>1, <1>3, <1>4, <2>1, GoesOnWithIt
<1> QED
  BY <1>1, <1>2, <1>4, <1>5, StaysAsItMay DEF Safe, Bare

\* It lets go of its job, whatever state that is left in, if without a file.
LEMMA LetsGoBare ==
  ASSUME ReportsInvariant, NEW w \in Workers, rWk[w].pc # "idle", R!Release(w),
         NEW state \in {"queued", "failed", "cancelled"}, rJob' = [rJob EXCEPT ![rWk[w].job].state = state]
  PROVE  Safe
<1>1. PICK j : j = rWk[w].job
  OBVIOUS
<1>2. j \in R!Jobs /\ j # 0
  BY <1>1 DEF ReportsInvariant, ReportsTyped, ReportSession, OneHasAJob
<1>3. PICK old \in JobRow : old = rJob[j]
  BY <1>2 DEF ReportsInvariant, ReportsTyped
<1>4. PICK row : row = [old EXCEPT !.state = state]
  OBVIOUS
<1>5. row \in JobRow /\ row.file = old.file /\ row.expired = old.expired
  BY <1>4 DEF JobRow
<1>6. rJob' = [rJob EXCEPT ![j] = row]
  BY <1>1, <1>3, <1>4
<1>7. old.file = 0 /\ ~old.expired
  BY <1>1, <1>2, <1>3 DEF ReportsInvariant, FilesComeOnce, Bare
<1>8. ReportsInvariant' /\ Becomes(j, row)
  BY <1>1, <1>5, <1>6, <1>7, LetsGo
<1> QED
  BY <1>2, <1>5, <1>7, <1>8, StaysAsItMay DEF Safe

LEMMA FilesMade ==
  ASSUME ReportsInvariant, NEW w \in Workers, R!Finish(w)
  PROVE  Safe
<1>1. PICK j : j = rWk[w].job
  OBVIOUS
<1>2. j \in R!Jobs /\ rWk[w].pc # "idle" /\ rWk[w].claim \in Nat
  BY <1>1 DEF ReportsInvariant, ReportsTyped, ReportSession, OneHasAJob, R!Finish
<1>3. CASE rWk[w].told
  BY <1>2, <1>3, LetsGoBare DEF R!Finish, R!Built
<1>4. CASE ~rWk[w].told
  <2>1. PICK old \in JobRow : old = rJob[j]
    BY <1>2 DEF ReportsInvariant, ReportsTyped
  <2>2. PICK row : row = [old EXCEPT !.state = "succeeded", !.file = rWk[w].claim, !.expired = FALSE]
    OBVIOUS
  <2>3. row \in JobRow /\ row.state = "succeeded" /\ ~row.expired
    BY <1>2, <2>2 DEF JobRow
  <2>4. rJob' = [rJob EXCEPT ![j] = row] /\ R!Release(w)
    BY <1>1, <1>4, <2>1, <2>2 DEF R!Finish, R!Built
  <2>5. ReportsInvariant' /\ Becomes(j, row) /\ Bare(j)
    BY <1>1, <1>2, <2>3, <2>4, LetsGo
  <2> QED
    BY <1>2, <2>5, StaysAsItMay DEF Safe, Bare
<1> QED
  BY <1>3, <1>4

LEMMA ReportSteps ==
  ASSUME ReportsInvariant, [R!Next]_R!vars
  PROVE  Safe
<1>1. CASE R!Queue \/ R!Retry
  BY <1>1, Enqueues DEF R!Queue, R!Retry
<1>2. CASE R!ScheduleDue
  BY <1>2, Enqueues, Untouched DEF R!ScheduleDue, Safe
<1>3. CASE R!Schedule \/ R!FallsDue \/ R!AccessChanges \/ \E j \in R!Jobs : R!CancelReads(j)
  BY <1>3, Untouched DEF R!Schedule, R!FallsDue, R!AccessChanges, R!CancelReads, Safe
<1>4. CASE R!CleanUp
  BY <1>4, CleansUp
<1>5. ASSUME NEW j \in R!Jobs, R!CancelWrites(j) PROVE Safe
  BY <1>5, Cancels
<1>6. ASSUME NEW w \in Workers, R!Claim(w) PROVE Safe
  BY <1>6, Claims
<1>7. ASSUME NEW w \in Workers, R!Begin(w) PROVE Safe
  <2>0. rWk[w].pc # "idle"
    BY <1>7 DEF R!Begin
  <2>1. CASE R!Release(w) /\ \E state \in {"cancelled", "failed"} : rJob' = [rJob EXCEPT ![rWk[w].job].state = state]
    BY <2>0, <2>1, LetsGoBare
  <2>2. CASE rWk' = [rWk EXCEPT ![w].pc = "permitted"] /\ rJob' = rJob
    <3>1. PICK old \in ReportSession : old = rWk[w]
      BY DEF ReportsInvariant, ReportsTyped
    <3>2. PICK session : session = [old EXCEPT !.pc = "permitted"]
      OBVIOUS
    <3>3. session \in ReportSession /\ session.pc = "permitted" /\ session.job = old.job
      BY <3>2 DEF ReportSession
    <3> QED
      BY <1>7, <2>2, <3>1, <3>2, <3>3, NextStage DEF R!Begin
  <2> QED
    BY <1>7, <2>1, <2>2 DEF R!Begin
<1>8. ASSUME NEW w \in Workers, R!Builds(w) PROVE Safe
  <2>1. PICK old \in ReportSession : old = rWk[w]
    BY DEF ReportsInvariant, ReportsTyped
  <2>2. rJob[old.job].cancel \in BOOLEAN
    <3>1. old.job \in R!Jobs
      BY <1>8, <2>1 DEF ReportsInvariant, ReportsTyped, ReportSession, OneHasAJob, R!Builds
    <3>2. rJob[old.job] \in JobRow
      BY <3>1 DEF ReportsInvariant, ReportsTyped
    <3> QED
      BY <3>2 DEF JobRow
  <2>3. PICK told \in BOOLEAN : told = rJob[old.job].cancel
    BY <2>2
  <2>4. PICK session : session = [old EXCEPT !.pc = "building", !.told = told]
    OBVIOUS
  <2>5. session \in ReportSession /\ session.pc = "building" /\ session.job = old.job
    BY <2>4 DEF ReportSession
  <2>6. rWk' = [rWk EXCEPT ![w] = session] /\ rJob' = rJob
    BY <1>8, <2>1, <2>3, <2>4 DEF R!Builds
  <2> QED
    BY <1>8, <2>1, <2>5, <2>6, NextStage DEF R!Builds
<1>9. ASSUME NEW w \in Workers, R!Finish(w) PROVE Safe
  BY <1>9, FilesMade
<1>10. ASSUME NEW w \in Workers, R!Refuse(w) PROVE Safe
  BY <1>10, LetsGoBare DEF R!Refuse
<1>11. ASSUME NEW w \in Workers, R!Raise(w) PROVE Safe
  <2>1. CASE rJob' = rJob
    BY <1>11, <2>1, LetsItBe DEF R!Raise, Safe, FileStays, R!None, ReportsInvariant, FilesComeOnce
  <2> QED
    BY <1>11, <2>1, LetsGoBare DEF R!Raise
<1>12. ASSUME NEW w \in Workers, R!Crash(w) PROVE Safe
  BY <1>12, LetsItBe DEF R!Crash, Safe, FileStays, R!None, ReportsInvariant, FilesComeOnce
<1>13. CASE UNCHANGED R!vars
  BY <1>13, Untouched DEF R!vars, Safe
<1> QED
  BY <1>1, <1>2, <1>3, <1>4, <1>5, <1>6, <1>7, <1>8, <1>9, <1>10, <1>11, <1>12, <1>13 DEF R!Next, R!Process

LEMMA ReportsStart == R!Init => ReportsInvariant
<1> SUFFICES ASSUME R!Init PROVE ReportsInvariant
  OBVIOUS
<1>1. /\ R!Absent \in JobRow /\ R!Absent.file = 0 /\ ~R!Absent.expired
      /\ R!Idle \in ReportSession /\ R!Idle.pc = "idle" /\ R!Idle.job = 0
  BY DEF R!Absent, R!Idle, R!None, JobRow, ReportSession
<1>2. rJob = [j \in R!Jobs |-> R!Absent] /\ rWk = [w \in Workers |-> R!Idle]
  BY DEF R!Init
<1> HIDE DEF R!Absent, R!Idle
<1> QED
  BY <1>1, <1>2 DEF ReportsInvariant, ReportsTyped, OneHasAJob, FilesComeOnce, Bare

--------------------------------------------------------------------------------
(* Automation: chains end and fire once.                                   *)

Cause == [flow : Flows \cup {"none"}, depth : Nat]

EventRow == [type : {"inputs.ready", "workflow.finished"}, run : Nat, cause : Cause, dispatched : BOOLEAN]

RunRow ==
  [flow : Flows, causation : Cause, chain : Seq(Flows), on : {"outside", "inputs", "event"} \X Nat,
   at : {"running", "synced", "over"}]

Fire == [flow : Flows, key : {"ready", "event"} \X Nat, by : Nat, on : {"inputs", "event"} \X Nat]

Batch ==
  [todo : SUBSET Nat, took : SUBSET Nat, new : {s \in SUBSET Fire : IsFiniteSet(s)},
   waits : SUBSET (Flows \X ({"ready", "event"} \X Nat))]

AutomationTyped ==
  /\ aEvent \in Seq(EventRow)
  /\ aRun \in Seq(RunRow)
  /\ aFires \subseteq Flows \X ({"ready", "event"} \X Nat)
  /\ aInputs \in Nat /\ aOutside \in Nat
  /\ aTx \in [Workers -> Batch]

\* A run is as deep as its chain is long, and follows none of its own flow.
RunSound(row) ==
  /\ row.causation.flow = row.flow /\ row.causation.depth = Len(row.chain)
  /\ row.chain # <<>> /\ row.chain[Len(row.chain)] = row.flow
  /\ Len(row.chain) <= MaxDepth
  /\ \A i \in 1..(Len(row.chain) - 1) : row.chain[i] # row.chain[i + 1]

\* An event is caused by the run that emitted it, or by nobody.
EventSound(row) ==
  \/ row.run = 0 /\ row.cause = A!Nobody
  \/ row.run \in DOMAIN aRun /\ row.cause = aRun[row.run].causation

\* A fire that is flushed may be: its event is there and allows it.
FireSound(x) ==
  /\ x.by \in DOMAIN aEvent
  /\ ~A!Refused(x.flow, aEvent[x.by].cause)
  /\ x.key = IF x.on[1] = "inputs" THEN <<"ready", x.on[2]>> ELSE x.on

ChainsSound ==
  /\ \A r \in DOMAIN aRun : RunSound(aRun[r])
  /\ \A e \in DOMAIN aEvent : EventSound(aEvent[e])
  /\ \A d \in Workers : aTx[d].todo \subseteq DOMAIN aEvent /\ \A x \in aTx[d].new : FireSound(x)

KeyOf(on) == IF on[1] = "inputs" THEN <<"ready", on[2]>> ELSE on

\* What has fired is on record: for each run that did not start from outside, and for
\* nothing that a transaction has flushed and not committed. Nothing is flushed twice.
FiresKept ==
  /\ \A r \in DOMAIN aRun :
       IF aRun[r].on[1] = "outside" THEN aRun[r].on[2] < aOutside ELSE <<aRun[r].flow, KeyOf(aRun[r].on)>> \in aFires
  /\ \A d \in Workers : \A x \in aTx[d].new : <<x.flow, x.key>> \notin aFires
  /\ \A d \in Workers : \A x, y \in aTx[d].new : x # y => <<x.flow, x.key>> # <<y.flow, y.key>>
  /\ \A c, d \in Workers : c # d => \A x \in aTx[c].new, y \in aTx[d].new : <<x.flow, x.key>> # <<y.flow, y.key>>

\* The inductive invariant.
AutomationInvariant == AutomationTyped /\ ChainsSound /\ FiresKept /\ A!FiresOnce

LEMMA AutomationAssumed ==
  /\ IsFiniteSet(Flows) /\ MaxDepth \in Nat \ {0}
  /\ FlowTrigger \in [Flows -> {"inputs.ready", "workflow.finished", "none"}]
  /\ InputBound \in Nat /\ OutsideBound \in Nat
<1>1. A!AutomationAssumption
  BY ServicesAssumption
<1>2. A!IsFiniteSet(Flows) <=> IsFiniteSet(Flows)
  BY DEF A!IsFiniteSet, IsFiniteSet
<1> QED
  BY <1>1, <1>2 DEF A!AutomationAssumption

LEMMA AutomationChains == AutomationInvariant => A!ChainsEnd /\ A!FiresOnce
BY DEF AutomationInvariant, ChainsSound, RunSound, A!ChainsEnd

LEMMA AutomationStart == A!Init => AutomationInvariant
<1> SUFFICES ASSUME A!Init PROVE AutomationInvariant
  OBVIOUS
<1>1. /\ aEvent = <<>> /\ aRun = <<>> /\ aFires = {} /\ aInputs = 0 /\ aOutside = 0
      /\ aTx = [d \in Workers |-> A!NoTx]
  BY DEF A!Init, A!NoInputs
<1>2. A!NoTx \in Batch /\ A!NoTx.new = {} /\ A!NoTx.todo = {}
  BY FS_EmptySet DEF A!NoTx, Batch
<1>3. aEvent \in Seq(EventRow) /\ aRun \in Seq(RunRow) /\ DOMAIN aEvent = {} /\ DOMAIN aRun = {}
  BY <1>1
<1> HIDE DEF A!NoTx
<1>4. AutomationTyped
  BY <1>1, <1>2, <1>3 DEF AutomationTyped
<1>5. ChainsSound
  BY <1>1, <1>2, <1>3 DEF ChainsSound
<1>6. FiresKept
  BY <1>1, <1>2, <1>3 DEF FiresKept
<1> QED
  BY <1>3, <1>4, <1>5, <1>6 DEF AutomationInvariant, A!FiresOnce

--------------------------------------------------------------------------------
\* Events and runs are added, none is taken away, and what they say stays.
HistoryGoesOn ==
  /\ aEvent' \in Seq(EventRow) /\ aRun' \in Seq(RunRow)
  /\ DOMAIN aEvent \subseteq DOMAIN aEvent' /\ DOMAIN aRun \subseteq DOMAIN aRun'
  /\ \A e \in DOMAIN aEvent : aEvent'[e].cause = aEvent[e].cause /\ aEvent'[e].run = aEvent[e].run
  /\ \A r \in DOMAIN aRun :
       /\ aRun'[r].flow = aRun[r].flow /\ aRun'[r].causation = aRun[r].causation
       /\ aRun'[r].chain = aRun[r].chain /\ aRun'[r].on = aRun[r].on

LEMMA SoundGoesOn ==
  ASSUME AutomationInvariant, HistoryGoesOn
  PROVE  /\ \A r \in DOMAIN aRun : RunSound(aRun'[r])
         /\ \A e \in DOMAIN aEvent : EventSound(aEvent[e])'
         /\ \A d \in Workers : \A x \in aTx[d].new : FireSound(x)'
<1>1. ASSUME NEW r \in DOMAIN aRun PROVE RunSound(aRun'[r])
  BY DEF AutomationInvariant, ChainsSound, RunSound, HistoryGoesOn
<1>2. ASSUME NEW e \in DOMAIN aEvent PROVE EventSound(aEvent[e])'
  BY DEF AutomationInvariant, ChainsSound, EventSound, HistoryGoesOn, A!Nobody, A!None
<1>3. ASSUME NEW d \in Workers, NEW x \in aTx[d].new PROVE FireSound(x)'
  BY DEF AutomationInvariant, ChainsSound, FireSound, HistoryGoesOn, A!Refused
<1> QED
  BY <1>1, <1>2, <1>3

LEMMA AutomationRows ==
  ASSUME AutomationTyped
  PROVE  /\ Len(aEvent) \in Nat /\ DOMAIN aEvent = 1..Len(aEvent) /\ \A e \in DOMAIN aEvent : aEvent[e] \in EventRow
         /\ Len(aRun) \in Nat /\ DOMAIN aRun = 1..Len(aRun) /\ \A r \in DOMAIN aRun : aRun[r] \in RunRow
         /\ \A d \in Workers : aTx[d] \in Batch
BY Elements DEF AutomationTyped

\* Where only events and runs are added, it is enough to look at those.
LEMMA HistoryMoves ==
  ASSUME AutomationInvariant, HistoryGoesOn, aFires' = aFires, aTx' = aTx, aInputs' \in Nat, aOutside' \in Nat,
         aOutside <= aOutside',
         \A e \in DOMAIN aEvent' \ DOMAIN aEvent : EventSound(aEvent[e])',
         \A r \in DOMAIN aRun' \ DOMAIN aRun :
           RunSound(aRun'[r]) /\ aRun'[r].on = <<"outside", aOutside>> /\ aOutside < aOutside',
         \A r, q \in DOMAIN aRun' \ DOMAIN aRun : r = q
  PROVE  AutomationInvariant'
<1>0. AutomationTyped /\ ChainsSound /\ FiresKept /\ A!FiresOnce
  BY DEF AutomationInvariant
<1>1. AutomationTyped'
  BY <1>0 DEF AutomationTyped, HistoryGoesOn
<1>2. ChainsSound'
  <2>1. \A r \in DOMAIN aRun' : RunSound(aRun'[r])
    BY SoundGoesOn
  <2>2. \A e \in DOMAIN aEvent' : EventSound(aEvent[e])'
    BY SoundGoesOn
  <2>3. \A d \in Workers : aTx'[d].todo \subseteq DOMAIN aEvent' /\ \A x \in aTx'[d].new : FireSound(x)'
    BY <1>0, SoundGoesOn DEF ChainsSound, HistoryGoesOn
  <2> QED
    BY <2>1, <2>2, <2>3 DEF ChainsSound
<1>3. \A r \in DOMAIN aRun : aRun[r].on[1] = "outside" => aRun[r].on[2] < aOutside /\ aRun[r].on[2] \in Nat
  <2>1. \A r \in DOMAIN aRun : aRun[r].on \in {"outside", "inputs", "event"} \X Nat
    BY <1>0, AutomationRows DEF RunRow
  <2> QED
    BY <1>0, <2>1 DEF FiresKept
<1>4. FiresKept'
  <2>1. \A r \in DOMAIN aRun' :
          IF aRun'[r].on[1] = "outside" THEN aRun'[r].on[2] < aOutside'
                                        ELSE <<aRun'[r].flow, KeyOf(aRun'[r].on)>> \in aFires'
    <3> SUFFICES ASSUME NEW r \in DOMAIN aRun'
                 PROVE  IF aRun'[r].on[1] = "outside" THEN aRun'[r].on[2] < aOutside'
                                        ELSE <<aRun'[r].flow, KeyOf(aRun'[r].on)>> \in aFires'
      OBVIOUS
    <3>1. CASE r \in DOMAIN aRun
      <4>1. aRun'[r].on = aRun[r].on /\ aRun'[r].flow = aRun[r].flow
        BY <3>1 DEF HistoryGoesOn
      <4>2. aRun[r].on[1] = "outside" => aRun[r].on[2] < aOutside'
        BY <1>0, <1>3, <3>1 DEF AutomationTyped
      <4> QED
        BY <1>0, <3>1, <4>1, <4>2 DEF FiresKept
    <3>2. CASE r \notin DOMAIN aRun
      BY <3>2
    <3> QED
      BY <3>1, <3>2
  <2> QED
    BY <1>0, <2>1 DEF FiresKept
<1>5. A!FiresOnce'
  <2> SUFFICES ASSUME NEW r \in DOMAIN aRun', NEW q \in DOMAIN aRun', r # q,
                      aRun'[r].flow = aRun'[q].flow, aRun'[r].on = aRun'[q].on
               PROVE  FALSE
    BY DEF A!FiresOnce
  <2>1. CASE r \in DOMAIN aRun /\ q \in DOMAIN aRun
    BY <1>0, <2>1 DEF A!FiresOnce, HistoryGoesOn
  <2>2. ASSUME NEW p \in DOMAIN aRun, NEW n \in DOMAIN aRun' \ DOMAIN aRun, aRun'[p].on = aRun'[n].on PROVE FALSE
    <3>1. aRun[p].on = <<"outside", aOutside>>
      BY <2>2 DEF HistoryGoesOn
    <3>2. aOutside < aOutside /\ aOutside \in Nat
      BY <1>0, <1>3, <3>1 DEF AutomationTyped
    <3> QED
      BY <3>2
  <2> QED
    BY <2>1, <2>2
<1> QED
  BY <1>1, <1>2, <1>4, <1>5 DEF AutomationInvariant

\* A run that starts as it may is sound.
LEMMA NewRunIsSound ==
  ASSUME MaxDepth \in Nat \ {0}, NEW flow \in Flows, NEW cause \in Cause, NEW chain \in Seq(Flows),
         Len(chain) = cause.depth, cause.depth < MaxDepth,
         chain # <<>> => chain[Len(chain)] = cause.flow /\ cause.flow # flow,
         \A i \in 1..(Len(chain) - 1) : chain[i] # chain[i + 1],
         NEW on \in {"outside", "inputs", "event"} \X Nat,
         NEW row, row = A!NewRun(flow, cause, chain, on)
  PROVE  row \in RunRow /\ RunSound(row) /\ row.on = on /\ row.flow = flow
<1>1. PICK longer : longer = Append(chain, flow)
  OBVIOUS
<1>2. /\ longer \in Seq(Flows) /\ Len(chain) \in Nat /\ Len(longer) = Len(chain) + 1
      /\ DOMAIN chain = 1..Len(chain)
      /\ \A i \in DOMAIN chain : longer[i] = chain[i]
      /\ longer[Len(chain) + 1] = flow
  BY <1>1, Appended
<1>3. PICK next : next = A!Causation(flow, cause)
  OBVIOUS
<1>11. next \in Cause /\ next.flow = flow /\ next.depth = cause.depth + 1
  <2>1. cause.depth + 1 \in Nat
    BY DEF Cause
  <2> QED
    BY <1>3, <2>1 DEF A!Causation, Cause
<1>4. row = [flow |-> flow, causation |-> next, chain |-> longer, on |-> on, at |-> "running"]
  BY <1>1, <1>3 DEF A!NewRun
<1>5. row \in RunRow
  BY <1>2, <1>4, <1>11 DEF RunRow
<1>6. row.flow = flow /\ row.causation = next /\ row.chain = longer /\ row.on = on
  BY <1>4
<1>7. chain # <<>> => Len(chain) # 0
  BY <1>2
<1>8. \A i \in 1..(Len(longer) - 1) : longer[i] # longer[i + 1]
  <2> SUFFICES ASSUME NEW i \in 1..Len(chain) PROVE longer[i] # longer[i + 1]
    BY <1>2
  <2>1. CASE i = Len(chain)
    <3>1. chain # <<>>
      BY <2>1
    <3> QED
      BY <1>2, <2>1, <3>1
  <2>2. CASE i # Len(chain)
    <3>1. i \in 1..(Len(chain) - 1) /\ i \in DOMAIN chain /\ i + 1 \in DOMAIN chain
      BY <1>2, <2>2
    <3> QED
      BY <1>2, <3>1
  <2> QED
    BY <2>1, <2>2
<1>9. longer # <<>>
  BY <1>2
<1>10. cause.depth \in Nat
  BY DEF Cause
<1>12. /\ row.causation.flow = row.flow /\ row.causation.depth = Len(row.chain)
       /\ row.chain # <<>> /\ row.chain[Len(row.chain)] = row.flow
  BY <1>2, <1>6, <1>9, <1>11
<1>13. Len(row.chain) <= MaxDepth
  BY <1>2, <1>6, <1>10
<1>14. \A i \in 1..(Len(row.chain) - 1) : row.chain[i] # row.chain[i + 1]
  BY <1>6, <1>8
<1>15. RunSound(row)
  BY <1>12, <1>13, <1>14, Zenon DEF RunSound
<1> QED
  BY <1>5, <1>6, <1>15

\* What leads to an event that is there.
LEMMA ChainOfEvent ==
  ASSUME AutomationInvariant, NEW e \in DOMAIN aEvent, NEW chain, chain = A!ChainOf(e)
  PROVE  /\ chain \in Seq(Flows) /\ aEvent[e].cause \in Cause /\ Len(chain) = aEvent[e].cause.depth
         /\ chain # <<>> => chain[Len(chain)] = aEvent[e].cause.flow
         /\ \A i \in 1..(Len(chain) - 1) : chain[i] # chain[i + 1]
<1>0. aEvent[e] \in EventRow /\ EventSound(aEvent[e])
  BY AutomationRows DEF AutomationInvariant, ChainsSound
<1>1. aEvent[e].cause \in Cause
  BY <1>0 DEF EventRow
<1>2. CASE aEvent[e].run = 0
  <2>1. 0 \notin DOMAIN aRun
    BY AutomationRows DEF AutomationInvariant
  <2>2. aEvent[e].cause.depth = 0
    BY <1>0, <1>2, <2>1 DEF EventSound, A!Nobody
  <2>3. chain = <<>>
    BY <1>2 DEF A!ChainOf
  <2> QED
    BY <1>1, <2>2, <2>3
<1>3. CASE aEvent[e].run # 0
  <2>1. aEvent[e].run \in DOMAIN aRun /\ aEvent[e].cause = aRun[aEvent[e].run].causation
    BY <1>0, <1>3 DEF EventSound
  <2>2. PICK row \in RunRow : row = aRun[aEvent[e].run]
    BY <2>1, AutomationRows DEF AutomationInvariant
  <2>3. RunSound(row)
    BY <2>1, <2>2 DEF AutomationInvariant, ChainsSound
  <2>4. chain = row.chain
    BY <1>3, <2>2 DEF A!ChainOf
  <2>5. row.chain \in Seq(Flows)
    BY DEF RunRow
  <2> QED
    BY <1>1, <2>1, <2>2, <2>3, <2>4, <2>5 DEF RunSound
<1> QED
  BY <1>2, <1>3

\* An event is emitted by run r, or by nobody.
LEMMA Emits ==
  ASSUME AutomationTyped, ChainsSound, NEW type \in {"inputs.ready", "workflow.finished"},
         NEW r \in DOMAIN aRun \cup {0}, aEvent' = Append(aEvent, A!Emitted(type, r))
  PROVE  /\ aEvent' \in Seq(EventRow) /\ DOMAIN aEvent \subseteq DOMAIN aEvent'
         /\ \A e \in DOMAIN aEvent : aEvent'[e] = aEvent[e]
         /\ \A e \in DOMAIN aEvent' \ DOMAIN aEvent :
              /\ aEvent'[e].run = r
              /\ aEvent'[e].cause = IF r = 0 THEN A!Nobody ELSE aRun[r].causation
<1>0. r \in Nat
  BY AutomationRows
<1>1. PICK cause : cause = IF r = 0 THEN A!Nobody ELSE aRun[r].causation
  OBVIOUS
<1>2. cause \in Cause
  <2>1. CASE r = 0
    BY <1>1, <2>1 DEF A!Nobody, A!None, Cause
  <2>2. CASE r # 0
    <3>1. aRun[r] \in RunRow
      BY <2>2, AutomationRows
    <3> QED
      BY <1>1, <2>2, <3>1 DEF RunRow
  <2> QED
    BY <2>1, <2>2
<1>3. PICK row : row = [type |-> type, run |-> r, cause |-> cause, dispatched |-> FALSE]
  OBVIOUS
<1>4. row \in EventRow /\ row.run = r /\ row.cause = cause
  BY <1>0, <1>2, <1>3 DEF EventRow
<1>5. aEvent' = Append(aEvent, row)
  BY <1>1, <1>3 DEF A!Emitted
<1>6. /\ aEvent' \in Seq(EventRow)
      /\ DOMAIN aEvent = 1..Len(aEvent) /\ DOMAIN aEvent' = 1..(Len(aEvent) + 1) /\ Len(aEvent) \in Nat
      /\ \A e \in DOMAIN aEvent : aEvent'[e] = aEvent[e]
      /\ aEvent'[Len(aEvent) + 1] = row
  BY <1>4, <1>5, Appended DEF AutomationTyped
<1>7. \A e \in DOMAIN aEvent' \ DOMAIN aEvent : aEvent'[e] = row
  BY <1>6
<1> QED
  BY <1>1, <1>4, <1>6, <1>7

LEMMA Emitters ==
  ASSUME AutomationInvariant,
         A!Import \/ \E r \in DOMAIN aRun : A!RunImports(r) \/ A!RunFinishes(r)
  PROVE  AutomationInvariant'
<1>0. AutomationTyped /\ ChainsSound
  BY DEF AutomationInvariant
<1>1. CASE A!Import
  <2>1. /\ aEvent' = Append(aEvent, A!Emitted("inputs.ready", 0)) /\ aOutside' = aOutside + 1
        /\ UNCHANGED <<aRun, aFires, aTx>>
    BY <1>1 DEF A!Import, A!Lands
  <2>2. aInputs' \in Nat
    BY <1>1, AutomationAssumed DEF A!Import, A!Lands
  <2>3. /\ aEvent' \in Seq(EventRow) /\ DOMAIN aEvent \subseteq DOMAIN aEvent'
        /\ \A e \in DOMAIN aEvent : aEvent'[e] = aEvent[e]
        /\ \A e \in DOMAIN aEvent' \ DOMAIN aEvent : aEvent'[e].run = 0 /\ aEvent'[e].cause = A!Nobody
    BY <1>0, <2>1, Emits
  <2>4. HistoryGoesOn
    BY <1>0, <2>1, <2>3 DEF HistoryGoesOn, AutomationTyped
  <2>5. \A e \in DOMAIN aEvent' \ DOMAIN aEvent : EventSound(aEvent[e])'
    BY <2>3 DEF EventSound
  <2>6. aOutside' \in Nat /\ aOutside <= aOutside'
    BY <1>0, <2>1 DEF AutomationTyped
  <2> QED
    BY <2>1, <2>2, <2>4, <2>5, <2>6, HistoryMoves
<1>2. ASSUME NEW r \in DOMAIN aRun, A!RunImports(r) \/ A!RunFinishes(r) PROVE AutomationInvariant'
  <2>1. PICK type \in {"inputs.ready", "workflow.finished"}, at \in {"synced", "over"} :
          /\ aEvent' = Append(aEvent, A!Emitted(type, r))
          /\ aRun' = [aRun EXCEPT ![r].at = at]
    BY <1>2 DEF A!RunImports, A!RunFinishes, A!Lands
  <2>2. UNCHANGED <<aFires, aTx, aOutside>> /\ aInputs' \in Nat
    BY <1>0, <1>2, AutomationAssumed DEF A!RunImports, A!RunFinishes, A!Lands, AutomationTyped
  <2>3. r # 0
    BY <1>0, AutomationRows
  <2>4. /\ aEvent' \in Seq(EventRow) /\ DOMAIN aEvent \subseteq DOMAIN aEvent'
        /\ \A e \in DOMAIN aEvent : aEvent'[e] = aEvent[e]
        /\ \A e \in DOMAIN aEvent' \ DOMAIN aEvent : aEvent'[e].run = r /\ aEvent'[e].cause = aRun[r].causation
    BY <1>0, <2>1, <2>3, Emits
  <2>5. PICK old \in RunRow : old = aRun[r]
    BY <1>0, AutomationRows
  <2>6. PICK row : row = [old EXCEPT !.at = at]
    OBVIOUS
  <2>7. /\ row \in RunRow /\ row.flow = old.flow /\ row.causation = old.causation /\ row.chain = old.chain
        /\ row.on = old.on
    BY <2>6 DEF RunRow
  <2>8. aRun' = [aRun EXCEPT ![r] = row]
    BY <2>1, <2>5, <2>6
  <2>9. /\ aRun' \in Seq(RunRow) /\ DOMAIN aRun' = DOMAIN aRun /\ aRun'[r] = row
        /\ \A q \in DOMAIN aRun : q # r => aRun'[q] = aRun[q]
    BY <1>0, <2>7, <2>8, Replaced DEF AutomationTyped
  <2>10. HistoryGoesOn
    BY <2>4, <2>5, <2>7, <2>9 DEF HistoryGoesOn
  <2>11. \A e \in DOMAIN aEvent' \ DOMAIN aEvent : EventSound(aEvent[e])'
    BY <2>4, <2>5, <2>7, <2>9 DEF EventSound
  <2>12. aOutside' \in Nat /\ aOutside <= aOutside'
    BY <1>0, <2>2 DEF AutomationTyped
  <2> QED
    BY <2>2, <2>9, <2>10, <2>11, <2>12, HistoryMoves
<1> QED
  BY <1>1, <1>2

LEMMA StartsFromOutside ==
  ASSUME AutomationInvariant, NEW f \in Flows, A!Start(f)
  PROVE  AutomationInvariant'
<1>0. AutomationTyped /\ aOutside \in Nat
  BY DEF AutomationInvariant, AutomationTyped
<1>1. PICK row : row = A!NewRun(f, A!Nobody, <<>>, <<"outside", aOutside>>)
  OBVIOUS
<1>2. /\ A!Nobody \in Cause /\ A!Nobody.depth = 0
      /\ <<"outside", aOutside>> \in {"outside", "inputs", "event"} \X Nat
  BY <1>0 DEF A!Nobody, A!None, Cause
<1>3. row \in RunRow /\ RunSound(row) /\ row.on = <<"outside", aOutside>>
  <2>1. PICK cause \in Cause : cause = A!Nobody /\ cause.depth = 0
    BY <1>2
  <2>8. <<>> \in Seq(Flows)
    OBVIOUS
  <2>2. PICK chain \in Seq(Flows) : chain = <<>>
    BY <2>8, Zenon
  <2>6. Len(chain) = 0
    BY <2>2
  <2>3. PICK on \in {"outside", "inputs", "event"} \X Nat : on = <<"outside", aOutside>>
    BY <1>2
  <2>4. row = A!NewRun(f, cause, chain, on)
    BY <1>1, <2>1, <2>2, <2>3
  <2>5. /\ MaxDepth \in Nat \ {0} /\ cause.depth < MaxDepth /\ Len(chain) = cause.depth
        /\ \A i \in 1..(Len(chain) - 1) : chain[i] # chain[i + 1]
    BY <2>1, <2>6, AutomationAssumed
  <2>7. row \in RunRow /\ RunSound(row) /\ row.on = on
    <3>1. chain # <<>> => chain[Len(chain)] = cause.flow /\ cause.flow # f
      BY <2>2
    <3> QED
      BY <2>4, <2>5, <3>1, NewRunIsSound
  <2> QED
    BY <2>3, <2>7
<1>4. aRun' = Append(aRun, row) /\ aOutside' = aOutside + 1 /\ UNCHANGED <<aEvent, aFires, aInputs, aTx>>
  BY <1>1 DEF A!Start
<1>5. /\ aRun' \in Seq(RunRow) /\ Len(aRun) \in Nat
      /\ DOMAIN aRun = 1..Len(aRun) /\ DOMAIN aRun' = 1..(Len(aRun) + 1)
      /\ \A i \in DOMAIN aRun : aRun'[i] = aRun[i]
      /\ aRun'[Len(aRun) + 1] = row
  BY <1>0, <1>3, <1>4, Appended DEF AutomationTyped
<1>6. \A r \in DOMAIN aRun' \ DOMAIN aRun : r = Len(aRun) + 1 /\ aRun'[r] = row
  BY <1>5
<1>7. HistoryGoesOn
  BY <1>0, <1>4, <1>5 DEF HistoryGoesOn, AutomationTyped
<1>8. aInputs' \in Nat /\ aOutside' \in Nat /\ aOutside < aOutside' /\ aOutside <= aOutside'
  BY <1>0, <1>4 DEF AutomationTyped
<1> QED
  BY <1>3, <1>4, <1>6, <1>7, <1>8, HistoryMoves

--------------------------------------------------------------------------------
\* What transaction d may have flushed.
MayFlush(d, new) ==
  /\ \A x \in new : FireSound(x) /\ <<x.flow, x.key>> \notin aFires
  /\ \A x, y \in new : x # y => <<x.flow, x.key>> # <<y.flow, y.key>>
  /\ \A c \in Workers \ {d} : \A x \in new, y \in aTx[c].new : <<x.flow, x.key>> # <<y.flow, y.key>>

\* A transaction goes on to `batch`, and nothing is committed.
LEMMA BatchWritten ==
  ASSUME AutomationInvariant, NEW d \in Workers, NEW batch \in Batch,
         aTx' = [aTx EXCEPT ![d] = batch], UNCHANGED <<aEvent, aRun, aFires, aInputs, aOutside>>,
         batch.todo \subseteq DOMAIN aEvent, MayFlush(d, batch.new)
  PROVE  AutomationInvariant'
<1> USE DEF MayFlush
<1>0. AutomationTyped /\ ChainsSound /\ FiresKept /\ A!FiresOnce
  BY DEF AutomationInvariant
<1>1. aTx' \in [Workers -> Batch] /\ aTx'[d] = batch /\ \A c \in Workers \ {d} : aTx'[c] = aTx[c]
  BY <1>0 DEF AutomationTyped
<1>2. AutomationTyped'
  BY <1>0, <1>1 DEF AutomationTyped
<1>3. ChainsSound'
  <2>1. \A x : FireSound(x) => FireSound(x)'
    BY DEF FireSound
  <2>2. \A c \in Workers : aTx'[c].todo \subseteq DOMAIN aEvent /\ \A x \in aTx'[c].new : FireSound(x)'
    BY <1>0, <1>1, <2>1 DEF ChainsSound
  <2> QED
    BY <1>0, <2>2 DEF ChainsSound, EventSound
<1>4. FiresKept'
  <2>1. \A c \in Workers : \A x \in aTx'[c].new : <<x.flow, x.key>> \notin aFires
    BY <1>0, <1>1 DEF FiresKept
  <2>2. \A c \in Workers : \A x, y \in aTx'[c].new : x # y => <<x.flow, x.key>> # <<y.flow, y.key>>
    BY <1>0, <1>1 DEF FiresKept
  <2>3. ASSUME NEW b \in Workers, NEW c \in Workers, b # c, NEW x \in aTx'[b].new, NEW y \in aTx'[c].new
        PROVE  <<x.flow, x.key>> # <<y.flow, y.key>>
    <3>1. CASE b = d
      BY <1>1, <2>3, <3>1
    <3>2. CASE c = d
      BY <1>1, <2>3, <3>2
    <3>3. CASE b # d /\ c # d
      BY <1>0, <1>1, <2>3, <3>3 DEF FiresKept
    <3> QED
      BY <3>1, <3>2, <3>3
  <2> QED
    BY <1>0, <2>1, <2>2, <2>3 DEF FiresKept
<1>5. A!FiresOnce'
  BY <1>0 DEF A!FiresOnce
<1> QED
  BY <1>2, <1>3, <1>4, <1>5 DEF AutomationInvariant

\* The batch flushes nothing more, or loses what it flushed.
LEMMA BatchKept ==
  ASSUME AutomationInvariant, NEW d \in Workers, NEW batch \in Batch,
         aTx' = [aTx EXCEPT ![d] = batch], UNCHANGED <<aEvent, aRun, aFires, aInputs, aOutside>>,
         batch.todo \subseteq DOMAIN aEvent, batch.new = {} \/ batch.new = aTx[d].new
  PROVE  AutomationInvariant'
<1>0. AutomationTyped /\ ChainsSound /\ FiresKept
  BY DEF AutomationInvariant
<1>1. \A x \in batch.new : FireSound(x) /\ <<x.flow, x.key>> \notin aFires
  BY <1>0 DEF ChainsSound, FiresKept
<1>2. \A x, y \in batch.new : x # y => <<x.flow, x.key>> # <<y.flow, y.key>>
  BY <1>0 DEF FiresKept
<1>3. \A c \in Workers \ {d} : \A x \in batch.new, y \in aTx[c].new : <<x.flow, x.key>> # <<y.flow, y.key>>
  BY <1>0 DEF FiresKept
<1>4. MayFlush(d, batch.new)
  BY <1>1, <1>2, <1>3 DEF MayFlush
<1> QED
  BY <1>4, BatchWritten

LEMMA NothingFlushed == A!NoTx \in Batch /\ A!NoTx.new = {} /\ A!NoTx.todo = {}
BY FS_EmptySet DEF A!NoTx, Batch

LEMMA BatchTaken ==
  ASSUME AutomationInvariant, NEW d \in Workers, A!Take(d)
  PROVE  AutomationInvariant'
<1>0. AutomationTyped
  BY DEF AutomationInvariant
<1>1. PICK todo : todo = A!Undispatched \ A!Locked
  OBVIOUS
<1>2. todo \subseteq DOMAIN aEvent /\ todo \subseteq Nat
  BY <1>0, <1>1, AutomationRows DEF A!Undispatched
<1>3. PICK old \in Batch : old = aTx[d]
  BY <1>0 DEF AutomationTyped
<1>4. PICK batch : batch = [old EXCEPT !.todo = todo]
  OBVIOUS
<1>5. batch \in Batch /\ batch.todo = todo /\ batch.new = old.new
  BY <1>2, <1>4 DEF Batch
<1>6. aTx' = [aTx EXCEPT ![d] = batch] /\ UNCHANGED <<aEvent, aRun, aFires, aInputs, aOutside>>
  BY <1>1, <1>3, <1>4 DEF A!Take
<1> QED
  BY <1>2, <1>3, <1>5, <1>6, BatchKept

LEMMA BatchLost ==
  ASSUME AutomationInvariant, NEW d \in Workers, A!Dies(d) \/ A!StopsWaiting(d)
  PROVE  AutomationInvariant'
<1>0. AutomationTyped /\ ChainsSound
  BY DEF AutomationInvariant
<1>1. UNCHANGED <<aEvent, aRun, aFires, aInputs, aOutside>>
  BY DEF A!Dies, A!StopsWaiting
<1>2. CASE aTx' = [aTx EXCEPT ![d] = A!NoTx]
  <2> HIDE DEF A!NoTx
  <2> QED
    BY <1>1, <1>2, NothingFlushed, BatchKept
<1>3. CASE aTx' = [aTx EXCEPT ![d].waits = {}]
  <2>1. PICK old \in Batch : old = aTx[d]
    BY <1>0 DEF AutomationTyped
  <2>2. PICK batch : batch = [old EXCEPT !.waits = {}]
    OBVIOUS
  <2>3. batch \in Batch /\ batch.todo = old.todo /\ batch.new = old.new
    BY <2>2 DEF Batch
  <2>4. batch.todo \subseteq DOMAIN aEvent
    BY <1>0, <2>1, <2>3 DEF ChainsSound
  <2>5. aTx' = [aTx EXCEPT ![d] = batch]
    BY <1>3, <2>1, <2>2
  <2> QED
    BY <1>1, <2>1, <2>3, <2>4, <2>5, BatchKept
<1> QED
  BY <1>2, <1>3 DEF A!Dies, A!StopsWaiting

\* What an event starts may be flushed, if no fire is on record or flushed for it.
LEMMA StartsMayFire ==
  ASSUME AutomationInvariant, NEW d \in Workers, NEW e \in DOMAIN aEvent, NEW new \in SUBSET A!Starts(d, e)
  PROVE  /\ new \in SUBSET Fire /\ IsFiniteSet(new)
         /\ \A x \in new : FireSound(x)
         /\ \A x, y \in new : x.flow = y.flow => x = y
<1>0. AutomationTyped /\ e \in Nat
  BY AutomationRows DEF AutomationInvariant
<1>1. ASSUME NEW x \in new
      PROVE  /\ x.flow \in Flows /\ ~A!Refused(x.flow, aEvent[e].cause)
             /\ x = [flow |-> x.flow, key |-> A!Key(x.flow, e), by |-> e, on |-> A!On(x.flow, e)]
  <2>1. PICK f \in Flows : /\ ~A!Refused(f, aEvent[e].cause)
                          /\ x = [flow |-> f, key |-> A!Key(f, e), by |-> e, on |-> A!On(f, e)]
    BY Zenon DEF A!Starts
  <2>2. x.flow = f
    BY <2>1
  <2> QED
    BY <2>1, <2>2
<1>2. ASSUME NEW x \in new PROVE x \in Fire
  <2>1. /\ A!Key(x.flow, e) \in {"ready", "event"} \X Nat
        /\ A!On(x.flow, e) \in {"inputs", "event"} \X Nat
    BY <1>0 DEF A!Key, A!On, AutomationTyped
  <2>2. PICK flow \in Flows, key \in {"ready", "event"} \X Nat, on \in {"inputs", "event"} \X Nat :
          x = [flow |-> flow, key |-> key, by |-> e, on |-> on]
    BY <1>1, <2>1
  <2> QED
    BY <1>0, <2>2 DEF Fire
<1>3. ASSUME NEW x \in new PROVE FireSound(x)
  <2>1. /\ x.by = e /\ x.key = A!Key(x.flow, e) /\ x.on = A!On(x.flow, e)
    BY <1>1
  <2>2. x.key = IF x.on[1] = "inputs" THEN <<"ready", x.on[2]>> ELSE x.on
    BY <2>1 DEF A!Key, A!On
  <2> QED
    BY <1>1, <2>1, <2>2 DEF FireSound
<1>4. \A x, y \in new : x.flow = y.flow => x = y
  BY <1>1
<1>5. IsFiniteSet(new)
  <2> DEFINE f == [x \in new |-> x.flow]
  <2>1. f \in Injection(new, Flows)
    BY <1>1, <1>4 DEF Injection, IsInjective
  <2> HIDE DEF f
  <2> QED
    BY <2>1, AutomationAssumed, FS_Injection
<1> QED
  BY <1>2, <1>3, <1>4, <1>5

LEMMA BatchHandled ==
  ASSUME AutomationInvariant, NEW d \in Workers, A!Handle(d)
  PROVE  AutomationInvariant'
<1>0. AutomationTyped /\ ChainsSound /\ FiresKept
  BY DEF AutomationInvariant
<1>1. UNCHANGED <<aEvent, aRun, aFires, aInputs, aOutside>>
  BY DEF A!Handle
<1>2. PICK old \in Batch : old = aTx[d]
  BY <1>0 DEF AutomationTyped
<1>3. old.todo \subseteq DOMAIN aEvent /\ old.todo \subseteq Nat /\ old.todo # {}
  BY <1>0, <1>2 DEF ChainsSound, A!Handle, Batch
<1>4. PICK e : e = A!Min(aTx[d].todo)
  OBVIOUS
<1>5. e \in old.todo
  <2>1. \E x \in old.todo : \A y \in old.todo : x <= y
    BY <1>3, HasLeast
  <2> QED
    BY <1>2, <1>4, <2>1 DEF A!Min
<1>6. PICK new \in SUBSET A!Starts(d, e) :
        \/ /\ A!Keys(new) \cap A!HeldByOthers(d) # {}
           /\ aTx' = [aTx EXCEPT ![d].waits = A!Keys(new)]
        \/ /\ A!Keys(new) \cap A!HeldByOthers(d) = {}
           /\ A!Keys(new) \cap (aFires \cup A!Keys(aTx[d].new)) # {}
           /\ aTx' = [aTx EXCEPT ![d] = A!NoTx]
        \/ /\ A!Keys(new) \cap (A!HeldByOthers(d) \cup aFires \cup A!Keys(aTx[d].new)) = {}
           /\ aTx' = [aTx EXCEPT ![d].todo = @ \ {e}, ![d].took = @ \cup {e}, ![d].new = @ \cup new]
  BY <1>4 DEF A!Handle
<1>7. /\ new \in SUBSET Fire /\ IsFiniteSet(new)
      /\ \A x \in new : FireSound(x)
      /\ \A x, y \in new : x.flow = y.flow => x = y
  <2>1. e \in DOMAIN aEvent
    BY <1>3, <1>5
  <2> QED
    BY <2>1, StartsMayFire
<1>8. CASE aTx' = [aTx EXCEPT ![d].waits = A!Keys(new)]
  <2>1. PICK waits : waits = A!Keys(new)
    OBVIOUS
  <2>2. waits \subseteq Flows \X ({"ready", "event"} \X Nat)
    BY <1>7, <2>1 DEF A!Keys, Fire
  <2>3. PICK batch : batch = [old EXCEPT !.waits = waits]
    OBVIOUS
  <2>4. batch \in Batch /\ batch.todo = old.todo /\ batch.new = old.new
    BY <2>2, <2>3 DEF Batch
  <2>5. aTx' = [aTx EXCEPT ![d] = batch]
    BY <1>2, <1>8, <2>1, <2>3
  <2> QED
    BY <1>1, <1>2, <1>3, <2>4, <2>5, BatchKept
<1>9. CASE aTx' = [aTx EXCEPT ![d] = A!NoTx]
  <2> HIDE DEF A!NoTx
  <2> QED
    BY <1>1, <1>9, NothingFlushed, BatchKept
<1>10. ASSUME A!Keys(new) \cap (A!HeldByOthers(d) \cup aFires \cup A!Keys(old.new)) = {},
              aTx' = [aTx EXCEPT ![d].todo = @ \ {e}, ![d].took = @ \cup {e}, ![d].new = @ \cup new]
       PROVE  AutomationInvariant'
  <2>1. PICK flushed : flushed = old.new \cup new
    OBVIOUS
  <2>2. flushed \in {s \in SUBSET Fire : IsFiniteSet(s)}
    <3>1. old.new \in SUBSET Fire /\ IsFiniteSet(old.new)
      BY DEF Batch
    <3>2. IsFiniteSet(old.new \cup new)
      BY <1>7, <3>1, FS_Union
    <3> QED
      BY <1>7, <2>1, <3>1, <3>2
  <2>3. PICK batch : batch = [aTx[d] EXCEPT !.todo = @ \ {e}, !.took = @ \cup {e}, !.new = @ \cup new]
    OBVIOUS
  <2>4. batch \in Batch /\ batch.todo = old.todo \ {e} /\ batch.new = flushed
    BY <1>2, <1>3, <1>5, <2>1, <2>2, <2>3 DEF Batch
  <2>5. aTx' = [aTx EXCEPT ![d] = batch]
    BY <1>10, <2>3
  <2>6. \A x \in new : <<x.flow, x.key>> \in A!Keys(new)
    BY DEF A!Keys
  <2>7. \A x \in flushed : FireSound(x) /\ <<x.flow, x.key>> \notin aFires
    BY <1>0, <1>2, <1>7, <1>10, <2>1, <2>6 DEF ChainsSound, FiresKept
  <2>8. ASSUME NEW x \in new, NEW y \in old.new PROVE <<x.flow, x.key>> # <<y.flow, y.key>>
    <3>1. <<y.flow, y.key>> \in A!Keys(old.new)
      BY DEF A!Keys
    <3> QED
      BY <1>10, <2>6, <3>1
  <2>9. \A x, y \in flushed : x # y => <<x.flow, x.key>> # <<y.flow, y.key>>
    <3> SUFFICES ASSUME NEW x \in flushed, NEW y \in flushed, x # y
                 PROVE  <<x.flow, x.key>> # <<y.flow, y.key>>
      OBVIOUS
    <3>1. CASE x \in new /\ y \in new
      BY <1>7, <3>1
    <3>2. CASE x \in new /\ y \in old.new
      BY <2>8, <3>2
    <3>3. CASE x \in old.new /\ y \in new
      BY <2>8, <3>3
    <3>4. CASE x \in old.new /\ y \in old.new
      BY <1>0, <1>2, <3>4 DEF FiresKept
    <3> QED
      BY <2>1, <3>1, <3>2, <3>3, <3>4
  <2>10. ASSUME NEW c \in Workers \ {d}, NEW x \in flushed, NEW y \in aTx[c].new
         PROVE  <<x.flow, x.key>> # <<y.flow, y.key>>
    <3>1. CASE x \in new
      <4>1. <<y.flow, y.key>> \in A!HeldByOthers(d)
        BY DEF A!HeldByOthers, A!Keys
      <4> QED
        BY <1>10, <2>6, <3>1, <4>1
    <3>2. CASE x \in old.new
      BY <1>0, <1>2, <3>2 DEF FiresKept
    <3> QED
      BY <2>1, <3>1, <3>2
  <2>11. MayFlush(d, batch.new)
    BY <2>4, <2>7, <2>9, <2>10 DEF MayFlush
  <2>12. batch.todo \subseteq DOMAIN aEvent
    BY <1>3, <2>4
  <2> QED
    BY <1>1, <2>4, <2>5, <2>11, <2>12, BatchWritten
<1> QED
  BY <1>2, <1>6, <1>8, <1>9, <1>10, Zenon

\* A finite set put in a sequence.
LEMMA Listed ==
  ASSUME NEW S, IsFiniteSet(S), NEW s, s = A!SetToSeq(S)
  PROVE  s \in Seq(S) /\ \A i, j \in DOMAIN s : s[i] = s[j] => i = j
<1>1. Cardinality(S) \in Nat /\ ExistsBijection(1..Cardinality(S), S)
  BY FS_CardinalityType
<1>2. A!Cardinality(S) = Cardinality(S)
  BY DEF A!Cardinality, Cardinality
<1>3. PICK f : f \in [1..Cardinality(S) -> S] /\ A!IsInjective(f)
  BY <1>1 DEF ExistsBijection, Bijection, Injection, IsInjective, A!IsInjective
<1>4. PICK n \in Nat : n = Cardinality(S)
  BY <1>1
<1>5. s = CHOOSE g \in [1..n -> S] : A!IsInjective(g)
  BY <1>2, <1>4 DEF A!SetToSeq
<1>6. s \in [1..n -> S] /\ A!IsInjective(s)
  BY <1>3, <1>4, <1>5
<1>7. s \in Seq(S)
  BY <1>6
<1> QED
  BY <1>6, <1>7 DEF A!IsInjective

LEMMA BatchCommitted ==
  ASSUME AutomationInvariant, NEW d \in Workers, A!Commit(d)
  PROVE  AutomationInvariant'
<1>0. AutomationTyped /\ ChainsSound /\ FiresKept /\ A!FiresOnce
  BY DEF AutomationInvariant
<1>1. PICK new \in {s \in SUBSET Fire : IsFiniteSet(s)} : new = aTx[d].new
  BY <1>0 DEF AutomationTyped, Batch
<1>2. PICK starts : starts = A!SetToSeq(new)
  OBVIOUS
<1>3. starts \in Seq(new) /\ \A i, j \in DOMAIN starts : starts[i] = starts[j] => i = j
  BY <1>2, Listed
<1>4. \A i \in DOMAIN starts : starts[i] \in new
  BY <1>3, Elements
<1>5. PICK added : added = [i \in DOMAIN starts |->
                             A!NewRun(starts[i].flow, aEvent[starts[i].by].cause, A!ChainOf(starts[i].by), starts[i].on)]
  OBVIOUS
<1>6. ASSUME NEW i \in DOMAIN starts
      PROVE  /\ added[i] \in RunRow /\ RunSound(added[i])
             /\ added[i].flow = starts[i].flow /\ added[i].on = starts[i].on
  <2>1. PICK x \in new : x = starts[i]
    BY <1>4
  <2>2. x \in Fire /\ FireSound(x)
    BY <1>0, <1>1 DEF ChainsSound
  <2>3. PICK flow \in Flows, on \in {"outside", "inputs", "event"} \X Nat, by \in DOMAIN aEvent :
          flow = x.flow /\ on = x.on /\ by = x.by
    BY <2>2 DEF Fire, FireSound
  <2>4. PICK chain : chain = A!ChainOf(by)
    OBVIOUS
  <2>5. /\ chain \in Seq(Flows) /\ aEvent[by].cause \in Cause /\ Len(chain) = aEvent[by].cause.depth
        /\ chain # <<>> => chain[Len(chain)] = aEvent[by].cause.flow
        /\ \A k \in 1..(Len(chain) - 1) : chain[k] # chain[k + 1]
    BY <2>4, ChainOfEvent
  <2>6. PICK cause \in Cause : cause = aEvent[by].cause
    BY <2>5
  <2>7. cause.flow # flow /\ cause.depth < MaxDepth
    <3>1. ~A!Refused(flow, cause)
      BY <2>2, <2>3, <2>6 DEF FireSound
    <3>2. cause.depth \in Nat /\ MaxDepth \in Nat
      BY AutomationAssumed DEF Cause
    <3> QED
      BY <3>1, <3>2 DEF A!Refused
  <2>8. PICK row : row = A!NewRun(flow, cause, chain, on)
    OBVIOUS
  <2>9. added[i] = row
    BY <1>5, <2>1, <2>3, <2>4, <2>6, <2>8
  <2>10. Len(chain) = cause.depth /\ (chain # <<>> => chain[Len(chain)] = cause.flow /\ cause.flow # flow)
    BY <2>5, <2>6, <2>7
  <2>11. row \in RunRow /\ RunSound(row) /\ row.on = on /\ row.flow = flow
    BY <2>5, <2>7, <2>8, <2>10, AutomationAssumed, NewRunIsSound
  <2> QED
    BY <2>1, <2>3, <2>9, <2>11
<1>7. added \in Seq(RunRow) /\ DOMAIN added = DOMAIN starts
  <2>1. DOMAIN starts = 1..Len(starts) /\ Len(starts) \in Nat
    BY <1>3
  <2>2. added \in [1..Len(starts) -> RunRow]
    BY <1>5, <1>6, <2>1
  <2> QED
    BY <2>1, <2>2
<1>8. /\ aRun' = aRun \o added
      /\ aFires' = aFires \cup A!Keys(new)
      /\ aEvent' = [e \in DOMAIN aEvent |-> IF e \in aTx[d].took THEN [aEvent[e] EXCEPT !.dispatched = TRUE] ELSE aEvent[e]]
      /\ aTx' = [aTx EXCEPT ![d] = A!NoTx]
      /\ UNCHANGED <<aInputs, aOutside>>
  BY <1>1, <1>2, <1>5 DEF A!Commit
<1>9. /\ aRun' \in Seq(RunRow) /\ DOMAIN aRun \subseteq DOMAIN aRun'
      /\ \A r \in DOMAIN aRun : aRun'[r] = aRun[r]
  BY <1>0, <1>7, <1>8, Joined DEF AutomationTyped
<1>10. \A r \in DOMAIN aRun' \ DOMAIN aRun :
         \E i \in DOMAIN starts : i = r - Len(aRun) /\ r = i + Len(aRun) /\ aRun'[r] = added[i]
  BY <1>0, <1>7, <1>8, Joined DEF AutomationTyped
<1>11. /\ aEvent' \in Seq(EventRow) /\ DOMAIN aEvent' = DOMAIN aEvent
       /\ \A e \in DOMAIN aEvent : aEvent'[e].cause = aEvent[e].cause /\ aEvent'[e].run = aEvent[e].run
  <2>1. ASSUME NEW e \in DOMAIN aEvent
        PROVE  aEvent'[e] \in EventRow /\ aEvent'[e].cause = aEvent[e].cause /\ aEvent'[e].run = aEvent[e].run
    <3>1. PICK old \in EventRow : old = aEvent[e]
      BY <1>0, AutomationRows
    <3>2. [old EXCEPT !.dispatched = TRUE] \in EventRow /\ [old EXCEPT !.dispatched = TRUE].cause = old.cause
          /\ [old EXCEPT !.dispatched = TRUE].run = old.run
      BY DEF EventRow
    <3>3. aEvent'[e] = [old EXCEPT !.dispatched = TRUE] \/ aEvent'[e] = old
      BY <1>8, <3>1
    <3> QED
      BY <3>1, <3>2, <3>3
  <2>2. DOMAIN aEvent' = DOMAIN aEvent /\ aEvent' \in [DOMAIN aEvent -> EventRow]
    BY <1>8, <2>1
  <2>3. aEvent' \in Seq(EventRow)
    BY <1>0, <2>2, Rewritten DEF AutomationTyped
  <2> QED
    BY <2>1, <2>2, <2>3
<1>12. HistoryGoesOn
  BY <1>9, <1>11 DEF HistoryGoesOn
<1>13. aTx' \in [Workers -> Batch] /\ aTx'[d].new = {} /\ aTx'[d].todo = {} /\ \A c \in Workers \ {d} : aTx'[c] = aTx[c]
  <2> HIDE DEF A!NoTx
  <2> QED
    BY <1>0, <1>8, NothingFlushed DEF AutomationTyped
<1>14. A!Keys(new) \subseteq Flows \X ({"ready", "event"} \X Nat)
  BY DEF A!Keys, Fire
<1>15. AutomationTyped'
  BY <1>0, <1>8, <1>9, <1>11, <1>13, <1>14 DEF AutomationTyped
<1>16. ChainsSound'
  <2>1. \A r \in DOMAIN aRun' : RunSound(aRun'[r])
    BY <1>6, <1>9, <1>10, <1>12, SoundGoesOn
  <2>2. \A e \in DOMAIN aEvent' : EventSound(aEvent[e])'
    BY <1>11, <1>12, SoundGoesOn
  <2>3. \A c \in Workers : aTx'[c].todo \subseteq DOMAIN aEvent' /\ \A x \in aTx'[c].new : FireSound(x)'
    BY <1>0, <1>11, <1>12, <1>13, SoundGoesOn DEF ChainsSound
  <2> QED
    BY <2>1, <2>2, <2>3 DEF ChainsSound
<1>17. ASSUME NEW i \in DOMAIN starts
       PROVE  /\ added[i].on[1] # "outside"
              /\ <<added[i].flow, KeyOf(added[i].on)>> = <<starts[i].flow, starts[i].key>>
              /\ <<starts[i].flow, starts[i].key>> \in A!Keys(new)
              /\ <<starts[i].flow, starts[i].key>> \notin aFires
  <2>1. PICK x \in new : x = starts[i]
    BY <1>4
  <2>2. x \in Fire /\ FireSound(x) /\ <<x.flow, x.key>> \notin aFires
    BY <1>0, <1>1 DEF ChainsSound, FiresKept
  <2>3. x.on[1] # "outside"
    BY <2>2 DEF Fire
  <2>4. KeyOf(x.on) = x.key
    BY <2>2 DEF FireSound, KeyOf
  <2>5. <<x.flow, x.key>> \in A!Keys(new)
    BY DEF A!Keys
  <2> QED
    BY <1>6, <2>1, <2>2, <2>3, <2>4, <2>5
<1>18. FiresKept'
  <2>1. ASSUME NEW r \in DOMAIN aRun'
        PROVE  IF aRun'[r].on[1] = "outside" THEN aRun'[r].on[2] < aOutside'
                                             ELSE <<aRun'[r].flow, KeyOf(aRun'[r].on)>> \in aFires'
    <3>1. CASE r \in DOMAIN aRun
      BY <1>0, <1>8, <1>9, <3>1 DEF FiresKept
    <3>2. CASE r \notin DOMAIN aRun
      <4>1. PICK i \in DOMAIN starts : aRun'[r] = added[i]
        BY <1>10, <3>2
      <4> QED
        BY <1>8, <1>17, <4>1
    <3> QED
      BY <3>1, <3>2
  <2>2. \A c \in Workers : \A x \in aTx'[c].new : <<x.flow, x.key>> \notin aFires'
    <3> SUFFICES ASSUME NEW c \in Workers, NEW x \in aTx'[c].new, <<x.flow, x.key>> \in aFires' PROVE FALSE
      OBVIOUS
    <3>1. c # d /\ x \in aTx[c].new
      BY <1>13
    <3>2. <<x.flow, x.key>> \notin aFires
      BY <1>0, <3>1 DEF FiresKept
    <3>3. PICK y \in new : <<x.flow, x.key>> = <<y.flow, y.key>>
      BY <1>8, <3>2 DEF A!Keys
    <3> QED
      BY <1>0, <1>1, <3>1, <3>3 DEF FiresKept
  <2>3. \A c \in Workers : \A x, y \in aTx'[c].new : x # y => <<x.flow, x.key>> # <<y.flow, y.key>>
    BY <1>0, <1>13 DEF FiresKept
  <2>4. ASSUME NEW b \in Workers, NEW c \in Workers, b # c, NEW x \in aTx'[b].new, NEW y \in aTx'[c].new
        PROVE  <<x.flow, x.key>> # <<y.flow, y.key>>
    <3>1. b # d /\ c # d
      BY <1>13
    <3> QED
      BY <1>0, <1>13, <2>4, <3>1 DEF FiresKept
  <2> QED
    BY <2>1, <2>2, <2>3, <2>4 DEF FiresKept
<1>19. A!FiresOnce'
  <2> SUFFICES ASSUME NEW r \in DOMAIN aRun', NEW q \in DOMAIN aRun', r # q,
                      aRun'[r].flow = aRun'[q].flow, aRun'[r].on = aRun'[q].on
               PROVE  FALSE
    BY DEF A!FiresOnce
  <2>1. CASE r \in DOMAIN aRun /\ q \in DOMAIN aRun
    BY <1>0, <1>9, <2>1 DEF A!FiresOnce
  <2>2. ASSUME NEW p \in DOMAIN aRun, NEW n \in DOMAIN aRun' \ DOMAIN aRun,
               aRun'[p].on = aRun'[n].on, aRun'[p].flow = aRun'[n].flow PROVE FALSE
    <3>1. PICK i \in DOMAIN starts : aRun'[n] = added[i]
      BY <1>10
    <3>2. aRun[p].on = added[i].on /\ aRun[p].flow = added[i].flow
      BY <1>9, <2>2, <3>1
    <3>3. <<aRun[p].flow, KeyOf(aRun[p].on)>> \in aFires
      BY <1>0, <1>17, <3>2 DEF FiresKept
    <3> QED
      BY <1>17, <3>2, <3>3
  <2>3. CASE r \notin DOMAIN aRun /\ q \notin DOMAIN aRun
    <3>1. PICK i \in DOMAIN starts : r = i + Len(aRun) /\ aRun'[r] = added[i]
      BY <1>10, <2>3
    <3>2. PICK j \in DOMAIN starts : q = j + Len(aRun) /\ aRun'[q] = added[j]
      BY <1>10, <2>3
    <3>3. starts[i] # starts[j] /\ starts[i] \in new /\ starts[j] \in new
      BY <1>3, <1>4, <3>1, <3>2
    <3>4. <<starts[i].flow, starts[i].key>> # <<starts[j].flow, starts[j].key>>
      BY <1>0, <1>1, <3>3 DEF FiresKept
    <3>5. added[i].flow = added[j].flow /\ added[i].on = added[j].on
      BY <3>1, <3>2
    <3>6. <<added[i].flow, KeyOf(added[i].on)>> # <<added[j].flow, KeyOf(added[j].on)>>
      BY <1>17, <3>4
    <3> QED
      BY <3>5, <3>6
  <2> QED
    BY <2>1, <2>2, <2>3
<1> QED
  BY <1>15, <1>16, <1>18, <1>19 DEF AutomationInvariant

LEMMA AutomationStep ==
  ASSUME AutomationInvariant, [A!Next]_A!vars
  PROVE  AutomationInvariant'
<1>1. CASE A!Import
  BY <1>1, Emitters
<1>2. ASSUME NEW f \in Flows, A!Start(f) PROVE AutomationInvariant'
  BY <1>2, StartsFromOutside
<1>3. ASSUME NEW r \in DOMAIN aRun, A!RunImports(r) \/ A!RunFinishes(r) PROVE AutomationInvariant'
  BY <1>3, Emitters
<1>4. ASSUME NEW d \in Workers, A!FanOut(d) \/ A!Dies(d) PROVE AutomationInvariant'
  BY <1>4, BatchTaken, BatchHandled, BatchLost, BatchCommitted DEF A!FanOut
<1>5. CASE UNCHANGED A!vars
  <2>1. UNCHANGED <<aEvent, aRun, aFires, aInputs, aTx, aOutside>>
    BY <1>5 DEF A!vars
  <2>2. \A x : FireSound(x)' <=> FireSound(x)
    BY <2>1 DEF FireSound
  <2>3. \A row : EventSound(row)' <=> EventSound(row)
    BY <2>1 DEF EventSound
  <2> QED
    BY <2>1, <2>2, <2>3 DEF AutomationInvariant, AutomationTyped, ChainsSound, FiresKept, A!FiresOnce
<1> QED
  BY <1>1, <1>2, <1>3, <1>4, <1>5 DEF A!Next

--------------------------------------------------------------------------------
(* A configuration's versions: a publication changes what is in force in   *)
(* the months it covers, and in no other.                                  *)

DatedRow == [from : Nat, status : {"draft", "published", "withdrawn", "discarded"}]

\* No two published versions start in one month.
DatedInvariant ==
  /\ cVersion \in Seq(DatedRow)
  /\ \A u, v \in C!Published : cVersion[u].from = cVersion[v].from => u = v

\* Of some versions and when they start: the last to have started by a month, and the one
\* in force, none of them being 0.
LastOf(some, from, m) ==
  {v \in some : from[v] <= m /\ \A u \in some : from[u] <= m => from[u] <= from[v]}
Chosen(last) == IF last = {} THEN 0 ELSE CHOOSE v \in last : TRUE

\* One version more changes what is in force in the months from its own to the next one's.
LEMMA OneMoreVersion ==
  ASSUME NEW some, NEW v, NEW from, NEW m \in Nat,
         v \notin some, v # 0, 0 \notin some, from[v] \in Nat, \A u \in some : from[u] \in Nat /\ from[u] # from[v]
  PROVE  Chosen(LastOf(some, from, m)) # Chosen(LastOf(some \cup {v}, from, m))
           <=> from[v] <= m /\ \A u \in some : from[u] > from[v] => m < from[u]
<1>3. PICK a : a = LastOf(some, from, m)
  OBVIOUS
<1>4. PICK b : b = LastOf(some \cup {v}, from, m)
  OBVIOUS
<1>1. CASE from[v] <= m /\ \A u \in some : from[u] > from[v] => m < from[u]
  <2>1. b = {v}
    <3>1. v \in b
      BY <1>1, <1>3, <1>4 DEF LastOf
    <3>2. ASSUME NEW w \in b PROVE w = v
      <4>1. w \in some \cup {v} /\ from[w] <= m /\ from[v] <= from[w]
        BY <1>1, <3>2, <1>3, <1>4 DEF LastOf
      <4> QED
        BY <1>1, <4>1
    <3> QED
      BY <3>1, <3>2
  <2>2. Chosen(b) = v
    BY <2>1 DEF Chosen
  <2>3. a \subseteq some
    BY <1>3, <1>4 DEF LastOf
  <2>4. Chosen(a) # v
    BY <2>3 DEF Chosen
  <2> QED
    BY <1>1, <1>3, <1>4, <2>2, <2>4
<1>2. CASE ~(from[v] <= m /\ \A u \in some : from[u] > from[v] => m < from[u])
  <2>1. a = b
    <3>1. CASE ~(from[v] <= m)
      <4>1. ASSUME NEW w PROVE w \in a <=> w \in b
        BY <3>1, <1>3, <1>4 DEF LastOf
      <4> QED
        BY <4>1
    <3>2. CASE from[v] <= m
      <4>1. PICK u \in some : from[u] > from[v] /\ from[u] <= m
        BY <1>2, <3>2
      <4>2. ASSUME NEW w \in a PROVE w \in b
        <5>1. w \in some /\ from[w] <= m /\ (\A x \in some : from[x] <= m => from[x] <= from[w])
          BY <4>2, <1>3, <1>4 DEF LastOf
        <5>2. from[v] <= from[w]
          BY <4>1, <5>1
        <5> QED
          BY <5>1, <5>2, <1>3, <1>4 DEF LastOf
      <4>3. ASSUME NEW w \in b PROVE w \in a
        <5>1. w \in some \cup {v} /\ from[w] <= m /\ (\A x \in some : from[x] <= m => from[x] <= from[w])
          BY <4>3, <1>3, <1>4 DEF LastOf
        <5>2. w # v
          BY <4>1, <5>1
        <5> QED
          BY <5>1, <5>2, <1>3, <1>4 DEF LastOf
      <4> QED
        BY <4>2, <4>3
    <3> QED
      BY <3>1, <3>2
  <2> QED
    BY <1>2, <1>3, <1>4, <2>1
<1> QED
  BY <1>1, <1>2

\* No version yet.
LEMMA DatedStart == C!Init => DatedInvariant
<1> SUFFICES ASSUME C!Init PROVE DatedInvariant
  OBVIOUS
<1>1. cVersion = <<>>
  BY DEF C!Init
<1>2. cVersion \in Seq(DatedRow) /\ DOMAIN cVersion = {}
  BY <1>1
<1> QED
  BY <1>2 DEF DatedInvariant, C!Published, C!Versions

\* What is in force, from the versions that are published and when they start.
LEMMA InForceIs ==
  ASSUME NEW m, NEW from, from = [u \in DOMAIN cVersion |-> cVersion[u].from]
  PROVE  C!InForce(m) = Chosen(LastOf(C!Published, from, m))
<1> DEFINE started == {v \in C!Published : cVersion[v].from <= m}
           last == {v \in started : \A u \in started : cVersion[u].from <= cVersion[v].from}
<1>1. C!Published \subseteq DOMAIN cVersion
  BY DEF C!Published, C!Versions
<1>2. last = LastOf(C!Published, from, m)
  <2>1. ASSUME NEW v PROVE v \in last <=> v \in LastOf(C!Published, from, m)
    BY <1>1 DEF LastOf
  <2> QED
    BY <2>1
<1>3. C!InForce(m) = Chosen(last)
  BY DEF C!InForce, C!Base, Chosen
<1> QED
  BY <1>2, <1>3

\* The same, after a step.
LEMMA InForceBecomes ==
  ASSUME NEW m, NEW from, from = [u \in DOMAIN cVersion' |-> cVersion'[u].from]
  PROVE  C!InForce(m)' = Chosen(LastOf(C!Published', from, m))
<1> DEFINE started == {v \in C!Published' : cVersion'[v].from <= m}
           last == {v \in started : \A u \in started : cVersion'[u].from <= cVersion'[v].from}
<1>1. C!Published' \subseteq DOMAIN cVersion'
  BY DEF C!Published, C!Versions
<1>2. last = LastOf(C!Published', from, m)
  <2>1. ASSUME NEW v PROVE v \in last <=> v \in LastOf(C!Published', from, m)
    BY <1>1 DEF LastOf
  <2> QED
    BY <2>1
<1>3. C!InForce(m)' = Chosen(last)
  BY DEF C!InForce, C!Base, Chosen
<1> QED
  BY <1>2, <1>3

\* A version changes its status, and nothing else moves.
LEMMA StatusMoves ==
  ASSUME DatedInvariant, NEW v \in DOMAIN cVersion, NEW old, NEW new \in {"published", "withdrawn", "discarded"},
         C!Moves(v, old, new)
  PROVE  /\ cVersion' \in Seq(DatedRow) /\ DOMAIN cVersion' = DOMAIN cVersion
         /\ \A u \in DOMAIN cVersion : cVersion'[u].from = cVersion[u].from
         /\ cVersion[v].status = old /\ cVersion'[v].status = new
         /\ \A u \in DOMAIN cVersion \ {v} : cVersion'[u].status = cVersion[u].status
         /\ cValidated' = cValidated
<1>1. /\ cVersion[v].status = old /\ cVersion' = [cVersion EXCEPT ![v].status = new] /\ cValidated' = cValidated
  BY DEF C!Moves
<1>2. PICK row : row = [cVersion[v] EXCEPT !.status = new]
  OBVIOUS
<1>3. cVersion \in Seq(DatedRow) /\ cVersion[v] \in DatedRow
  BY DEF DatedInvariant
<1>4. row \in DatedRow /\ row.from = cVersion[v].from /\ row.status = new
  BY <1>2, <1>3 DEF DatedRow
<1>5. cVersion' = [cVersion EXCEPT ![v] = row]
  BY <1>1, <1>2
<1>6. cVersion' \in Seq(DatedRow) /\ DOMAIN cVersion' = DOMAIN cVersion
  BY <1>3, <1>4, <1>5
<1>7. cVersion'[v] = row /\ \A u \in DOMAIN cVersion \ {v} : cVersion'[u] = cVersion[u]
  BY <1>3, <1>5
<1> QED
  BY <1>1, <1>4, <1>6, <1>7

\* What a publication or a withdrawal is to name.
NamesWhatChanges(v) == cTold' = {m \in cValidated : C!InForce(m)' # C!InForce(m)}

\* Months are numbered.
MonthsCounted == cValidated \subseteq Nat

\* A publication names what it changes.
LEMMA PublishNames ==
  ASSUME DatedInvariant, MonthsCounted, NEW v \in DOMAIN cVersion, C!Publish(v)
  PROVE  NamesWhatChanges(v) /\ DatedInvariant'
<1>1. /\ cVersion' \in Seq(DatedRow) /\ DOMAIN cVersion' = DOMAIN cVersion
      /\ \A u \in DOMAIN cVersion : cVersion'[u].from = cVersion[u].from
      /\ cVersion[v].status = "draft" /\ cVersion'[v].status = "published"
      /\ \A u \in DOMAIN cVersion \ {v} : cVersion'[u].status = cVersion[u].status
      /\ cValidated' = cValidated
  <2>1. C!Moves(v, "draft", "published")
    BY DEF C!Publish
  <2> QED
    BY <2>1, StatusMoves
<1>2. PICK some : some = C!Published
  OBVIOUS
<1>3. some \subseteq DOMAIN cVersion /\ v \notin some /\ C!Published' = some \cup {v}
  <2>1. v \notin some
    BY <1>1, <1>2 DEF C!Published
  <2>2. ASSUME NEW u PROVE u \in C!Published' <=> u \in some \cup {v}
    BY <1>1, <1>2 DEF C!Published, C!Versions
  <2> QED
    BY <1>2, <2>1, <2>2 DEF C!Published, C!Versions
<1>4. PICK from : from = [u \in DOMAIN cVersion |-> cVersion[u].from]
  OBVIOUS
<1>5. from = [u \in DOMAIN cVersion' |-> cVersion'[u].from]
  BY <1>1, <1>4
<1>6. \A u \in DOMAIN cVersion : from[u] = cVersion[u].from /\ from[u] = cVersion'[u].from /\ from[u] \in Nat /\ u # 0
  <2>1. /\ Len(cVersion) \in Nat /\ DOMAIN cVersion = 1..Len(cVersion)
        /\ \A u \in DOMAIN cVersion : cVersion[u] \in DatedRow
    BY Elements DEF DatedInvariant
  <2>2. \A u \in DOMAIN cVersion : cVersion[u].from \in Nat
    BY <2>1 DEF DatedRow
  <2>3. \A u \in DOMAIN cVersion : u # 0
    BY <2>1
  <2> QED
    BY <1>1, <1>4, <2>2, <2>3
<1>7. \A u \in some : from[u] # from[v]
  BY <1>2, <1>3, <1>6 DEF C!Publish
<1>8. ASSUME NEW m \in cValidated
      PROVE  C!InForce(m)' # C!InForce(m) <=> from[v] <= m /\ \A u \in some : from[u] > from[v] => m < from[u]
  <2>1. m \in Nat
    BY DEF MonthsCounted
  <2>4. C!InForce(m) = Chosen(LastOf(some, from, m))
    BY <1>2, <1>4, InForceIs
  <2>5. C!InForce(m)' = Chosen(LastOf(some \cup {v}, from, m))
    BY <1>3, <1>5, InForceBecomes
  <2>6. Chosen(LastOf(some, from, m)) # Chosen(LastOf(some \cup {v}, from, m))
          <=> from[v] <= m /\ \A u \in some : from[u] > from[v] => m < from[u]
    <3>1. v \notin some /\ v # 0 /\ 0 \notin some /\ from[v] \in Nat
      BY <1>3, <1>6
    <3>2. \A u \in some : from[u] \in Nat /\ from[u] # from[v]
      BY <1>3, <1>6, <1>7
    <3> QED
      BY <2>1, <3>1, <3>2, OneMoreVersion
  <2> QED
    BY <2>4, <2>5, <2>6, Zenon
<1>9. cTold' = {m \in cValidated : from[v] <= m /\ \A u \in some : from[u] > from[v] => m < from[u]}
  <2>1. cTold' = C!Affected(v)'
    BY DEF C!Publish
  <2>2. C!Affected(v)' = {m \in cValidated : m >= cVersion'[v].from /\ \A u \in C!Later(v)' : m < cVersion'[u].from}
    BY <1>1 DEF C!Affected
  <2>3. \A u : u \in C!Later(v)' <=> u \in some /\ from[u] > from[v]
    <3>1. \A u : u \in C!Later(v)' <=> u \in some \cup {v} /\ cVersion'[u].from > cVersion'[v].from
      BY <1>3 DEF C!Later
    <3>2. ~(from[v] > from[v])
      BY <1>6
    <3> QED
      BY <1>3, <1>6, <3>1, <3>2
  <2>4. ASSUME NEW m \in cValidated
        PROVE  m >= cVersion'[v].from /\ (\A u \in C!Later(v)' : m < cVersion'[u].from)
                 <=> from[v] <= m /\ \A u \in some : from[u] > from[v] => m < from[u]
    <3>1. m \in Nat
      BY DEF MonthsCounted
    <3> QED
      BY <1>3, <1>6, <2>3, <3>1
  <2> QED
    BY <2>1, <2>2, <2>4
<1>10. NamesWhatChanges(v)
  <2>1. \A m \in cValidated : m \in cTold' <=> C!InForce(m)' # C!InForce(m)
    BY <1>8, <1>9
  <2>2. cTold' \subseteq cValidated
    BY <1>9
  <2> QED
    BY <2>1, <2>2 DEF NamesWhatChanges
<1>11. DatedInvariant'
  <2>1. \A u, w \in some : from[u] = from[w] => u = w
    BY <1>2, <1>3, <1>6 DEF DatedInvariant
  <2>2. \A u, w \in some \cup {v} : from[u] = from[w] => u = w
    BY <1>7, <2>1
  <2>3. \A u, w \in C!Published' : cVersion'[u].from = cVersion'[w].from => u = w
    BY <1>3, <1>6, <2>2
  <2> QED
    BY <1>1, <2>3 DEF DatedInvariant
<1> QED
  BY <1>10, <1>11

\* A withdrawal names what it changes.
LEMMA WithdrawNames ==
  ASSUME DatedInvariant, MonthsCounted, NEW v \in DOMAIN cVersion, C!Withdraw(v)
  PROVE  NamesWhatChanges(v) /\ DatedInvariant'
<1>1. /\ cVersion' \in Seq(DatedRow) /\ DOMAIN cVersion' = DOMAIN cVersion
      /\ \A u \in DOMAIN cVersion : cVersion'[u].from = cVersion[u].from
      /\ cVersion[v].status = "published" /\ cVersion'[v].status = "withdrawn"
      /\ \A u \in DOMAIN cVersion \ {v} : cVersion'[u].status = cVersion[u].status
      /\ cValidated' = cValidated
  <2>1. C!Moves(v, "published", "withdrawn")
    BY DEF C!Withdraw
  <2> QED
    BY <2>1, StatusMoves
<1>2. PICK some : some = C!Published \ {v}
  OBVIOUS
<1>3. some \subseteq DOMAIN cVersion /\ v \notin some /\ C!Published = some \cup {v} /\ C!Published' = some
  <2>1. v \in C!Published
    BY <1>1 DEF C!Published, C!Versions
  <2>2. ASSUME NEW u PROVE u \in C!Published' <=> u \in some
    BY <1>1, <1>2 DEF C!Published, C!Versions
  <2>3. C!Published \subseteq DOMAIN cVersion
    BY DEF C!Published, C!Versions
  <2> QED
    BY <1>2, <2>1, <2>2, <2>3
<1>4. PICK from : from = [u \in DOMAIN cVersion |-> cVersion[u].from]
  OBVIOUS
<1>5. from = [u \in DOMAIN cVersion' |-> cVersion'[u].from]
  BY <1>1, <1>4
<1>6. \A u \in DOMAIN cVersion : from[u] = cVersion[u].from /\ from[u] = cVersion'[u].from /\ from[u] \in Nat /\ u # 0
  <2>1. /\ Len(cVersion) \in Nat /\ DOMAIN cVersion = 1..Len(cVersion)
        /\ \A u \in DOMAIN cVersion : cVersion[u] \in DatedRow
    BY Elements DEF DatedInvariant
  <2>2. \A u \in DOMAIN cVersion : cVersion[u].from \in Nat
    BY <2>1 DEF DatedRow
  <2>3. \A u \in DOMAIN cVersion : u # 0
    BY <2>1
  <2> QED
    BY <1>1, <1>4, <2>2, <2>3
<1>7. \A u, w \in some \cup {v} : from[u] = from[w] => u = w
  BY <1>3, <1>6 DEF DatedInvariant
<1>8. ASSUME NEW m \in cValidated
      PROVE  C!InForce(m)' # C!InForce(m) <=> from[v] <= m /\ \A u \in some : from[u] > from[v] => m < from[u]
  <2>1. m \in Nat
    BY DEF MonthsCounted
  <2>4. C!InForce(m) = Chosen(LastOf(some \cup {v}, from, m))
    BY <1>3, <1>4, InForceIs
  <2>5. C!InForce(m)' = Chosen(LastOf(some, from, m))
    BY <1>3, <1>5, InForceBecomes
  <2>6. Chosen(LastOf(some, from, m)) # Chosen(LastOf(some \cup {v}, from, m))
          <=> from[v] <= m /\ \A u \in some : from[u] > from[v] => m < from[u]
    <3>1. v \notin some /\ v # 0 /\ 0 \notin some /\ from[v] \in Nat
      BY <1>3, <1>6
    <3>2. \A u \in some : from[u] \in Nat /\ from[u] # from[v]
      BY <1>3, <1>6, <1>7
    <3> QED
      BY <2>1, <3>1, <3>2, OneMoreVersion
  <2> QED
    BY <2>4, <2>5, <2>6, Zenon
<1>9. cTold' = {m \in cValidated : from[v] <= m /\ \A u \in some : from[u] > from[v] => m < from[u]}
  <2>1. cTold' = {m \in cValidated : m >= cVersion[v].from /\ \A u \in C!Later(v) : m < cVersion[u].from}
    BY DEF C!Withdraw, C!Affected
  <2>2. \A u : u \in C!Later(v) <=> u \in some /\ from[u] > from[v]
    <3>1. \A u : u \in C!Later(v) <=> u \in some \cup {v} /\ cVersion[u].from > cVersion[v].from
      BY <1>3 DEF C!Later
    <3>2. ~(from[v] > from[v])
      BY <1>6
    <3> QED
      BY <1>3, <1>6, <3>1, <3>2
  <2>3. ASSUME NEW m \in cValidated
        PROVE  m >= cVersion[v].from /\ (\A u \in C!Later(v) : m < cVersion[u].from)
                 <=> from[v] <= m /\ \A u \in some : from[u] > from[v] => m < from[u]
    <3>1. m \in Nat
      BY DEF MonthsCounted
    <3> QED
      BY <1>3, <1>6, <2>2, <3>1
  <2> QED
    BY <2>1, <2>3
<1>10. NamesWhatChanges(v)
  <2>1. \A m \in cValidated : m \in cTold' <=> C!InForce(m)' # C!InForce(m)
    BY <1>8, <1>9
  <2>2. cTold' \subseteq cValidated
    BY <1>9
  <2> QED
    BY <2>1, <2>2 DEF NamesWhatChanges
<1>11. DatedInvariant'
  <2>1. \A u, w \in C!Published' : cVersion'[u].from = cVersion'[w].from => u = w
    BY <1>3, <1>6, <1>7
  <2> QED
    BY <1>1, <2>1 DEF DatedInvariant
<1> QED
  BY <1>10, <1>11

\* What a version's step is to name, if it is a publication or a withdrawal.
AllNamed ==
  \A v \in C!Versions :
    cVersion'[v].status # cVersion[v].status /\ "published" \in {cVersion[v].status, cVersion'[v].status}
      => NamesWhatChanges(v)

\* A draft comes, or starts in another month: nothing that is published moves.
LEMMA DraftsMove ==
  ASSUME DatedInvariant, MonthsCounted, cVersion' \in Seq(DatedRow), cValidated' = cValidated,
         DOMAIN cVersion \subseteq DOMAIN cVersion',
         \A v \in DOMAIN cVersion : cVersion'[v].status = cVersion[v].status,
         \A v \in DOMAIN cVersion : cVersion[v].status = "published" => cVersion'[v].from = cVersion[v].from,
         \A v \in DOMAIN cVersion' \ DOMAIN cVersion : cVersion'[v].status = "draft"
  PROVE  DatedInvariant' /\ MonthsCounted' /\ AllNamed
<1>1. C!Published' = C!Published
  <2>1. ASSUME NEW u PROVE u \in C!Published' <=> u \in C!Published
    BY DEF C!Published, C!Versions
  <2> QED
    BY <2>1
<1>2. C!Published \subseteq DOMAIN cVersion /\ \A u \in C!Published : cVersion[u].status = "published"
  BY DEF C!Published, C!Versions
<1>3. DatedInvariant'
  BY <1>1, <1>2 DEF DatedInvariant
<1>4. MonthsCounted' /\ AllNamed
  BY DEF MonthsCounted, AllNamed, C!Versions
<1> QED
  BY <1>3, <1>4

\* Every step of the versions.
LEMMA DatedStep ==
  ASSUME C!ConfigAssumption, DatedInvariant, MonthsCounted, C!EditsVersions
  PROVE  DatedInvariant' /\ MonthsCounted' /\ AllNamed
<1>1. C!Months \subseteq Nat
  BY DEF C!Months
<1>2. cVersion \in Seq(DatedRow) /\ DOMAIN cVersion = C!Versions
  BY DEF DatedInvariant, C!Versions
<1>3. CASE C!Create
  <2>1. PICK m \in C!Months : cVersion' = Append(cVersion, [from |-> m, status |-> "draft"])
    BY <1>3 DEF C!Create
  <2>2. PICK row : row = [from |-> m, status |-> "draft"]
    OBVIOUS
  <2>3. row \in DatedRow /\ row.status = "draft"
    BY <1>1, <2>2 DEF DatedRow
  <2>4. cVersion' = Append(cVersion, row) /\ cValidated' = cValidated
    BY <1>3, <2>1, <2>2 DEF C!Create
  <2>5. /\ cVersion' \in Seq(DatedRow) /\ DOMAIN cVersion \subseteq DOMAIN cVersion'
        /\ \A v \in DOMAIN cVersion : cVersion'[v] = cVersion[v]
        /\ \A v \in DOMAIN cVersion' \ DOMAIN cVersion : cVersion'[v] = row
    BY <1>2, <2>3, <2>4
  <2> QED
    BY <2>3, <2>4, <2>5, DraftsMove
<1>4. ASSUME NEW v \in C!Versions, C!Update(v) PROVE DatedInvariant' /\ MonthsCounted' /\ AllNamed
  <2>1. PICK m \in C!Months : cVersion' = [cVersion EXCEPT ![v].from = m]
    BY <1>4 DEF C!Update
  <2>2. PICK row : row = [cVersion[v] EXCEPT !.from = m]
    OBVIOUS
  <2>3. cVersion[v] \in DatedRow /\ cVersion[v].status = "draft"
    BY <1>2, <1>4 DEF C!Update
  <2>4. row \in DatedRow /\ row.status = "draft"
    BY <1>1, <2>2, <2>3 DEF DatedRow
  <2>5. cVersion' = [cVersion EXCEPT ![v] = row] /\ cValidated' = cValidated
    BY <1>4, <2>1, <2>2 DEF C!Update
  <2>6. /\ cVersion' \in Seq(DatedRow) /\ DOMAIN cVersion' = DOMAIN cVersion
        /\ cVersion'[v] = row /\ \A u \in DOMAIN cVersion \ {v} : cVersion'[u] = cVersion[u]
    BY <1>2, <2>4, <2>5
  <2>7. \A u \in DOMAIN cVersion : cVersion'[u].status = cVersion[u].status
    BY <1>2, <2>3, <2>4, <2>6
  <2>8. \A u \in DOMAIN cVersion : cVersion[u].status = "published" => cVersion'[u].from = cVersion[u].from
    BY <2>3, <2>6
  <2> QED
    BY <2>5, <2>6, <2>7, <2>8, DraftsMove
<1>5. ASSUME NEW v \in C!Versions, C!Discard(v) PROVE DatedInvariant' /\ MonthsCounted' /\ AllNamed
  <2>1. C!Moves(v, "draft", "discarded")
    BY <1>5 DEF C!Discard
  <2>2. /\ cVersion' \in Seq(DatedRow) /\ DOMAIN cVersion' = DOMAIN cVersion
        /\ \A u \in DOMAIN cVersion : cVersion'[u].from = cVersion[u].from
        /\ cVersion[v].status = "draft" /\ cVersion'[v].status = "discarded"
        /\ \A u \in DOMAIN cVersion \ {v} : cVersion'[u].status = cVersion[u].status
        /\ cValidated' = cValidated
    BY <1>2, <2>1, StatusMoves
  <2>3. \A u : u \in C!Published' <=> u \in C!Published
    BY <2>2 DEF C!Published, C!Versions
  <2>4. C!Published \subseteq DOMAIN cVersion
    BY DEF C!Published, C!Versions
  <2>5. DatedInvariant'
    BY <2>2, <2>3, <2>4 DEF DatedInvariant
  <2>6. AllNamed
    BY <1>2, <2>2 DEF AllNamed
  <2> QED
    BY <2>2, <2>5, <2>6 DEF MonthsCounted
<1>6. ASSUME NEW v \in C!Versions, C!Publish(v) \/ C!Withdraw(v)
      PROVE  DatedInvariant' /\ MonthsCounted' /\ AllNamed
  <2>1. NamesWhatChanges(v) /\ DatedInvariant'
    BY <1>2, <1>6, PublishNames, WithdrawNames
  <2>2. /\ \A u \in DOMAIN cVersion \ {v} : cVersion'[u].status = cVersion[u].status
        /\ cValidated' = cValidated
    BY <1>2, <1>6, StatusMoves DEF C!Publish, C!Withdraw
  <2>3. AllNamed
    BY <1>2, <2>1, <2>2 DEF AllNamed
  <2> QED
    BY <2>1, <2>2, <2>3 DEF MonthsCounted
<1>7. ASSUME NEW m \in C!Months, C!Validate(m) PROVE DatedInvariant' /\ MonthsCounted' /\ AllNamed
  <2>1. cVersion' = cVersion /\ cValidated' = cValidated \cup {m}
    BY <1>7 DEF C!Validate
  <2>2. DatedInvariant' /\ MonthsCounted'
    BY <1>1, <2>1 DEF DatedInvariant, MonthsCounted, C!Published, C!Versions
  <2>3. AllNamed
    BY <2>1 DEF AllNamed
  <2> QED
    BY <2>2, <2>3
<1> QED
  BY <1>3, <1>4, <1>5, <1>6, <1>7 DEF C!EditsVersions

--------------------------------------------------------------------------------
(* A configuration's base: what a request is to write, from what it read.  *)

RequestSound(r) ==
  /\ r.op = "save" => \A f \in B!Fields : r.after[f] # r.seen[f] => r.after[f].number # r.seen[f].number
  /\ r.op \in {"save", "reset"} => r.moved = B!Moved(r.seen, r.after)
  /\ r.op = "tax" => /\ r.after.years \subseteq FinancialYears
                     /\ r.after.preferred # 0 => r.after.preferred \in r.after.years
                     /\ \A y \in FinancialYears \ r.of : y \in r.seen.years <=> y \in r.after.years

BaseInvariant ==
  /\ DOMAIN cBase = {"rates", "tax"} /\ DOMAIN cRq = Editors
  /\ cBase.tax.years \subseteq FinancialYears
  /\ cBase.tax.preferred # 0 => cBase.tax.preferred \in cBase.tax.years
  /\ cOddly = {} => \A f \in B!Fields : cOnRecord[f] = cBase.rates[f].number
  /\ \A s \in Editors : RequestSound(cRq[s])

\* What a commit keeps, where it meets no other.
SaveKeeps(s) ==
  cRq[s].op = "save" /\ cRq'[s] = B!Idle /\ "overlap" \notin cOddly' =>
    \A f \in B!Fields : cBase'.rates[f] # cBase.rates[f] => cBase'.rates[f].number # cBase.rates[f].number

TaxKeeps(s) ==
  cRq[s].op = "tax" /\ cRq'[s] = B!Idle /\ "overlap" \notin cOddly' =>
    \A y \in FinancialYears \ cRq[s].of : y \in cBase.tax.years <=> y \in cBase'.tax.years

\* The last of some financial years is one of them.
LEMMA NewestIsThere ==
  ASSUME B!ConfigAssumption, NEW years, years \subseteq FinancialYears, years # {}
  PROVE  B!Newest(years) \in years
<1>1. FinancialYears \subseteq Nat /\ IsFiniteSet(FinancialYears)
  BY DEF B!ConfigAssumption, B!IsFiniteSet, IsFiniteSet
<1>2. IsFiniteSet(years)
  BY <1>1, FS_Subset
<1>3. years \subseteq Int
  BY <1>1
<1>4. \E y \in years : \A z \in years : z <= y
  BY <1>2, <1>3, HasGreatest
<1> QED
  BY <1>4 DEF B!Newest

\* The base as it is seeded.
LEMMA BaseStart == C!Init /\ B!ConfigAssumption => BaseInvariant
<1> SUFFICES ASSUME C!Init, B!ConfigAssumption PROVE BaseInvariant
  OBVIOUS
<1>1. /\ cBase = [rates |-> C!Defaults, tax |-> C!SeededYears]
      /\ cRq = [s \in Editors |-> C!Idle] /\ cOnRecord = [f \in C!Fields |-> C!Defaults[f].number]
  BY DEF C!Init
<1>2. C!Fields = B!Fields /\ C!SeededYears = [years |-> FinancialYears, preferred |-> B!Newest(FinancialYears)]
  BY DEF C!Fields, B!Fields, C!Columns, B!Columns, C!SeededYears, C!Newest, B!Newest
<1>3. FinancialYears # {}
  BY DEF B!ConfigAssumption
<1>4. B!Newest(FinancialYears) \in FinancialYears
  BY <1>3, NewestIsThere
<1>5. DOMAIN cBase = {"rates", "tax"} /\ cBase.rates = C!Defaults /\ cBase.tax = C!SeededYears
  BY <1>1
<1>6. cBase.tax.years = FinancialYears /\ cBase.tax.preferred \in FinancialYears
  BY <1>2, <1>4, <1>5
<1>7. \A f \in B!Fields : cOnRecord[f] = cBase.rates[f].number
  BY <1>1, <1>2, <1>5
<1>8. ASSUME NEW s \in Editors PROVE RequestSound(cRq[s])
  <2>1. cRq[s].op = "idle"
    BY <1>1 DEF C!Idle
  <2> QED
    BY <2>1 DEF RequestSound
<1> QED
  BY <1>1, <1>5, <1>6, <1>7, <1>8 DEF BaseInvariant

EditKeeps == \A s \in Editors : SaveKeeps(s) /\ TaxKeeps(s)

\* A request reads: it has yet to write, and no other's commit is this step.
LEMMA EditReads ==
  ASSUME BaseInvariant, NEW s \in Editors, NEW what, RequestSound(what), B!Reads(s, what)
  PROVE  BaseInvariant' /\ EditKeeps
<1>1. /\ cRq[s] = B!Idle /\ cRq' = [cRq EXCEPT ![s] = what] /\ cBase' = cBase
      /\ cOnRecord' = cOnRecord /\ cOddly' = cOddly
  BY DEF B!Reads
<1>2. DOMAIN cRq = Editors /\ \A t \in Editors : RequestSound(cRq[t])
  BY DEF BaseInvariant
<1>3. DOMAIN cRq' = Editors /\ cRq'[s] = what /\ \A t \in Editors \ {s} : cRq'[t] = cRq[t]
  BY <1>1, <1>2
<1>4. \A t \in Editors : RequestSound(cRq'[t])
  BY <1>2, <1>3
<1>5. B!Idle.op = "idle"
  BY DEF B!Idle
<1>6. EditKeeps
  <2>1. ASSUME NEW t \in Editors, cRq[t].op \in {"save", "tax"} PROVE cRq'[t] # B!Idle
    BY <1>1, <1>3, <1>5, <2>1
  <2> QED
    BY <2>1 DEF EditKeeps, SaveKeeps, TaxKeeps
<1>7. BaseInvariant'
  BY <1>1, <1>3, <1>4 DEF BaseInvariant
<1> QED
  BY <1>6, <1>7

\* What a save, a reset or a section is to write differs from what it read as it says.
LEMMA EditsAreSound ==
  ASSUME BaseInvariant, NEW s \in Editors, B!SaveReads(s) \/ B!ResetReads(s) \/ B!SectionReads(s)
  PROVE  BaseInvariant' /\ EditKeeps
<1>1. CASE B!SaveReads(s)
  <2>1. PICK body \in B!Rates :
          LET after == B!KeepStoredForm(cBase.rates, body)
              moved == B!Moved(cBase.rates, after) IN
          B!Reads(s, [op |-> "save", seen |-> cBase.rates, after |-> after, moved |-> moved])
    BY <1>1 DEF B!SaveReads
  <2>2. PICK seen : seen = cBase.rates
    OBVIOUS
  <2>3. PICK after : after = B!KeepStoredForm(seen, body)
    OBVIOUS
  <2>4. PICK what : what = [op |-> "save", seen |-> seen, after |-> after, moved |-> B!Moved(seen, after)]
    OBVIOUS
  <2>5. B!Reads(s, what)
    BY <2>1, <2>2, <2>3, <2>4
  <2>6. \A f \in B!Fields : after[f] # seen[f] => after[f].number # seen[f].number
    BY <2>3 DEF B!KeepStoredForm, B!Moved
  <2>7. what.op = "save" /\ what.seen = seen /\ what.after = after /\ what.moved = B!Moved(seen, after)
    BY <2>4
  <2>8. RequestSound(what)
    BY <2>6, <2>7 DEF RequestSound
  <2> QED
    BY <2>5, <2>8, EditReads
<1>2. CASE B!ResetReads(s)
  <2>1. PICK what : what = [op |-> "reset", seen |-> cBase.rates, after |-> B!Defaults,
                            moved |-> B!Moved(cBase.rates, B!Defaults)]
    OBVIOUS
  <2>2. B!Reads(s, what)
    BY <1>2, <2>1 DEF B!ResetReads
  <2>3. /\ what.op = "reset" /\ what.seen = cBase.rates /\ what.after = B!Defaults
        /\ what.moved = B!Moved(cBase.rates, B!Defaults)
    BY <2>1
  <2>4. RequestSound(what)
    BY <2>3 DEF RequestSound
  <2> QED
    BY <2>2, <2>4, EditReads
<1>3. CASE B!SectionReads(s)
  <2>1. PICK what : what.op = "section" /\ B!Reads(s, what)
    <3>1. PICK c \in DOMAIN B!Columns, body \in B!Rates :
            B!Reads(s, [op |-> "section", seen |-> cBase.rates, moved |-> {},
                        after |-> [f \in B!Fields |-> IF f \in B!Columns[c] THEN body[f] ELSE cBase.rates[f]]])
      BY <1>3 DEF B!SectionReads
    <3>2. PICK what : what = [op |-> "section", seen |-> cBase.rates, moved |-> {},
                        after |-> [f \in B!Fields |-> IF f \in B!Columns[c] THEN body[f] ELSE cBase.rates[f]]]
      OBVIOUS
    <3>3. what.op = "section" /\ B!Reads(s, what)
      BY <3>1, <3>2
    <3> QED
      BY <3>3
  <2>2. RequestSound(what)
    BY <2>1 DEF RequestSound
  <2> QED
    BY <2>1, <2>2, EditReads
<1> QED
  BY <1>1, <1>2, <1>3

\* An edit of the financial years leaves those it is not of, and prefers one that is there.
LEMMA YearsAreSound ==
  ASSUME B!ConfigAssumption, BaseInvariant, NEW s \in Editors,
         B!TaxSaveReads(s) \/ \E y \in FinancialYears : B!UpsertReads(s, y) \/ B!DeleteReads(s, y)
  PROVE  BaseInvariant' /\ EditKeeps
<1>1. PICK tax : tax = cBase.tax
  OBVIOUS
<1>2. tax.years \subseteq FinancialYears /\ (tax.preferred # 0 => tax.preferred \in tax.years)
  BY <1>1 DEF BaseInvariant
<1>3. ASSUME NEW of, NEW years, NEW preferred, years \subseteq FinancialYears, preferred # 0 => preferred \in years,
             \A y \in FinancialYears \ of : y \in tax.years <=> y \in years,
             B!Reads(s, [op |-> "tax", of |-> of, seen |-> tax, after |-> [years |-> years, preferred |-> preferred]])
      PROVE  BaseInvariant' /\ EditKeeps
  <2>1. PICK after : after = [years |-> years, preferred |-> preferred]
    OBVIOUS
  <2>2. PICK what : what = [op |-> "tax", of |-> of, seen |-> tax, after |-> after]
    OBVIOUS
  <2>3. B!Reads(s, what)
    BY <1>3, <2>1, <2>2
  <2>4. /\ what.op = "tax" /\ what.of = of /\ what.seen = tax /\ what.after = after
        /\ after.years = years /\ after.preferred = preferred
    BY <2>1, <2>2
  <2>5. RequestSound(what)
    BY <1>3, <2>4 DEF RequestSound
  <2> QED
    BY <2>3, <2>5, EditReads
<1>4. CASE B!TaxSaveReads(s)
  <2>1. PICK sent \in B!TaxYears :
          /\ sent.preferred # 0 => sent.preferred \in sent.years
          /\ B!Reads(s, [op |-> "tax", of |-> FinancialYears, seen |-> cBase.tax, after |-> sent])
    BY <1>4 DEF B!TaxSaveReads, B!None
  <2>2. sent = [years |-> sent.years, preferred |-> sent.preferred] /\ sent.years \subseteq FinancialYears
    BY DEF B!TaxYears
  <2>3. B!Reads(s, [op |-> "tax", of |-> FinancialYears, seen |-> tax,
                    after |-> [years |-> sent.years, preferred |-> sent.preferred]])
    BY <1>1, <2>1, <2>2
  <2>4. \A y \in FinancialYears \ FinancialYears : y \in tax.years <=> y \in sent.years
    OBVIOUS
  <2> QED
    BY <1>3, <2>1, <2>2, <2>3, <2>4
<1>5. ASSUME NEW y \in FinancialYears, B!UpsertReads(s, y) PROVE BaseInvariant' /\ EditKeeps
  <2>1. PICK preferred \in {y, tax.preferred} :
          B!Reads(s, [op |-> "tax", of |-> {y}, seen |-> tax,
                      after |-> [years |-> tax.years \cup {y}, preferred |-> preferred]])
          /\ (preferred = tax.preferred => tax.preferred # 0 \/ tax.preferred = y)
    BY <1>1, <1>5 DEF B!UpsertReads, B!None
  <2>2. tax.years \cup {y} \subseteq FinancialYears
    BY <1>2
  <2>3. preferred # 0 => preferred \in tax.years \cup {y}
    BY <1>2, <2>1
  <2>4. \A z \in FinancialYears \ {y} : z \in tax.years <=> z \in tax.years \cup {y}
    OBVIOUS
  <2> QED
    BY <1>3, <2>1, <2>2, <2>3, <2>4
<1>6. ASSUME NEW y \in FinancialYears, B!DeleteReads(s, y) PROVE BaseInvariant' /\ EditKeeps
  <2>1. PICK preferred : preferred = B!Repointed(tax, y)
    OBVIOUS
  <2>2. /\ y \in tax.years /\ tax.years # {y}
        /\ B!Reads(s, [op |-> "tax", of |-> {y}, seen |-> tax,
                       after |-> [years |-> tax.years \ {y}, preferred |-> preferred]])
    BY <1>1, <1>6, <2>1 DEF B!DeleteReads
  <2>3. tax.years \ {y} \subseteq FinancialYears /\ tax.years \ {y} # {}
    BY <1>2, <2>2
  <2>4. B!Newest(tax.years \ {y}) \in tax.years \ {y}
    BY <2>3, NewestIsThere
  <2>5. preferred # 0 => preferred \in tax.years \ {y}
    BY <1>2, <2>1, <2>4 DEF B!Repointed
  <2>6. \A z \in FinancialYears \ {y} : z \in tax.years <=> z \in tax.years \ {y}
    OBVIOUS
  <2> QED
    BY <1>3, <2>2, <2>3, <2>5, <2>6
<1> QED
  BY <1>4, <1>5, <1>6

\* A commit writes the columns that differ from what its request read.
LEMMA WritesKeep ==
  ASSUME BaseInvariant, NEW s \in Editors, B!Writes(s)
  PROVE  BaseInvariant' /\ EditKeeps
<1>1. PICK seen : seen = cRq[s].seen
  OBVIOUS
<1>2. PICK after : after = cRq[s].after
  OBVIOUS
<1>3. PICK written : written = B!Written(seen, after)
  OBVIOUS
<1>4. PICK rates : rates = [f \in B!Fields |-> IF f \in written THEN after[f] ELSE cBase.rates[f]]
  OBVIOUS
<1>5. PICK moved : moved = cRq[s].moved
  OBVIOUS
<1>6. /\ cRq[s].op \in {"save", "reset", "section"}
      /\ cBase' = [cBase EXCEPT !.rates = rates]
      /\ cOnRecord' = [f \in B!Fields |-> IF f \in moved THEN after[f].number ELSE cOnRecord[f]]
      /\ cRq[s].op = "section" => "section" \in cOddly'
      /\ (\E f \in written : cBase.rates[f] # seen[f]) => "overlap" \in cOddly'
      /\ cOddly \subseteq cOddly' /\ cRq' = [cRq EXCEPT ![s] = B!Idle]
  BY <1>1, <1>2, <1>3, <1>4, <1>5 DEF B!Writes
<1>7. /\ DOMAIN cBase = {"rates", "tax"} /\ DOMAIN cRq = Editors
      /\ \A t \in Editors : RequestSound(cRq[t])
  BY DEF BaseInvariant
<1>8. DOMAIN cBase' = {"rates", "tax"} /\ cBase'.rates = rates /\ cBase'.tax = cBase.tax
  BY <1>6, <1>7
<1>9. DOMAIN cRq' = Editors /\ cRq'[s] = B!Idle /\ \A t \in Editors \ {s} : cRq'[t] = cRq[t]
  BY <1>6, <1>7
<1>10. B!Idle.op = "idle"
  BY DEF B!Idle
<1>11. \A t \in Editors : RequestSound(cRq'[t])
  <2>1. RequestSound(B!Idle)
    BY <1>10 DEF RequestSound
  <2> QED
    BY <1>7, <1>9, <2>1
<1>12. \A f \in B!Fields : after[f] # seen[f] => f \in written
  BY <1>3 DEF B!Written, B!Fields
<1>13. \A f \in B!Fields : rates[f] = IF f \in written THEN after[f] ELSE cBase.rates[f]
  BY <1>4
<1>14. ASSUME cOddly' = {}, NEW f \in B!Fields PROVE cOnRecord'[f] = rates[f].number
  <2>1. /\ cOddly = {} /\ cRq[s].op \in {"save", "reset"}
        /\ \A g \in written : cBase.rates[g] = seen[g]
    BY <1>6, <1>14
  <2>2. cOnRecord[f] = cBase.rates[f].number
    BY <2>1 DEF BaseInvariant
  <2>3. moved = B!Moved(seen, after)
    BY <1>1, <1>2, <1>5, <1>7, <2>1 DEF RequestSound
  <2>4. f \in moved <=> seen[f].number # after[f].number
    BY <2>3 DEF B!Moved
  <2>5. CASE f \in moved
    <3>1. cOnRecord'[f] = after[f].number
      BY <1>6, <2>5
    <3>2. f \in written
      BY <1>12, <2>4, <2>5
    <3> QED
      BY <1>13, <3>1, <3>2
  <2>6. CASE f \notin moved
    <3>1. cOnRecord'[f] = cOnRecord[f]
      BY <1>6, <2>6
    <3>2. CASE f \in written
      BY <1>13, <2>1, <2>2, <2>4, <2>6, <3>1, <3>2
    <3>3. CASE f \notin written
      BY <1>13, <2>2, <3>1, <3>3
    <3> QED
      BY <3>2, <3>3
  <2> QED
    BY <2>5, <2>6
<1>15. BaseInvariant'
  <2>1. cBase'.tax.years \subseteq FinancialYears /\ (cBase'.tax.preferred # 0 => cBase'.tax.preferred \in cBase'.tax.years)
    BY <1>8 DEF BaseInvariant
  <2> QED
    BY <1>8, <1>9, <1>11, <1>14, <2>1 DEF BaseInvariant
<1>16. SaveKeeps(s)
  <2> SUFFICES ASSUME cRq[s].op = "save", "overlap" \notin cOddly', NEW f \in B!Fields, rates[f] # cBase.rates[f]
               PROVE  rates[f].number # cBase.rates[f].number
    BY <1>8 DEF SaveKeeps
  <2>1. f \in written /\ rates[f] = after[f]
    BY <1>13
  <2>2. cBase.rates[f] = seen[f]
    BY <1>6, <2>1
  <2>3. \A g \in B!Fields : after[g] # seen[g] => after[g].number # seen[g].number
    BY <1>1, <1>2, <1>7 DEF RequestSound
  <2> QED
    BY <2>1, <2>2, <2>3
<1>17. EditKeeps
  <2>1. ASSUME NEW t \in Editors \ {s}, cRq[t].op \in {"save", "tax"} PROVE cRq'[t] # B!Idle
    BY <1>9, <1>10, <2>1
  <2>2. cRq[s].op # "tax"
    BY <1>6
  <2>3. TaxKeeps(s)
    BY <2>2 DEF TaxKeeps
  <2>4. \A t \in Editors \ {s} : SaveKeeps(t) /\ TaxKeeps(t)
    BY <2>1 DEF SaveKeeps, TaxKeeps
  <2> QED
    BY <1>16, <2>3, <2>4 DEF EditKeeps
<1> QED
  BY <1>15, <1>17

\* A commit of the financial years writes the column of them all.
LEMMA TaxWritesKeep ==
  ASSUME BaseInvariant, NEW s \in Editors, B!TaxWrites(s)
  PROVE  BaseInvariant' /\ EditKeeps
<1>1. PICK seen : seen = cRq[s].seen
  OBVIOUS
<1>2. PICK after : after = cRq[s].after
  OBVIOUS
<1>3. /\ cRq[s].op = "tax" /\ cBase' = (IF after # seen THEN [cBase EXCEPT !.tax = after] ELSE cBase)
      /\ cBase.tax # seen => "overlap" \in cOddly'
      /\ cOddly \subseteq cOddly' /\ cOnRecord' = cOnRecord /\ cRq' = [cRq EXCEPT ![s] = B!Idle]
  BY <1>1, <1>2 DEF B!TaxWrites
<1>4. /\ DOMAIN cBase = {"rates", "tax"} /\ DOMAIN cRq = Editors
      /\ \A t \in Editors : RequestSound(cRq[t])
  BY DEF BaseInvariant
<1>5. /\ DOMAIN cBase' = {"rates", "tax"} /\ cBase'.rates = cBase.rates
      /\ cBase'.tax = IF after # seen THEN after ELSE cBase.tax
  BY <1>3, <1>4
<1>6. DOMAIN cRq' = Editors /\ cRq'[s] = B!Idle /\ \A t \in Editors \ {s} : cRq'[t] = cRq[t]
  BY <1>3, <1>4
<1>7. B!Idle.op = "idle"
  BY DEF B!Idle
<1>8. \A t \in Editors : RequestSound(cRq'[t])
  <2>1. RequestSound(B!Idle)
    BY <1>7 DEF RequestSound
  <2> QED
    BY <1>4, <1>6, <2>1
<1>9. /\ after.years \subseteq FinancialYears /\ (after.preferred # 0 => after.preferred \in after.years)
      /\ \A y \in FinancialYears \ cRq[s].of : y \in seen.years <=> y \in after.years
  BY <1>1, <1>2, <1>3, <1>4 DEF RequestSound
<1>10. BaseInvariant'
  <2>1. cBase'.tax.years \subseteq FinancialYears /\ (cBase'.tax.preferred # 0 => cBase'.tax.preferred \in cBase'.tax.years)
    BY <1>5, <1>9 DEF BaseInvariant
  <2>2. cOddly' = {} => \A f \in B!Fields : cOnRecord'[f] = cBase'.rates[f].number
    BY <1>3, <1>5 DEF BaseInvariant
  <2> QED
    BY <1>5, <1>6, <1>8, <2>1, <2>2 DEF BaseInvariant
<1>11. TaxKeeps(s)
  <2> SUFFICES ASSUME "overlap" \notin cOddly', NEW y \in FinancialYears \ cRq[s].of
               PROVE  y \in cBase.tax.years <=> y \in cBase'.tax.years
    BY DEF TaxKeeps
  <2>1. cBase.tax = seen
    BY <1>3
  <2> QED
    BY <1>5, <1>9, <2>1
<1>12. EditKeeps
  <2>1. ASSUME NEW t \in Editors \ {s}, cRq[t].op \in {"save", "tax"} PROVE cRq'[t] # B!Idle
    BY <1>6, <1>7, <2>1
  <2>2. cRq[s].op # "save"
    BY <1>3
  <2>3. SaveKeeps(s)
    BY <2>2 DEF SaveKeeps
  <2>4. \A t \in Editors \ {s} : SaveKeeps(t) /\ TaxKeeps(t)
    BY <2>1 DEF SaveKeeps, TaxKeeps
  <2> QED
    BY <1>11, <2>3, <2>4 DEF EditKeeps
<1> QED
  BY <1>10, <1>12

\* The base moves in one part, its versions in another.
ConfigurationInvariant ==
  /\ BaseInvariant /\ DatedInvariant /\ MonthsCounted
  /\ part # "base" => cSaves = 0 /\ \A s \in Editors : cRq[s].op = "idle"
  /\ part = "base" => cVersion = <<>>

\* A service starts so.
LEMMA ConfigurationStart == ServicesInit => ConfigurationInvariant
<1> SUFFICES ASSUME ServicesInit PROVE ConfigurationInvariant
  OBVIOUS
<1>1. C!Init /\ B!ConfigAssumption
  BY ServicesAssumption DEF ServicesInit
<1>2. BaseInvariant /\ DatedInvariant
  BY <1>1, BaseStart, DatedStart
<1>3. cSaves = 0 /\ cVersion = <<>> /\ cValidated = {} /\ cRq = [s \in Editors |-> C!Idle]
  BY <1>1 DEF C!Init
<1>4. \A s \in Editors : cRq[s].op = "idle"
  BY <1>3 DEF C!Idle
<1> QED
  BY <1>2, <1>3, <1>4 DEF ConfigurationInvariant, MonthsCounted

\* What is asked of a step: of a publication or a withdrawal, and of a commit.
ConfigurationKeeps == AllNamed /\ EditKeeps

\* While another component moves, nothing does here.
LEMMA ConfigurationStands ==
  ASSUME ConfigurationInvariant, UNCHANGED configuration, part' = part
  PROVE  ConfigurationInvariant' /\ ConfigurationKeeps
<1>1. /\ cBase' = cBase /\ cRq' = cRq /\ cSaves' = cSaves /\ cOnRecord' = cOnRecord /\ cOddly' = cOddly
      /\ cVersion' = cVersion /\ cValidated' = cValidated
  BY DEF configuration
<1>2. ConfigurationInvariant'
  BY <1>1 DEF ConfigurationInvariant, BaseInvariant, DatedInvariant, MonthsCounted, C!Published, C!Versions
<1>3. AllNamed
  BY <1>1 DEF AllNamed
<1>4. EditKeeps
  <2>1. B!Idle.op = "idle"
    BY DEF B!Idle
  <2> QED
    BY <1>1, <2>1 DEF EditKeeps, SaveKeeps, TaxKeeps
<1> QED
  BY <1>2, <1>3, <1>4 DEF ConfigurationKeeps

\* Every step of the services.
LEMMA ConfigurationStep ==
  ASSUME ConfigurationInvariant, [ServicesNext]_allVars
  PROVE  ConfigurationInvariant' /\ ConfigurationKeeps
<1>1. part' = part
  BY DEF ServicesNext, allVars
<1>2. \/ UNCHANGED configuration
      \/ part = "configuration" /\ C!Next
      \/ part = "base" /\ B!Next
  BY DEF ServicesNext, allVars
<1>3. /\ BaseInvariant /\ DatedInvariant /\ MonthsCounted
      /\ part # "base" => cSaves = 0 /\ \A s \in Editors : cRq[s].op = "idle"
      /\ part = "base" => cVersion = <<>>
  BY DEF ConfigurationInvariant
<1>4. C!ConfigAssumption /\ B!ConfigAssumption
  BY ServicesAssumption
<1>5. CASE part = "configuration" /\ C!Next
  <2>1. cSaves = 0 /\ \A s \in Editors : cRq[s].op = "idle"
    BY <1>3, <1>5
  <2>2. ASSUME NEW s \in Editors, C!EditsBase(s) PROVE FALSE
    <3>1. \A what : ~C!Reads(s, what)
      BY <2>1 DEF C!Reads
    <3>2. ~C!Writes(s) /\ ~C!TaxWrites(s)
      BY <2>1 DEF C!Writes, C!TaxWrites
    <3>3. ~C!SaveReads(s) /\ ~C!ResetReads(s) /\ ~C!SectionReads(s) /\ ~C!TaxSaveReads(s)
      BY <3>1 DEF C!SaveReads, C!ResetReads, C!SectionReads, C!TaxSaveReads
    <3>4. \A y : ~C!UpsertReads(s, y) /\ ~C!DeleteReads(s, y)
      BY <3>1 DEF C!UpsertReads, C!DeleteReads
    <3> QED
      BY <2>2, <3>2, <3>3, <3>4 DEF C!EditsBase
  <2>3. C!EditsVersions
    BY <1>5, <2>2 DEF C!Next
  <2>4. DatedInvariant' /\ MonthsCounted' /\ AllNamed
    BY <1>3, <1>4, <2>3, DatedStep
  <2>5. cBase' = cBase /\ cRq' = cRq /\ cSaves' = cSaves /\ cOnRecord' = cOnRecord /\ cOddly' = cOddly
    BY <2>3 DEF C!EditsVersions
  <2>6. BaseInvariant'
    BY <1>3, <2>5 DEF BaseInvariant
  <2>7. EditKeeps
    BY <2>1 DEF EditKeeps, SaveKeeps, TaxKeeps
  <2> QED
    BY <1>1, <1>3, <1>5, <2>4, <2>5, <2>6, <2>7 DEF ConfigurationInvariant, ConfigurationKeeps
<1>6. CASE part = "base" /\ B!Next
  <2>1. cVersion = <<>> /\ DOMAIN cVersion = {} /\ Len(cVersion) = 0
    BY <1>3, <1>6
  <2>2. ~B!EditsVersions
    <3>1. ~B!Create
      BY <2>1 DEF B!Create
    <3>2. B!Versions = {} /\ B!Months = {}
      BY <2>1 DEF B!Versions, B!Months
    <3> QED
      BY <3>1, <3>2 DEF B!EditsVersions
  <2>3. PICK s \in Editors : B!EditsBase(s)
    BY <1>6, <2>2 DEF B!Next
  <2>4. BaseInvariant' /\ EditKeeps
    <3>1. CASE B!SaveReads(s) \/ B!ResetReads(s) \/ B!SectionReads(s)
      BY <1>3, <3>1, EditsAreSound
    <3>2. CASE B!TaxSaveReads(s) \/ \E y \in FinancialYears : B!UpsertReads(s, y) \/ B!DeleteReads(s, y)
      BY <1>3, <1>4, <3>2, YearsAreSound
    <3>3. CASE B!Writes(s)
      BY <1>3, <3>3, WritesKeep
    <3>4. CASE B!TaxWrites(s)
      BY <1>3, <3>4, TaxWritesKeep
    <3> QED
      BY <2>3, <3>1, <3>2, <3>3, <3>4 DEF B!EditsBase
  <2>5. cVersion' = cVersion /\ cValidated' = cValidated
    BY <2>3 DEF B!EditsBase, B!SaveReads, B!ResetReads, B!SectionReads, B!TaxSaveReads, B!UpsertReads, B!DeleteReads,
                B!Reads, B!Writes, B!TaxWrites, B!dated
  <2>6. DatedInvariant' /\ MonthsCounted'
    BY <1>3, <2>5 DEF DatedInvariant, MonthsCounted, C!Published, C!Versions
  <2>7. AllNamed
    BY <2>5 DEF AllNamed
  <2> QED
    BY <1>1, <1>3, <1>6, <2>4, <2>5, <2>6, <2>7 DEF ConfigurationInvariant, ConfigurationKeeps
<1> QED
  BY <1>1, <1>2, <1>5, <1>6, ConfigurationStands

--------------------------------------------------------------------------------
(* The components together: while one moves, the others stand still.       *)

ServicesInvariant ==
  /\ KeyInvariant /\ DeliveriesInvariant /\ RulesInvariant
  /\ ReleasesInvariant /\ ReportsInvariant /\ AutomationInvariant

LEMMA EachByItself ==
  ASSUME [ServicesNext]_allVars
  PROVE  /\ [Next]_vars /\ [D!Next]_D!vars /\ [M!Next]_M!vars
         /\ [L!Next]_L!vars /\ [R!Next]_R!vars /\ [A!Next]_A!vars
<1>1. [Next]_vars
  BY DEF ServicesNext, allVars, requests, vars
<1>2. [D!Next]_D!vars
  BY DEF ServicesNext, allVars, deliveries, D!Next, D!vars, D!sending, D!signing, D!inbound, D!Signs
<1>3. [M!Next]_M!vars
  BY DEF ServicesNext, allVars, rules, M!vars
<1>4. [L!Next]_L!vars
  BY DEF ServicesNext, allVars, releases, L!vars
<1>5. [R!Next]_R!vars
  BY DEF ServicesNext, allVars, reports, R!vars
<1>6. [A!Next]_A!vars
  BY DEF ServicesNext, allVars, automation, A!vars
<1> QED
  BY <1>1, <1>2, <1>3, <1>4, <1>5, <1>6

LEMMA ServicesHold == ServicesSpec => []ServicesInvariant
<1>1. ServicesInit => ServicesInvariant
  BY KeyStart, DeliveriesStart, RulesStart, ReleasesStart, ReportsStart, AutomationStart
  DEF ServicesInit, ServicesInvariant
<1>2. ServicesInvariant /\ [ServicesNext]_allVars => ServicesInvariant'
  <2> SUFFICES ASSUME ServicesInvariant, [ServicesNext]_allVars PROVE ServicesInvariant'
    OBVIOUS
  <2>1. /\ KeyInvariant /\ DeliveriesInvariant /\ RulesInvariant
        /\ ReleasesInvariant /\ ReportsInvariant /\ AutomationInvariant
    BY DEF ServicesInvariant
  <2>2. KeyInvariant'
    BY <2>1, EachByItself, KeyStep
  <2>3. DeliveriesInvariant'
    BY <2>1, EachByItself, DeliveriesStep
  <2>4. RulesInvariant'
    BY <2>1, EachByItself, RulesStep
  <2>5. ReleasesInvariant'
    BY <2>1, EachByItself, ReleasesStep
  <2>6. ReportsInvariant'
    BY <2>1, EachByItself, ReportSteps DEF Safe
  <2>7. AutomationInvariant'
    BY <2>1, EachByItself, AutomationStep
  <2> QED
    BY <2>2, <2>3, <2>4, <2>5, <2>6, <2>7 DEF ServicesInvariant
<1> QED
  BY <1>1, <1>2, PTL DEF ServicesSpec

\* Work under a key takes effect once while the key lasts, but for attempts that failed
\* after their commit, and an answer that is replayed is the answer to that request: for
\* any requests and bodies (idempotency.begin, finish, abandon).
THEOREM OncePerKey == ServicesSpec => []AtMostOncePerKey
<1>1. ServicesInvariant => AtMostOncePerKey
  BY DEF ServicesInvariant, KeyInvariant
<1> QED
  BY <1>1, ServicesHold, PTL

\* What is called delivered was heard, nothing is heard more often than it may be tried and
\* workers died, a receiver that keeps up with the rotations can check every signature, and
\* what comes in is taken once: for any workers, deliveries, administrators and calls
\* (webhooks.py:4, 15-21).
THEOREM DeliveriesAreHeard == ServicesSpec => []HeardAtLeastOnceAndNotForEver
<1>1. ServicesInvariant => HeardAtLeastOnceAndNotForEver
  BY DeliveriesHold DEF ServicesInvariant, HeardAtLeastOnceAndNotForEver
<1> QED
  BY <1>1, ServicesHold, PTL

\* Deliveries, the workers' batches, the webhook's secrets, its receiver and the calls that
\* come in keep their types, and no delivery is tried more often than it may be.
THEOREM DeliveriesKeepTypes == ServicesSpec => []D!TypeOK
<1>1. ServicesInvariant => D!TypeOK
  BY DeliveriesTypes DEF ServicesInvariant
<1> QED
  BY <1>1, ServicesHold, PTL

\* Workflows that start one another end, at the depth the code allows, and the same inputs
\* or the same event start one once, whoever dispatches and whatever dies: for any flows,
\* triggers and dispatchers (workflows.py:23, workflows.on_event, webhooks.fan_out).
THEOREM ChainsEnd == ServicesSpec => []ChainsEndAndFireOnce
<1>1. ServicesInvariant => ChainsEndAndFireOnce
  BY AutomationChains DEF ServicesInvariant, ChainsEndAndFireOnce
<1> QED
  BY <1>1, ServicesHold, PTL

\* A generated report file is never replaced, and once its term is over it does not come
\* back, while no worker outlasts the lease of its report (models/report_job.py:3).
THEOREM FilesStay == ServicesSpec => GeneratedFilesStay
<1>1. ServicesInvariant /\ [ServicesNext]_allVars =>
        [\A j \in R!Jobs : /\ rJob[j].file # R!None => rJob'[j].file \in {rJob[j].file, R!None}
                           /\ rJob[j].expired => rJob'[j].file = R!None]_R!vars
  BY EachByItself, ReportSteps DEF ServicesInvariant, Safe, FileStays
<1> QED
  BY <1>1, ServicesHold, PTL DEF ServicesSpec, GeneratedFilesStay, R!GeneratedFilesStay

\* A rollback of a release that nobody has built on since restores what the release found
\* in force (releases.rollback).
THEOREM ReleasesRollBack == ServicesSpec => RollbackRestores
<1>1. ServicesInvariant /\ [ServicesNext]_allVars =>
        [\A b \in DOMAIN lRel :
           LET r == lRel[b].of IN
           lRel[b].status = "approved" /\ lRel'[b].status = "promoted" /\ r # L!NoRelease /\ lRel[r].alone
             => L!SpecOf(L!InForce)' = L!SpecOf(lRel[r].prev)]_L!vars
  BY EachByItself, RollbacksRestore DEF ServicesInvariant, TakesBack
<1> QED
  BY <1>1, ServicesHold, PTL DEF ServicesSpec, RollbackRestores, L!RollbackRestores

\* A month keeps the rule that applied to it until a later version of its own key covers
\* it or the rule is retired from before it, and no month is validated by two rules that
\* no value satisfies (published_for, publish, conflicts).
THEOREM MonthsKeepTheirRule == ServicesSpec => MonthsKeepOneRule
<1>1. ServicesInvariant /\ [ServicesNext]_allVars =>
        [\A key \in RuleKeys, m \in M!Months :
           LET v == M!Governs(key, m)
           IN (v # M!NoRule /\ M!Governs(key, m)' # v) =>
                \/ \E u \in M!Dated' \ M!Dated : mRule[u].key = key /\ mRule[u].from <= m /\ M!StartsAfter(u, v)
                \/ mRule'[v].status = "retired" /\ mRule'[v].to < m]_M!vars
  BY EachByItself, RulesGiveWay DEF ServicesInvariant, GivesWay
<1>2. ServicesInvariant => (part = "rules" => M!NoMonthContradictsItself)
  BY RulesAgree DEF ServicesInvariant
<1> QED
  BY <1>1, <1>2, ServicesHold, PTL DEF ServicesSpec, MonthsKeepOneRule, M!OldMonthsKeepTheirRule

\* Publishing or withdrawing a version of a configuration names exactly the validated months
\* whose configuration changes; a save of its base leaves what nobody touched as it was
\* written, an edit of one financial year leaves the others, and the records of the edits
\* add up to what is in force, unless two edits overlapped: for any requests, years, months
\* and versions (_affected, _keep_stored_form, _record_change, delete_tax_year).
THEOREM ChangesAreTold == ServicesSpec => AffectedAreWhatChanges
<1>1. ServicesInit => ConfigurationInvariant
  BY ConfigurationStart
<1>2. ConfigurationInvariant /\ [ServicesNext]_allVars => ConfigurationInvariant'
  BY ConfigurationStep
<1>3. ConfigurationInvariant /\ [ServicesNext]_allVars =>
        [\A v \in C!Versions :
           cVersion'[v].status # cVersion[v].status /\ "published" \in {cVersion[v].status, cVersion'[v].status} =>
             cTold' = {m \in cValidated : C!InForce(m)' # C!InForce(m)}]_C!vars
  BY ConfigurationStep DEF ConfigurationKeeps, AllNamed, NamesWhatChanges
<1>4. ConfigurationInvariant /\ [ServicesNext]_allVars =>
        [\A s \in Editors : cRq[s].op = "save" /\ cRq'[s] = B!Idle /\ "overlap" \notin cOddly' =>
           \A f \in B!Fields : cBase'.rates[f] # cBase.rates[f] => cBase'.rates[f].number # cBase.rates[f].number]_B!vars
  BY ConfigurationStep DEF ConfigurationKeeps, EditKeeps, SaveKeeps
<1>5. ConfigurationInvariant /\ [ServicesNext]_allVars =>
        [\A s \in Editors : cRq[s].op = "tax" /\ cRq'[s] = B!Idle /\ "overlap" \notin cOddly' =>
           \A y \in FinancialYears \ cRq[s].of : y \in cBase.tax.years <=> y \in cBase'.tax.years]_B!vars
  BY ConfigurationStep DEF ConfigurationKeeps, EditKeeps, TaxKeeps
<1>6. ConfigurationInvariant => (part = "base" => B!RecordsAddUp /\ B!PreferredYearIsThere)
  BY DEF ConfigurationInvariant, BaseInvariant, B!RecordsAddUp, B!PreferredYearIsThere, B!None
<1> QED
  BY <1>1, <1>2, <1>3, <1>4, <1>5, <1>6, PTL
     DEF ServicesSpec, AffectedAreWhatChanges, C!AffectedAreWhatChanges, B!UntouchedStaysAsWritten, B!OtherYearsStay
===============================================================================

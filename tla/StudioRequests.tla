----------------------------- MODULE StudioRequests -----------------------------
(***************************************************************************)
(* Idempotency keys: retried writes of one caller under one key.           *)
(*                                                                         *)
(*   services/studio/idempotency.py  begin, finish, abandon, purge_expired *)
(*   integration/deps.py             idempotent                            *)
(*                                                                         *)
(* `work` is what the route does.  It commits once, before it returns; a   *)
(* request lasts less than the day a key is kept.                          *)
(***************************************************************************)
EXTENDS Integers

CONSTANTS
  Requests,   \* requests that carry the key, retries included
  Bodies      \* what they ask for: method, path, company and body

None == "none"
NoRow == 0

ASSUME RequestsAssumption == None \notin Requests \cup Bodies

VARIABLES
  record,  \* the row of studio_idempotency with this key
  rq,      \* what each request is doing, and what it was answered
  made,    \* reservations made
  today    \* effects of `work`, and failures after one, since the last reservation expired

vars == <<record, rq, made, today>>

\* `stored` is the request whose answer is kept, None while its work is under way.
Absent == [id |-> NoRow, body |-> None, stored |-> None, expired |-> FALSE]
New(id, body) == [id |-> id, body |-> body, stored |-> None, expired |-> FALSE]

Init ==
  /\ record = Absent
  /\ rq = [r \in Requests |-> [pc |-> "unsent", body |-> None, seen |-> Absent, id |-> NoRow, answer |-> None]]
  /\ made = 0
  /\ today = [effects |-> 0, late |-> 0]

--------------------------------------------------------------------------------
Ends(r, pc, answer) == rq' = [rq EXCEPT ![r].pc = pc, ![r].answer = answer]

\* begin reads the row of the key.
Arrives(r) ==
  /\ rq[r].pc = "unsent"
  /\ \E b \in Bodies : rq' = [rq EXCEPT ![r] = [@ EXCEPT !.pc = "looked", !.body = b, !.seen = record]]
  /\ UNCHANGED <<record, made, today>>

\* Mutant of Usable: the request's fingerprint is not compared.
UsableByAnyone(r) == rq[r].seen.stored # None
Usable(r) == rq[r].seen.stored # None /\ rq[r].seen.body = rq[r].body

\* A row that is still valid: its answer, or a refusal.
Replays(r) ==
  /\ rq[r].pc = "looked" /\ rq[r].seen.id # NoRow /\ ~rq[r].seen.expired
  /\ IF Usable(r) THEN Ends(r, "answered", rq[r].seen.stored) ELSE Ends(r, "refused", None)
  /\ UNCHANGED <<record, made, today>>

\* Mutant of Free: without the unique constraint on the key.
FreeAlways(r) == TRUE
\* What is left of the row once the expired one it saw is deleted.
Free(r) == record.id = NoRow \/ record.id = rq[r].seen.id

\* None, or an expired one that it deletes: it reserves the key, unless another
\* request has done so since.
Reserves(r) ==
  /\ rq[r].pc = "looked" /\ (rq[r].seen.id = NoRow \/ rq[r].seen.expired)
  /\ IF Free(r)
       THEN /\ made' = made + 1
            /\ record' = New(made + 1, rq[r].body)
            /\ rq' = [rq EXCEPT ![r].pc = "working", ![r].id = made + 1]
       ELSE Ends(r, "refused", None) /\ UNCHANGED <<record, made>>
  /\ UNCHANGED today

Works(r) ==
  /\ rq[r].pc = "working"
  /\ rq' = [rq EXCEPT ![r].pc = "worked"]
  /\ today' = [today EXCEPT !.effects = @ + 1]
  /\ UNCHANGED <<record, made>>

\* finish stores the answer.
Finishes(r) ==
  /\ rq[r].pc = "worked"
  /\ record' = IF record.id = rq[r].id THEN [record EXCEPT !.stored = r] ELSE record
  /\ Ends(r, "answered", r)
  /\ UNCHANGED <<made, today>>

\* `work` raises and abandon frees the key: before its commit, or after it.
Fails(r) ==
  /\ rq[r].pc \in {"working", "worked"}
  /\ record' = IF record.id = rq[r].id THEN Absent ELSE record
  /\ today' = IF rq[r].pc = "worked" THEN [today EXCEPT !.late = @ + 1] ELSE today
  /\ Ends(r, "refused", None)
  /\ UNCHANGED made

\* The process dies, or the answer cannot be stored: the key stays reserved.
Dies(r) ==
  /\ rq[r].pc \in {"looked", "working", "worked"}
  /\ Ends(r, "lost", None)
  /\ UNCHANGED <<record, made, today>>

\* A day has passed since the reservation.
Expires ==
  /\ record.id # NoRow /\ ~record.expired
  /\ \A r \in Requests : rq[r].pc \notin {"looked", "working", "worked"}
  /\ record' = [record EXCEPT !.expired = TRUE]
  /\ today' = [effects |-> 0, late |-> 0]
  /\ UNCHANGED <<rq, made>>

\* purge_expired.
Purge ==
  /\ record.expired
  /\ record' = Absent
  /\ UNCHANGED <<rq, made, today>>

--------------------------------------------------------------------------------
Next ==
  \/ Expires \/ Purge
  \/ \E r \in Requests : \/ Arrives(r) \/ Replays(r) \/ Reserves(r) \/ Works(r)
                         \/ Finishes(r) \/ Fails(r) \/ Dies(r)

Spec == Init /\ [][Next]_vars

--------------------------------------------------------------------------------
TypeOK ==
  /\ record \in [id : Nat, body : Bodies \cup {None}, stored : Requests \cup {None}, expired : BOOLEAN]
  /\ \A r \in Requests : rq[r].pc \in {"unsent", "looked", "working", "worked", "answered", "refused", "lost"}
  /\ made \in Nat
  /\ today \in [effects : Nat, late : Nat]

\* "Run work at most once per Idempotency-Key" (integration/deps.py:108): until the
\* key expires its work takes effect once, but for an attempt that failed after it
\* had committed; and a replayed answer is the answer to that very request ("refused
\* rather than silently answered with the wrong result", idempotency.py:6-8).
AtMostOncePerKey ==
  /\ today.effects <= 1 + today.late
  /\ \A r \in Requests : rq[r].pc = "answered" => rq[rq[r].answer].body = rq[r].body
================================================================================

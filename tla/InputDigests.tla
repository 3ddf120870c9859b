------------------------------ MODULE InputDigests ------------------------------
(***************************************************************************)
(* Whether a run is still current: the digest of an input, cached against  *)
(* its revision, recorded with a run and compared on every page load.      *)
(*                                                                         *)
(*   services/input_revisions.py  _after_flush, _bulk_statement, revision  *)
(*   services/run_inputs.py       _cached_table_digest, run_freshness      *)
(*   database.py                  write_aside                              *)
(*   services/validation_worker.py, routers/payroll.py: when the digests   *)
(*                                of a run are taken                       *)
(*                                                                         *)
(* One input of one company.  Its content is the number of transactions    *)
(* that changed it: content that changes and is changed back, while a run  *)
(* reads it, is left out.  A digest stands for the content it is of.       *)
(***************************************************************************)
EXTENDS Integers

CONSTANTS
  Writers,     \* sessions that write the input
  Sessions,    \* sessions that take its digest
  Purposes,    \* what for: a run of the "worker" or of the "endpoint", or a "page"
  TokenBound   \* bound: tokens drawn

ASSUME DigestAssumption ==
  /\ Purposes \subseteq {"worker", "endpoint", "page"}
  /\ TokenBound \in Nat

Scopes == {"company", "every company"}   \* whose tokens a write replaces

VARIABLES
  content, \* the committed rows of the input
  token,   \* its two rows in input_revisions
  drawn,   \* the tokens drawn: they never repeat
  tx,      \* the open transaction of each writer
  cache,   \* its row in input_digest_cache
  ss,      \* what each session is doing
  runs     \* the runs recorded: the digest they carry and the content they read

vars == <<content, token, drawn, tx, cache, ss, runs>>

NoTx == [open |-> FALSE, scope |-> "company", token |-> 0]
NoRun == [digest |-> 0, read |-> 0]

\* `from` is the content when it began, `run` what a page was asked about.
Idle == [pc |-> "idle", for |-> "page", from |-> 0, rev |-> [s \in Scopes |-> 0], digest |-> 0,
         read |-> 0, run |-> NoRun]

Init ==
  /\ content = 0
  /\ token = [s \in Scopes |-> 0]
  /\ drawn = 0
  /\ tx = [w \in Writers |-> NoTx]
  /\ cache = [stored |-> FALSE, rev |-> [s \in Scopes |-> 0], digest |-> 0]
  /\ ss = [s \in Sessions |-> Idle]
  /\ runs = {}

--------------------------------------------------------------------------------
(* Writers.                                                                *)

\* A flush with changed rows draws a token for the company; a bulk statement, or
\* a user who is deleted, draws one for every company.  The upsert waits for
\* another transaction that has drawn one for the same scope.
Flush(w, scope) ==
  /\ drawn < TokenBound
  /\ tx[w].open => tx[w].scope = scope
  /\ \A v \in Writers \ {w} : ~(tx[v].open /\ tx[v].scope = scope)
  /\ drawn' = drawn + 1
  /\ tx' = [tx EXCEPT ![w] = [open |-> TRUE, scope |-> scope, token |-> drawn + 1]]
  /\ UNCHANGED <<content, token, cache, ss, runs>>

\* Mutant of Revised: a bulk statement moves no token.
RevisedByFlush(w) == IF tx[w].scope = "company" THEN [token EXCEPT !["company"] = tx[w].token] ELSE token
Revised(w) == [token EXCEPT ![tx[w].scope] = tx[w].token]

\* The rows and the token in one transaction.
Commit(w) ==
  /\ tx[w].open
  /\ content' = content + 1
  /\ token' = Revised(w)
  /\ tx' = [tx EXCEPT ![w] = NoTx]
  /\ UNCHANGED <<drawn, cache, ss, runs>>

Rollback(w) ==
  /\ tx[w].open
  /\ tx' = [tx EXCEPT ![w] = NoTx]
  /\ UNCHANGED <<content, token, drawn, cache, ss, runs>>

--------------------------------------------------------------------------------
(* Sessions.                                                               *)

Goes(s, pc) == [ss[s] EXCEPT !.pc = pc]

\* A run begins, or a page is asked about a run.  The endpoint validates first.
Begin(s, for) ==
  /\ ss[s].pc = "idle" /\ for \in Purposes
  /\ \/ /\ for = "worker"
        /\ ss' = [ss EXCEPT ![s] = [Idle EXCEPT !.pc = "revision", !.for = for, !.from = content]]
     \/ /\ for = "endpoint"
        /\ ss' = [ss EXCEPT ![s] = [Idle EXCEPT !.pc = "reads", !.for = for, !.from = content]]
     \/ /\ for = "page"
        /\ \E r \in runs :
             ss' = [ss EXCEPT ![s] = [Idle EXCEPT !.pc = "revision", !.from = content, !.run = r]]
  /\ UNCHANGED <<content, token, drawn, tx, cache, runs>>

\* The revision is read before the rows.
ReadRevision(s) ==
  /\ ss[s].pc = "revision"
  /\ ss' = [ss EXCEPT ![s] = [Goes(s, "lookup") EXCEPT !.rev = token]]
  /\ UNCHANGED <<content, token, drawn, tx, cache, runs>>

Lookup(s) ==
  /\ ss[s].pc = "lookup"
  /\ IF cache.stored /\ cache.rev = ss[s].rev
       THEN ss' = [ss EXCEPT ![s] = [Goes(s, "digested") EXCEPT !.digest = cache.digest]]
       ELSE ss' = [ss EXCEPT ![s] = Goes(s, "rows")]
  /\ UNCHANGED <<content, token, drawn, tx, cache, runs>>

ReadRows(s) ==
  /\ ss[s].pc = "rows"
  /\ ss' = [ss EXCEPT ![s] = [Goes(s, "store") EXCEPT !.digest = content]]
  /\ UNCHANGED <<content, token, drawn, tx, cache, runs>>

\* Mutant of FiledUnder: under the revision of the moment.
FiledUnderToday(s) == token
FiledUnder(s) == ss[s].rev

\* write_aside: stored in a transaction of its own, or not at all.
Store(s) ==
  /\ ss[s].pc = "store"
  /\ \/ cache' = [stored |-> TRUE, rev |-> FiledUnder(s), digest |-> ss[s].digest]
     \/ UNCHANGED cache
  /\ ss' = [ss EXCEPT ![s] = Goes(s, "digested")]
  /\ UNCHANGED <<content, token, drawn, tx, runs>>

\* What comes after the digest: the worker reads, the endpoint has read.
AfterDigest(for) == IF for = "worker" THEN "reads" ELSE "records"
AfterReading(for) == IF for = "worker" THEN "records" ELSE "revision"

Digested(s) ==
  /\ ss[s].pc = "digested" /\ ss[s].for # "page"
  /\ ss' = [ss EXCEPT ![s] = Goes(s, AfterDigest(ss[s].for))]
  /\ UNCHANGED <<content, token, drawn, tx, cache, runs>>

Read(s) ==
  /\ ss[s].pc = "reads"
  /\ ss' = [ss EXCEPT ![s] = [Goes(s, AfterReading(ss[s].for)) EXCEPT !.read = content]]
  /\ UNCHANGED <<content, token, drawn, tx, cache, runs>>

Record(s) ==
  /\ ss[s].pc = "records"
  /\ runs' = runs \cup {[digest |-> ss[s].digest, read |-> ss[s].read]}
  /\ ss' = [ss EXCEPT ![s] = Idle]
  /\ UNCHANGED <<content, token, drawn, tx, cache>>

\* run_freshness has its answer; or the request or the run fails on the way.
Ends(s) ==
  /\ ss[s].pc # "idle"
  /\ ss' = [ss EXCEPT ![s] = Idle]
  /\ UNCHANGED <<content, token, drawn, tx, cache, runs>>

--------------------------------------------------------------------------------
Write(w) == Commit(w) \/ Rollback(w) \/ \E scope \in Scopes : Flush(w, scope)

Step(s) ==
  \/ \E for \in Purposes : Begin(s, for)
  \/ ReadRevision(s) \/ Lookup(s) \/ ReadRows(s) \/ Store(s) \/ Digested(s) \/ Read(s) \/ Record(s) \/ Ends(s)

Next == (\E w \in Writers : Write(w)) \/ (\E s \in Sessions : Step(s))

Spec == Init /\ [][Next]_vars

--------------------------------------------------------------------------------
Run == [digest : Nat, read : Nat]

SessionState ==
  [pc : {"idle", "revision", "lookup", "rows", "store", "digested", "reads", "records"},
   for : {"worker", "endpoint", "page"}, from : Nat, rev : [Scopes -> Nat], digest : Nat, read : Nat, run : Run]

TypeOK ==
  /\ content \in Nat
  /\ token \in [Scopes -> Nat] /\ drawn \in Nat
  /\ tx \in [Writers -> [open : BOOLEAN, scope : Scopes, token : Nat]]
  /\ cache \in [stored : BOOLEAN, rev : [Scopes -> Nat], digest : Nat]
  /\ runs \subseteq Run
  /\ ss \in [Sessions -> SessionState]

\* A cached digest is as good as reading the rows: what a session is given was the
\* input's content at some moment since the session began, whatever was written,
\* rolled back or stored by others meanwhile (run_inputs.py:151-189).
DigestsAreOfTheirTime ==
  \A s \in Sessions :
    ss[s].pc = "digested" => ss[s].from <= ss[s].digest /\ ss[s].digest <= content

\* "would call a stale run current, which is the one answer this product must never
\* give" (input_revisions.py:15-16): a page that finds the digest of a run equal to
\* today's is about a run that read what was there when the page was asked for.
NeverCallsAStaleRunCurrent ==
  \A s \in Sessions :
    ss[s].pc = "digested" /\ ss[s].for = "page" /\ ss[s].digest = ss[s].run.digest
      => ss[s].run.read = ss[s].from
================================================================================

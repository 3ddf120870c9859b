----------------------------- MODULE StudioReleases -----------------------------
(***************************************************************************)
(* Mapping versions of a company, and the releases that carry them there   *)
(* and take them back.                                                     *)
(*                                                                         *)
(*   services/studio/profiles.py  create, update_draft, publish, retire,   *)
(*                                in_force                                 *)
(*   services/studio/releases.py  create, submit, decide, promote,         *)
(*                                rollback                                 *)
(*                                                                         *)
(* One mapping key of one target company; each request is one transaction. *)
(* Whether the specification is valid there is left open: a release may    *)
(* not be submitted or promoted.                                           *)
(***************************************************************************)
EXTENDS Integers, Sequences, FiniteSets

CONSTANTS
  Specs,        \* specifications of the mapping
  VersionBound, \* bound: versions
  CreateBound,  \* bound: releases of another company
  RollbackBound \* bound: releases that roll one back

ReleaseAssumption == /\ Specs # {} /\ "none" \notin Specs
                     /\ {VersionBound, CreateBound, RollbackBound} \subseteq Nat

NoVersion == 0
NoRelease == 0
From == {"now", "later"}   \* effective_from: past or none, or still to come

VARIABLES
  version,  \* the versions of the key
  rel,      \* the releases
  later     \* whether the later date has come

vars == <<version, rel, later>>

Init ==
  /\ version = <<>>
  /\ rel = <<>>
  /\ later = FALSE

--------------------------------------------------------------------------------
(* Versions.                                                               *)

Effective(v) == version[v].status = "published" /\ (version[v].from = "now" \/ later)

\* in_force: the latest that is published and effective.
InForce ==
  IF \E v \in DOMAIN version : Effective(v)
    THEN CHOOSE v \in DOMAIN version : Effective(v) /\ \A u \in DOMAIN version : Effective(u) => u <= v
    ELSE NoVersion

SpecOf(v) == IF v = NoVersion THEN "none" ELSE version[v].spec

\* What is in force may have changed by something else since each was promoted.
Disturbed == [r \in DOMAIN rel |-> [rel[r] EXCEPT !.alone = FALSE]]

Append1(spec, from, status) == Append(version, [spec |-> spec, from |-> from, status |-> status])

Draft ==
  /\ Len(version) < VersionBound
  /\ \E spec \in Specs, from \in From : version' = Append1(spec, from, "draft")
  /\ UNCHANGED <<rel, later>>

UpdateDraft(v) ==
  /\ version[v].status = "draft"
  /\ \E spec \in Specs : version' = [version EXCEPT ![v].spec = spec]
  /\ UNCHANGED <<rel, later>>

Publish(v) ==
  /\ version[v].status = "draft"
  /\ version' = [version EXCEPT ![v].status = "published"]
  /\ rel' = Disturbed
  /\ UNCHANGED later

Retire(v) ==
  /\ version[v].status = "published"
  /\ version' = [version EXCEPT ![v].status = "retired"]
  /\ rel' = Disturbed
  /\ UNCHANGED later

DateComes ==
  /\ ~later /\ later' = TRUE
  /\ rel' = Disturbed
  /\ UNCHANGED version

--------------------------------------------------------------------------------
(* Releases.                                                               *)

\* `spec` and `from` are what it carries ("retire": nothing); `prev` the version that
\* was in force when it was promoted, `outcome` what that did, `made` the version it
\* published, `of` the release it takes back.
NewRelease(kind, spec, from, target, of) ==
  [status |-> "draft", kind |-> kind, spec |-> spec, from |-> from, made |-> target, of |-> of,
   prev |-> NoVersion, outcome |-> "none", alone |-> FALSE]

Count(back) == Cardinality({r \in DOMAIN rel : (rel[r].of # NoRelease) = back})

\* create: a snapshot of what the source company has in force.
Create ==
  /\ Count(FALSE) < CreateBound
  /\ \E spec \in Specs, from \in From :
       rel' = Append(rel, NewRelease("mapping", spec, from, NoVersion, NoRelease))
  /\ UNCHANGED <<version, later>>

Submit(r) ==
  /\ rel[r].status = "draft"
  /\ rel' = [rel EXCEPT ![r].status = "awaiting_approval"]
  /\ UNCHANGED <<version, later>>

Decide(r) ==
  /\ rel[r].status = "awaiting_approval"
  /\ \E s \in {"approved", "rejected"} : rel' = [rel EXCEPT ![r].status = s]
  /\ UNCHANGED <<version, later>>

\* Mutant of Unchanged: compared with the newest version, in force or not.
UnchangedFromNewest(r) == version # <<>> /\ version[Len(version)].spec = rel[r].spec
Unchanged(r) == InForce # NoVersion /\ version[InForce].spec = rel[r].spec

Promoted(r, outcome, made) ==
  [Disturbed EXCEPT ![r] = [@ EXCEPT !.status = "promoted", !.outcome = outcome, !.made = made,
                                     !.prev = InForce, !.alone = TRUE]]

\* promote: what it finds in force is noted, and what differs from it is published
\* as a version of its own; or the version the rolled-back release made is retired.
Promote(r) ==
  /\ rel[r].status = "approved"
  /\ \/ /\ rel[r].kind = "mapping" /\ Unchanged(r)
        /\ rel' = [rel EXCEPT ![r] = [@ EXCEPT !.status = "promoted", !.outcome = "unchanged",
                                               !.prev = InForce, !.alone = TRUE]]
        /\ UNCHANGED version
     \/ /\ rel[r].kind = "mapping" /\ ~Unchanged(r) /\ Len(version) < VersionBound
        /\ version' = Append1(rel[r].spec, rel[r].from, "published")
        /\ rel' = Promoted(r, "published", Len(version) + 1)
     \/ /\ rel[r].kind = "retire"
        /\ version' = IF version[rel[r].made].status = "published"
                        THEN [version EXCEPT ![rel[r].made].status = "retired"] ELSE version
        /\ rel' = Promoted(r, "retired", rel[r].made)
  /\ UNCHANGED later

\* rollback: a release of what was in force before, as it was; or, when nothing was,
\* of the end of what the release published.
Rollback(r) ==
  /\ rel[r].status = "promoted" /\ rel[r].outcome = "published"
  /\ Count(TRUE) < RollbackBound
  /\ rel' = Append(rel, IF rel[r].prev = NoVersion
                          THEN NewRelease("retire", "none", "now", rel[r].made, r)
                          ELSE NewRelease("mapping", version[rel[r].prev].spec, version[rel[r].prev].from, NoVersion, r))
  /\ UNCHANGED <<version, later>>

--------------------------------------------------------------------------------
Next ==
  \/ Draft \/ Create \/ DateComes
  \/ \E v \in DOMAIN version : UpdateDraft(v) \/ Publish(v) \/ Retire(v)
  \/ \E r \in DOMAIN rel : Submit(r) \/ Decide(r) \/ Promote(r) \/ Rollback(r)

Spec == Init /\ [][Next]_vars

--------------------------------------------------------------------------------
TypeOK ==
  /\ \A v \in DOMAIN version : /\ version[v].spec \in Specs /\ version[v].from \in From
                               /\ version[v].status \in {"draft", "published", "retired"}
  /\ \A r \in DOMAIN rel : /\ rel[r].status \in {"draft", "awaiting_approval", "approved", "rejected", "promoted"}
                           /\ rel[r].prev \in 0..Len(version) /\ rel[r].made \in 0..Len(version)
                           /\ rel[r].of \in 0..Len(rel)
  /\ later \in BOOLEAN

\* "a rollback is another release that restores" what each item replaced
\* (releases.py:25-26): while nobody else publishes or retires a version and no date
\* comes, promoting the rollback brings back the specification that the release had
\* found in force.
RollbackRestores ==
  [][\A b \in DOMAIN rel :
       LET r == rel[b].of IN
       rel[b].status = "approved" /\ rel'[b].status = "promoted" /\ r # NoRelease /\ rel[r].alone
         => SpecOf(InForce)' = SpecOf(rel[r].prev)]_vars
================================================================================

------------------------------- MODULE Migrations ------------------------------
(***************************************************************************)
(* What a process does to the database before it serves: app/migrations.py *)
(* runs seventeen steps in order, one transaction each, in the API, the    *)
(* validation worker and the report worker, which may start together.      *)
(*                                                                         *)
(* A step finds out from the schema what is left to do, and does it.  On   *)
(* PostgreSQL it is done whole or not at all; on SQLite the statements     *)
(* that change the schema are kept up to the first that changes data.      *)
(*                                                                         *)
(* Of the tables one stands for those with rows of a company, and one for  *)
(* the two that were kept by user.  An older release still runs, and may   *)
(* write rows that name no company.                                        *)
(***************************************************************************)
EXTENDS Integers, FiniteSets

CONSTANTS
  Processes,
  Owners,      \* users from before there were companies
  Others,      \* authors who get no company: those deleted since, and staff
  Late,        \* users who sign up with the older release
  CrashBound,  \* bound: processes that die
  WriteBound   \* bound: rows the older release writes

MigrationAssumption ==
  /\ {CrashBound, WriteBound} \subseteq Nat
  /\ Processes # {}
  /\ Owners \cap (Others \cup Late) = {} /\ Others \cap Late = {}

None == 0

\* The steps from the ninth only add columns, indexes and triggers; two stand for them:
\* one of a table SQLite may rebuild before, and one of other tables.
Rebuilt == 9
Additive == {Rebuilt, 10}
Last == 10

\* What a step adds to the schema; two columns stand for several.
Keyed == <<4, 1>>      \* settings are kept by company
Bare == <<4, 0>>       \* the column for it, and no more
Unique == <<5, 1>>     \* constraints are by company
Required == <<6, 1>>   \* every row names a company

Adds(k) ==
  IF k \in {1, 4, Rebuilt} THEN {<<k, 1>>}
  ELSE IF k \in Additive THEN {<<k, 1>>, <<k, 2>>} ELSE {}

VARIABLES
  dialect,
  schema,    \* what there is of what the steps add
  users,     \* those who have signed up
  orgs,      \* organizations, each with one company and its owner
  rows,      \* rows of a company, by their author, with the organization or None
  config,    \* a user's settings, by user, or by company once the table is re-keyed
  boot,      \* the processes
  crashes

vars == <<dialect, schema, users, orgs, rows, config, boot, crashes>>

Org(u, n) == [owner |-> u, no |-> n, default |-> FALSE, slug |-> FALSE]
Seats(u) == {o \in orgs : o.owner = u}

\* The oldest company of the author, as the backfill joins it.
Home(u) == IF Seats(u) = {} THEN None ELSE CHOOSE n \in {o.no : o \in Seats(u)} : \A o \in Seats(u) : n <= o.no

Down == [pc |-> 0, looked |-> FALSE, found |-> {}, knew |-> {}]
Up(p) == boot[p].pc = Last + 1

Authors == Owners \cup Others

\* A database of any release: the steps up to `h` were made when it was new.
Init ==
  /\ dialect \in {"postgresql", "sqlite"}
  /\ users = Owners
  /\ \E h \in {0} \cup (4..Last) :
       /\ schema = (UNION {Adds(k) : k \in 1..h}) \cup (IF h >= 5 THEN {Unique} ELSE {})
       /\ orgs = IF h = 0 THEN {} ELSE {[Org(u, 1) EXCEPT !.default = h >= 7, !.slug = h >= 8] : u \in Owners}
       /\ \E authors \in {Owners, Authors} :
            rows = {[author |-> u, no |-> 1, org |-> IF h > 0 /\ u \in Owners THEN 1 ELSE None] : u \in authors}
       /\ config = {[author |-> u, org |-> IF h = 0 THEN None ELSE 1] : u \in (IF h = 0 THEN Authors ELSE Owners)}
  /\ boot = [p \in Processes |-> Down]
  /\ crashes = 0

--------------------------------------------------------------------------------
\* A process starts: create_all makes the tables that are missing, not the columns.
Start(p) ==
  /\ boot[p].pc = 0
  /\ boot' = [boot EXCEPT ![p] = [Down EXCEPT !.pc = 1, !.knew = {<<r.author, r.no>> : r \in rows}]]
  /\ UNCHANGED <<dialect, schema, users, orgs, rows, config, crashes>>

\* What is left to do: users without a seat, staff apart; columns that are not there. A
\* table that has the column is taken to be re-keyed.
Missing(k) ==
  IF k = 2 THEN {u \in users : Seats(u) = {}}
  ELSE IF k = 4 /\ Bare \in schema THEN {}
  ELSE Adds(k) \ schema

Look(p) ==
  /\ boot[p].pc \in 1..Last /\ ~boot[p].looked
  /\ boot' = [boot EXCEPT ![p].looked = TRUE, ![p].found = Missing(boot[p].pc)]
  /\ UNCHANGED <<dialect, schema, users, orgs, rows, config, crashes>>

\* A column that another process has added since: the statement fails, and the process
\* does not start. On SQLite a rebuilt table has no place for a row of no company.
Orphans == {r \in rows : r.org = None}
Rebuilds(k) == dialect = "sqlite" /\ k = 5 /\ Unique \notin schema
Refused(p) ==
  \/ boot[p].pc # 2 /\ boot[p].found \cap schema # {}
  \/ Rebuilds(boot[p].pc) /\ Orphans # {}

\* Resolved through the seats there are, whoever made them.
Repaired == {r \in Orphans : Home(r.author) # None}

\* provision_legacy_tenants: an organization each.
Provision(found) == orgs' = orgs \cup {Org(u, Cardinality(Seats(u)) + 1) : u \in found}

\* Mutant of Backfill: rows of nobody who has a company are dropped, as settings are.
BackfillDrops == rows' = {[r EXCEPT !.org = Home(r.author)] : r \in {d \in rows : Home(d.author) # None}}

\* backfill_entity_ids
Backfill == rows' = (rows \ Repaired) \cup {[r EXCEPT !.org = Home(r.author)] : r \in Repaired}

\* rekey_config_tables: rows of nobody who has a company are dropped.
Rekey(found) ==
  config' = IF found = {} THEN config
            ELSE {[c EXCEPT !.org = Home(c.author)] : c \in {d \in config : Home(d.author) # None}}

\* set_membership_defaults and backfill_org_slugs
Defaults == orgs' = {[o EXCEPT !.default = TRUE] : o \in orgs}
Slugs == orgs' = {[o EXCEPT !.slug = TRUE] : o \in orgs}

\* rescope_unique_constraints: a table SQLite rebuilds has every column of its model.
\* enforce_entity_not_null: only where no row is in the way, and not on SQLite.
Gains(k, found) ==
  CASE k = 5 -> {Unique} \cup (IF Rebuilds(k) THEN Adds(Rebuilt) ELSE {})
    [] k = 6 -> IF dialect = "postgresql" /\ Orphans = {} THEN {Required} ELSE {}
    [] k = 2 -> {}
    [] OTHER -> found

Step(p) ==
  LET k == boot[p].pc
      found == boot[p].found
  IN /\ boot[p].looked /\ ~Refused(p)
     /\ schema' = schema \cup Gains(k, found)
     /\ \/ k = 2 /\ Provision(found) /\ UNCHANGED <<rows, config>>
        \/ k = 3 /\ Backfill /\ UNCHANGED <<orgs, config>>
        \/ k = 4 /\ Rekey(found) /\ UNCHANGED <<orgs, rows>>
        \/ k = 7 /\ Defaults /\ UNCHANGED <<rows, config>>
        \/ k = 8 /\ Slugs /\ UNCHANGED <<rows, config>>
        \/ k \notin {2, 3, 4, 7, 8} /\ UNCHANGED <<orgs, rows, config>>
     /\ boot' = [boot EXCEPT ![p] = [@ EXCEPT !.pc = k + 1, !.looked = FALSE, !.found = {}]]
     /\ UNCHANGED <<dialect, users, crashes>>

Fails(p) ==
  /\ boot[p].looked /\ Refused(p)
  /\ boot' = [boot EXCEPT ![p] = Down]
  /\ UNCHANGED <<dialect, schema, users, orgs, rows, config, crashes>>

\* A process that dies, between two steps or within one.
Dies(p) ==
  /\ boot[p].pc # 0 /\ crashes < CrashBound
  /\ crashes' = crashes + 1
  /\ boot' = [boot EXCEPT ![p] = Down]
  /\ UNCHANGED <<dialect, schema, users, orgs, rows, config>>

\* SQLite keeps the columns that were added before the step was cut short; of a table to
\* be re-keyed, the column alone.
CutShort(p) ==
  /\ dialect = "sqlite" /\ boot[p].looked /\ ~Refused(p) /\ crashes < CrashBound
  /\ \/ boot[p].pc \in Additive /\ \E c \in boot[p].found : schema' = schema \cup {c}
     \/ boot[p].pc = 4 /\ boot[p].found # {} /\ schema' = schema \cup {Bare}
  /\ crashes' = crashes + 1
  /\ boot' = [boot EXCEPT ![p] = Down]
  /\ UNCHANGED <<dialect, users, orgs, rows, config>>

\* The older release goes on: a row that names no company, of a user from before or one
\* who has signed up since, while the column allows it.
OlderRelease(u) ==
  /\ Required \notin schema /\ ~Rebuilds(6) /\ (dialect = "sqlite" => Unique \notin schema)
  /\ Cardinality(rows) < Cardinality(Authors) + WriteBound
  /\ ~\E r \in rows : r.author = u /\ r.no = 2
  /\ users' = users \cup {u}
  /\ rows' = rows \cup {[author |-> u, no |-> 2, org |-> None]}
  /\ UNCHANGED <<dialect, schema, orgs, config, boot, crashes>>

Next ==
  \/ \E p \in Processes : Start(p) \/ Look(p) \/ Step(p) \/ Fails(p) \/ Dies(p) \/ CutShort(p)
  \/ \E u \in Owners \cup Late : OlderRelease(u)

Spec == Init /\ [][Next]_vars

--------------------------------------------------------------------------------
\* Every process that was started serves.
Settled == \A p \in Processes : Up(p)

Whole == (UNION {Adds(k) : k \in 1..Last}) \cup {Unique}
Cut == Bare \in schema

\* "a database at any point in the history converges to the current shape": the whole
\* schema, but for a table SQLite was cut short re-keying (migrations.py:12).
ReachesTheShape == Settled => Whole \ (IF Cut THEN {Keyed} ELSE {}) \subseteq schema

\* "nobody loses access to anything they uploaded": what was there when a process began
\* to start is, when all serve, in a company of its author, who has her settings still
\* (migrations.py:151).
NobodyLosesAccess ==
  Settled =>
    /\ \A r \in rows : r.author \in users /\ (\E p \in Processes : <<r.author, r.no>> \in boot[p].knew)
                         => \E o \in Seats(r.author) : o.no = r.org
    /\ \A u \in Owners : \E c \in config : /\ c.author = u
                                           /\ ~Cut => \E o \in Seats(u) : o.no = c.org
    /\ \A o \in orgs : o.default /\ o.slug

\* A boot of a database that has its shape changes nothing, if no other is under way
\* ("idempotent and safe to run on each boot", migrations.py:10).
SafeOnEachBoot ==
  /\ Whole \subseteq schema /\ {r \in Orphans : r.author \in users} = {} /\ \A u \in users : Seats(u) # {}
  /\ \A o \in orgs : o.default /\ o.slug
  /\ \A p \in Processes : boot[p].found = {}
  /\ boot' # boot
  => UNCHANGED <<orgs, rows, config>> /\ schema' \ schema \subseteq {Required}
================================================================================

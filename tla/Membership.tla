------------------------------- MODULE Membership -------------------------------
(***************************************************************************)
(* The seats of one organization: who administers it, which companies a    *)
(* member reaches and in what role, and which company a request means that *)
(* names none (services/tenancy.py, the members' half of                   *)
(* services/invitations.py, routers/org.py, deps.py).                      *)
(*                                                                         *)
(* A request that counts owners reads first and writes later; one that     *)
(* works out a default remembers it aside, and once more when the request  *)
(* itself commits; others are one step.  Roles are ranks, the widest       *)
(* first; how a seat is offered is in Invitations.  That a company loses   *)
(* its last register is left out.                                          *)
(***************************************************************************)
EXTENDS Integers, FiniteSets

CONSTANTS
  People,
  Roles,         \* ranks of some of owner, manager, analyst and viewer
  Companies,     \* numbered in the order of their creation
  Requests,
  ChangeBound    \* bound: changes of members and companies

Owner == 0
Manager == 1
Viewer == 3

ASSUME MembershipAssumption ==
  Roles \subseteq Owner..Viewer /\ Owner \in Roles /\ Companies \subseteq Nat \ {0} /\ 1 \in Companies /\ ChangeBound \in Nat

None == -1

\* default_entity_chosen is a column that may be empty.
NoSeat == [role |-> None, access |-> {}, default |-> None, chosen |-> "unset"]

VARIABLES
  seat,      \* a member's role, the companies she is limited to, her default and whether she chose it
  override,  \* roles for one company, which outlast the seat
  active,    \* companies there are that are not archived, and those that are
  archived,
  data,      \* companies with a register or an upload
  rq,        \* requests between their reads and their writes
  changes,
  raced      \* a request took a role away and others changed who the owners are meanwhile

vars == <<seat, override, active, archived, data, rq, changes, raced>>

Idle == [op |-> "idle"]

Init ==
  /\ \E u \in People : seat = [p \in People |-> IF p = u THEN [NoSeat EXCEPT !.role = Owner, !.default = 1] ELSE NoSeat]
  /\ override = [p \in People |-> [c \in Companies |-> None]]
  /\ active = {1} /\ archived = {} /\ data = {}
  /\ rq = [q \in Requests |-> Idle]
  /\ changes = 0 /\ raced = FALSE

--------------------------------------------------------------------------------
IsMember(p) == seat[p].role # None
Chosen(p) == seat[p].chosen = "yes"
Owners == {p \in People : seat[p].role = Owner}

\* can_access_entity: all, or those she is limited to, archived or not.
CanAccess(p, c) == IsMember(p) /\ (seat[p].access = {} \/ c \in seat[p].access)

Accessible(p) == {c \in active : CanAccess(p, c)}

\* effective_entity_role
EffectiveRole(p, c) ==
  IF ~CanAccess(p, c) THEN None ELSE IF override[p][c] # None THEN override[p][c] ELSE seat[p].role

\* require_org_admin: an owner, or a manager who is not limited.
Administers(p) ==
  /\ IsMember(p) /\ seat[p].role <= Manager
  /\ seat[p].role = Owner \/ seat[p].access = {}

CanGrant(actor, role) == actor <= role

\* default_entity. A company she chose; else the one remembered, if it has data; else the
\* oldest that has data; else the one remembered; else the oldest.
Oldest(s) == CHOOSE c \in s : \A d \in s : c <= d

\* Mutant of Stands: what was remembered stands only if it was chosen.
StandsIfChosen(p) == seat[p].default \in Accessible(p) /\ Chosen(p)

Stands(p) == seat[p].default \in Accessible(p) /\ (Chosen(p) \/ seat[p].default \in data)

Target(p) ==
  IF Accessible(p) = {} THEN None
  ELSE IF Stands(p) THEN seat[p].default
  ELSE IF Accessible(p) \cap data # {} THEN Oldest(Accessible(p) \cap data)
  ELSE IF seat[p].default \in Accessible(p) THEN seat[p].default
  ELSE Oldest(Accessible(p))

--------------------------------------------------------------------------------
Changed == changes < ChangeBound /\ changes' = changes + 1

Reads(q, what) == rq[q] = Idle /\ rq' = [rq EXCEPT ![q] = what]
Writes(q) == rq' = [rq EXCEPT ![q] = Idle]

\* Nobody changes her own seat, grants more than she has, or touches one who has more.
\* The last owner stays one.
LastOwner(p) == seat[p].role = Owner /\ Cardinality(Owners) <= 1

May(actor, p) == Administers(actor) /\ IsMember(p) /\ p # actor /\ CanGrant(seat[actor].role, seat[p].role)

\* update_member: a role, the companies, or both; the companies of anyone.
LeftAlone == {None}

UpdateReads(q, actor, p, role, access) ==
  /\ Administers(actor) /\ IsMember(p) /\ access \subseteq active \cup archived \cup LeftAlone
  /\ role # seat[p].role =>
       May(actor, p) /\ CanGrant(seat[actor].role, role) /\ (role # Owner => ~LastOwner(p))
  /\ Changed
  /\ Reads(q, [op |-> "update", who |-> p, role |-> role, was |-> seat[p].role, access |-> access, owners |-> Owners])
  /\ UNCHANGED <<seat, override, active, archived, data, raced>>

RemoveReads(q, actor, p) ==
  /\ May(actor, p) /\ ~LastOwner(p)
  /\ Changed
  /\ Reads(q, [op |-> "remove", who |-> p, was |-> seat[p].role, owners |-> Owners])
  /\ UNCHANGED <<seat, override, active, archived, data, raced>>

RacedBy(what) == what.owners # Owners

\* Mutant of RoleWritten: the role is written back as it was read.
RoleWrittenBack(q) == rq[q].role

\* The role is written where it changes, and only while there is a seat.
RoleWritten(q) == IF rq[q].role = rq[q].was THEN seat[rq[q].who].role ELSE rq[q].role

UpdateWrites(q) ==
  /\ rq[q].op = "update"
  /\ LET p == rq[q].who
     IN seat' = IF ~IsMember(p) THEN seat
                ELSE [seat EXCEPT ![p].access = IF rq[q].access = LeftAlone THEN @ ELSE rq[q].access,
                                  ![p].role = RoleWritten(q)]
  /\ raced' = (raced \/ (rq[q].role # rq[q].was /\ RacedBy(rq[q])))
  /\ Writes(q)
  /\ UNCHANGED <<override, active, archived, data, changes>>

\* Her roles for single companies stay behind.
RemoveWrites(q) ==
  /\ rq[q].op = "remove"
  /\ seat' = [seat EXCEPT ![rq[q].who] = NoSeat]
  /\ raced' = (raced \/ RacedBy(rq[q]))
  /\ Writes(q)
  /\ UNCHANGED <<override, active, archived, data, changes>>

\* accept: she lands in the first company of the invitation, or the oldest. That somebody
\* who was removed comes back while a request about her old seat is under way is left out.
Accept(p, role, access) ==
  /\ ~\E q \in Requests : rq[q] # Idle /\ rq[q].who = p
  /\ ~IsMember(p) /\ access \subseteq active \cup archived /\ Changed
  /\ \E c \in (IF access # {} THEN access ELSE IF active # {} THEN {Oldest(active)} ELSE {None}) :
       seat' = [seat EXCEPT ![p] = [role |-> role, access |-> access, default |-> c, chosen |-> "unset"]]
  /\ UNCHANGED <<override, active, archived, data, rq, raced>>

\* update_company_role: as the role of the seat is none of its own.
CompanyRole(actor, p, c, role) ==
  /\ Administers(actor) /\ p # actor /\ c \in active /\ CanAccess(p, c) /\ Changed
  /\ CanGrant(seat[actor].role, EffectiveRole(p, c)) /\ CanGrant(seat[actor].role, role)
  /\ override' = [override EXCEPT ![p][c] = IF role = seat[p].role THEN None ELSE role]
  /\ UNCHANGED <<seat, active, archived, data, rq, raced>>

\* select_entity
Select(p, c) ==
  /\ c \in active \cup archived /\ CanAccess(p, c) /\ Changed
  /\ seat' = [seat EXCEPT ![p].default = c, ![p].chosen = "yes"]
  /\ UNCHANGED <<override, active, archived, data, rq, raced>>

\* A request that names no company, and has loaded the seat: what it worked out is
\* remembered aside, whatever is there by then, or not where that fails.
LandReads(q, p) ==
  /\ Target(p) \notin {None, seat[p].default}
  /\ Reads(q, [op |-> "land", who |-> p, to |-> Target(p), loaded |-> seat[p].chosen])
  /\ UNCHANGED <<seat, override, active, archived, data, changes, raced>>

LandAside(q) ==
  /\ rq[q].op = "land"
  /\ \/ seat' = IF ~IsMember(rq[q].who) THEN seat
                ELSE [seat EXCEPT ![rq[q].who].default = rq[q].to, ![rq[q].who].chosen = "no"]
     \/ seat' = seat
  /\ rq' = [rq EXCEPT ![q].op = "landed"]
  /\ UNCHANGED <<override, active, archived, data, changes, raced>>

\* If it writes anything, its commit remembers it once more: of the flag, only what it
\* changed of what it loaded. Where the seat is gone the request fails.
LandCommits(q) ==
  /\ rq[q].op = "landed" /\ IsMember(rq[q].who)
  /\ seat' = [seat EXCEPT ![rq[q].who].default = rq[q].to,
                          ![rq[q].who].chosen = IF rq[q].loaded = "no" THEN @ ELSE "no"]
  /\ Writes(q)
  /\ UNCHANGED <<override, active, archived, data, changes, raced>>

\* A request that fails, or that only read.
Fails(q) == rq[q] # Idle /\ Writes(q) /\ UNCHANGED <<seat, override, active, archived, data, changes, raced>>

\* create_entity, update_entity (which archives and brings back), and a first register.
Create(actor) ==
  /\ Administers(actor) /\ Changed
  /\ \E c \in Companies \ (active \cup archived) :
       (\A d \in Companies : d < c => d \in active \cup archived) /\ active' = active \cup {c}
  /\ UNCHANGED <<seat, override, archived, data, rq, raced>>

Archive(actor, c) ==
  /\ Administers(actor) /\ CanAccess(actor, c) /\ c \in active /\ Changed
  /\ active' = active \ {c} /\ archived' = archived \cup {c}
  /\ UNCHANGED <<seat, override, data, rq, raced>>

BringBack(actor, c) ==
  /\ Administers(actor) /\ CanAccess(actor, c) /\ c \in archived /\ Changed
  /\ active' = active \cup {c} /\ archived' = archived \ {c}
  /\ UNCHANGED <<seat, override, data, rq, raced>>

Upload(c) ==
  /\ c \in active \ data
  /\ data' = data \cup {c}
  /\ UNCHANGED <<seat, override, active, archived, rq, changes, raced>>

Next ==
  \/ \E q \in Requests :
       \/ UpdateWrites(q) \/ RemoveWrites(q) \/ LandAside(q) \/ LandCommits(q) \/ Fails(q)
       \/ \E p \in People :
            \/ LandReads(q, p)
            \/ \E actor \in People :
                 RemoveReads(q, actor, p) \/ \E r \in Roles, a \in {LeftAlone} \cup SUBSET Companies : UpdateReads(q, actor, p, r, a)
  \/ \E p \in People :
       \/ \E r \in Roles, a \in SUBSET Companies : Accept(p, r, a)
       \/ \E c \in Companies :
            Select(p, c) \/ Archive(p, c) \/ BringBack(p, c) \/ \E t \in People, r \in Roles : CompanyRole(p, t, c, r)
       \/ Create(p)
  \/ \E c \in Companies : Upload(c)

Spec == Init /\ [][Next]_vars

--------------------------------------------------------------------------------
\* "an organization with no owner cannot be administered" (invitations.py:415): it never
\* comes to that, unless two requests that count the owners overlap.
AlwaysAnOwner == ~raced => Owners # {}

Landing(p) == \E q \in Requests : rq[q].op \in {"land", "landed"} /\ rq[q].who = p

\* A company she can open that she chose or that has data is remembered, and no request is
\* under way that found otherwise.
IsSettled(p) ==
  /\ seat[p].default \in Accessible(p)
  /\ Chosen(p) \/ seat[p].default \in data
  /\ ~Landing(p)

\* "a choice they made never moves" (models/org.py:145), nor does a company with data
\* that is remembered: "adding a client called Alpha cannot silently redirect header-less
\* requests" (tenancy.py:164). Once it is settled it stays so, until the person chooses
\* again or can no longer open it. A choice that is made while a request of hers is
\* landing is not settled: that request overwrites it, aside or at its commit.
StaysSettled ==
  \A p \in People :
    /\ IsSettled(p) /\ seat[p].default \in Accessible(p)'
    /\ ~\E c \in Companies : Select(p, c)
    => IsSettled(p)' /\ seat'[p].default = seat[p].default /\ (Chosen(p) => Chosen(p)')

DefaultsStay == [][StaysSettled]_vars
=================================================================================

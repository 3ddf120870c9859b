------------------------------- MODULE AccessProofs -----------------------------
(***************************************************************************)
(* Theorems about who gets at a company's data and puts what in force      *)
(* there, for any people, roles, companies, requests, workflow definitions *)
(* and bounds of MCAccess.  Of the seats of an organization: it always has *)
(* an owner, unless two requests that count the owners overlap, and what a *)
(* request that names no company means, once none is under way that found  *)
(* otherwise, does not move under the person who sends it, until she       *)
(* chooses.  Then, part by part: of invitations, support sessions and      *)
(* keys, that what was superseded, closed or rotated stays so; of          *)
(* workflows, that what is in force is what was published; of one          *)
(* person's sign-ins, that what ended them ended them for good; and of a   *)
(* new release's boots, that the upgrades they run lose nothing.           *)
(***************************************************************************)
EXTENDS MCAccess, FiniteSetTheorems, TLAPS

Fields == {"role", "access", "default", "chosen"}

\* What the proofs use of the types.
Typed ==
  /\ DOMAIN seat = People /\ DOMAIN rq = Requests
  /\ \A p \in People : DOMAIN seat[p] = Fields
  /\ \A q \in Requests : rq[q].op \in {"update", "remove", "land", "landed"} => rq[q].who \in People
  /\ \A q \in Requests : rq[q].op = "land" => {"op", "who"} \subseteq DOMAIN rq[q]

--------------------------------------------------------------------------------
(* A step, seen from the seats.                                            *)

\* A request between its reads and its writes does not change, and the seats do not while
\* it reads.
Reading(q) == seat' = seat /\ raced' = raced /\ data' = data /\ \A k \in Requests \ {q} : rq'[k] = rq[k]

\* What a request that takes a seat or its role has read.
UpdateRead(q) ==
  /\ Reading(q)
  /\ \E p \in People, role \in Roles : \E access :
       /\ rq'[q] = [op |-> "update", who |-> p, role |-> role, was |-> seat[p].role, access |-> access, owners |-> Owners]
       /\ role # seat[p].role => (role # Owner => ~LastOwner(p))

RemoveRead(q) ==
  /\ Reading(q)
  /\ \E p \in People :
       /\ rq'[q] = [op |-> "remove", who |-> p, was |-> seat[p].role, owners |-> Owners]
       /\ ~LastOwner(p)

\* Another request reads, whose default does not stand, or one ends without a write.
OtherRead(q) == Reading(q) /\ rq'[q].op \in {"land", "idle"} /\ (rq'[q].op = "land" => ~Stands(rq'[q].who))

\* The seat of p alone is written, by request q, which is then done with.
SeatTouched(p, q) ==
  /\ p \in People
  /\ \A o \in People \ {p} : seat'[o] = seat[o]
  /\ data' = data /\ \A k \in Requests \ {q} : rq'[k] = rq[k]

SeatWritten(p, q) == SeatTouched(p, q) /\ rq'[q] = Idle

UpdateWritten(q) ==
  /\ rq[q].op = "update"
  /\ SeatWritten(rq[q].who, q)
  /\ seat'[rq[q].who].default = seat[rq[q].who].default /\ seat'[rq[q].who].chosen = seat[rq[q].who].chosen
  /\ \/ seat'[rq[q].who].role = seat[rq[q].who].role
     \/ rq[q].role # rq[q].was /\ seat'[rq[q].who].role = rq[q].role
  /\ raced' = (raced \/ (rq[q].role # rq[q].was /\ RacedBy(rq[q])))

RemoveWritten(q) ==
  /\ rq[q].op = "remove"
  /\ SeatWritten(rq[q].who, q)
  /\ seat'[rq[q].who].role = None
  /\ raced' = (raced \/ RacedBy(rq[q]))

LandWritten(q) ==
  /\ rq[q].op \in {"land", "landed"}
  /\ SeatTouched(rq[q].who, q)
  /\ rq'[q].op = "idle" \/ (rq'[q].op = "landed" /\ rq'[q].who = rq[q].who)
  /\ seat'[rq[q].who].role = seat[rq[q].who].role
  /\ raced' = raced

\* A step of one request: roles stay, or somebody comes; and whoever's default moves has
\* just come or has chosen.
OneStep ==
  /\ rq' = rq /\ raced' = raced /\ data \subseteq data'
  /\ \A p \in People :
       /\ seat'[p].role = seat[p].role \/ ~IsMember(p)
       /\ \/ seat'[p].default = seat[p].default /\ seat'[p].chosen = seat[p].chosen
          \/ ~IsMember(p)
          \/ \E c \in Companies : Select(p, c)

Requested(q) ==
  UpdateRead(q) \/ RemoveRead(q) \/ OtherRead(q) \/ UpdateWritten(q) \/ RemoveWritten(q) \/ LandWritten(q)

\* Every step is one of these.
LEMMA StepTyped ==
  ASSUME Typed, Next
  PROVE  Typed' /\ (OneStep \/ \E q \in Requests : Requested(q))
<1>0. /\ DOMAIN seat = People /\ DOMAIN rq = Requests
      /\ \A p \in People : DOMAIN seat[p] = Fields
      /\ \A q \in Requests : rq[q].op \in {"update", "remove", "land", "landed"} => rq[q].who \in People
      /\ \A q \in Requests : rq[q].op = "land" => {"op", "who"} \subseteq DOMAIN rq[q]
      /\ DOMAIN NoSeat = Fields
  BY DEF Typed, NoSeat, Fields
<1>1. ASSUME NEW q \in Requests, NEW what, Reads(q, what), UNCHANGED <<seat, data, raced>>,
             what.op \in {"update", "remove", "land", "landed"} => what.who \in People,
             what.op = "land" => {"op", "who"} \subseteq DOMAIN what
      PROVE  Typed' /\ Reading(q) /\ rq'[q] = what
  BY <1>0, <1>1 DEF Reads, Typed, Reading
<1>2. ASSUME NEW q \in Requests, NEW p \in People, NEW actor \in People, RemoveReads(q, actor, p)
      PROVE  Typed' /\ Requested(q)
  <2>1. Typed' /\ Reading(q) /\ rq'[q] = [op |-> "remove", who |-> p, was |-> seat[p].role, owners |-> Owners]
    BY <1>1, <1>2 DEF RemoveReads
  <2> QED
    BY <1>2, <2>1 DEF RemoveReads, Requested, RemoveRead
<1>3. ASSUME NEW q \in Requests, NEW p \in People, NEW actor \in People, NEW r \in Roles, NEW a,
             UpdateReads(q, actor, p, r, a)
      PROVE  Typed' /\ Requested(q)
  <2> DEFINE what == [op |-> "update", who |-> p, role |-> r, was |-> seat[p].role, access |-> a, owners |-> Owners]
  <2>1. Reads(q, what) /\ UNCHANGED <<seat, data, raced>> /\ what.who = p /\ what.op = "update"
    BY <1>3 DEF UpdateReads
  <2>2. r # seat[p].role => (r # Owner => ~LastOwner(p))
    BY <1>3 DEF UpdateReads
  <2>3. Typed' /\ Reading(q) /\ rq'[q] = what
    <3> HIDE DEF what
    <3> QED
      BY <1>1, <2>1
  <2>4. UpdateRead(q)
    BY <2>2, <2>3 DEF UpdateRead
  <2> QED
    BY <2>3, <2>4 DEF Requested
<1>4. ASSUME NEW q \in Requests, NEW p \in People, LandReads(q, p)
      PROVE  Typed' /\ Requested(q)
  <2> DEFINE what == [op |-> "land", who |-> p, to |-> Target(p), loaded |-> seat[p].chosen]
  <2>1. Reads(q, what) /\ UNCHANGED <<seat, data, raced>> /\ what.who = p /\ what.op = "land"
        /\ {"op", "who"} \subseteq DOMAIN what
    BY <1>4 DEF LandReads
  <2> HIDE DEF what
  <2>2. Typed' /\ Reading(q) /\ rq'[q] = what
    BY <1>1, <2>1
  <2>3. ~Stands(p)
    BY <1>4 DEF LandReads, Target, Stands
  <2> QED
    BY <2>1, <2>2, <2>3 DEF Requested, OtherRead
<1>5. ASSUME NEW q \in Requests, Writes(q)
      PROVE  DOMAIN rq' = Requests /\ rq'[q] = Idle /\ \A k \in Requests \ {q} : rq'[k] = rq[k]
  BY <1>0, <1>5 DEF Writes
<1>6. ASSUME NEW q \in Requests, Fails(q) PROVE Typed' /\ Requested(q)
  BY <1>0, <1>5, <1>6 DEF Fails, Typed, Requested, OtherRead, Reading, Idle
<1>7. ASSUME NEW q \in Requests, UpdateWrites(q) PROVE Typed' /\ Requested(q)
  <2> DEFINE p == rq[q].who
             access == IF rq[q].access = LeftAlone THEN seat[p].access ELSE rq[q].access
             new == [seat[p] EXCEPT !.access = access, !.role = RoleWritten(q)]
  <2>1. /\ rq[q].op = "update" /\ Writes(q) /\ data' = data
        /\ raced' = (raced \/ (rq[q].role # rq[q].was /\ RacedBy(rq[q])))
    BY <1>7 DEF UpdateWrites
  <2>2. p \in People
    BY <1>0, <2>1
  <2>3. /\ DOMAIN new = Fields /\ new.role = RoleWritten(q)
        /\ new.default = seat[p].default /\ new.chosen = seat[p].chosen
    BY <1>0, <2>2 DEF Fields
  <2>4. seat' = seat \/ seat' = [seat EXCEPT ![p] = new]
    BY <1>0, <1>7, <2>2 DEF UpdateWrites
  <2> HIDE DEF new
  <2>5. /\ DOMAIN seat' = People /\ \A o \in People : DOMAIN seat'[o] = Fields
        /\ \A o \in People \ {p} : seat'[o] = seat[o]
        /\ seat'[p] = seat[p] \/ seat'[p] = new
    BY <1>0, <2>2, <2>3, <2>4
  <2>6. RoleWritten(q) = seat[p].role \/ (rq[q].role # rq[q].was /\ RoleWritten(q) = rq[q].role)
    BY DEF RoleWritten
  <2> HIDE DEF p
  <2>7. UpdateWritten(q)
    BY <1>5, <2>1, <2>2, <2>3, <2>5, <2>6 DEF UpdateWritten, SeatWritten, SeatTouched, p
  <2> QED
    BY <1>5, <2>1, <2>5, <2>7 DEF Typed, Requested, Idle
<1>8. ASSUME NEW q \in Requests, RemoveWrites(q) PROVE Typed' /\ Requested(q)
  <2>1. /\ rq[q].op = "remove" /\ Writes(q) /\ data' = data
        /\ raced' = (raced \/ RacedBy(rq[q]))
        /\ seat' = [seat EXCEPT ![rq[q].who] = NoSeat]
    BY <1>8 DEF RemoveWrites
  <2>2. /\ DOMAIN seat' = People /\ \A o \in People : DOMAIN seat'[o] = Fields
        /\ \A o \in People \ {rq[q].who} : seat'[o] = seat[o]
        /\ rq[q].who \in People /\ seat'[rq[q].who] = NoSeat
    BY <1>0, <2>1
  <2>3. NoSeat.role = None
    BY DEF NoSeat
  <2>4. RemoveWritten(q)
    BY <1>5, <2>1, <2>2, <2>3 DEF RemoveWritten, SeatWritten, SeatTouched
  <2> QED
    BY <1>5, <2>1, <2>2, <2>4 DEF Typed, Requested, Idle
\* A seat is told where its holder landed, by a request that goes on or is done.
<1>9. ASSUME NEW q \in Requests, rq[q].op \in {"land", "landed"}, data' = data, raced' = raced,
             NEW flag, NEW k, k.op = "idle" \/ (k.op = "landed" /\ k.who = rq[q].who), rq' = [rq EXCEPT ![q] = k],
             seat' = seat \/ seat' = [seat EXCEPT ![rq[q].who].default = rq[q].to, ![rq[q].who].chosen = flag]
      PROVE  Typed' /\ Requested(q)
  <2> DEFINE p == rq[q].who
             new == [seat[p] EXCEPT !.default = rq[q].to, !.chosen = flag]
  <2>2. p \in People
    BY <1>0, <1>9
  <2>3. DOMAIN new = Fields /\ new.role = seat[p].role
    BY <1>0, <2>2 DEF Fields
  <2>4. seat' = seat \/ seat' = [seat EXCEPT ![p] = new]
    BY <1>0, <1>9, <2>2
  <2> HIDE DEF new
  <2>5. /\ DOMAIN seat' = People /\ \A o \in People : DOMAIN seat'[o] = Fields
        /\ \A o \in People \ {p} : seat'[o] = seat[o]
        /\ seat'[p].role = seat[p].role
    BY <1>0, <2>2, <2>3, <2>4
  <2> HIDE DEF p
  <2>6. DOMAIN rq' = Requests /\ rq'[q] = k /\ \A j \in Requests \ {q} : rq'[j] = rq[j]
    BY <1>0, <1>9
  <2>7. LandWritten(q)
    BY <1>9, <2>2, <2>5, <2>6 DEF LandWritten, SeatTouched, p
  <2>8. Typed'
    BY <1>0, <1>9, <2>2, <2>5, <2>6 DEF Typed, p
  <2> QED
    BY <2>7, <2>8 DEF Requested
<1>16. ASSUME NEW q \in Requests, LandAside(q) PROVE Typed' /\ Requested(q)
  <2> DEFINE k == [rq[q] EXCEPT !.op = "landed"]
  <2>1. rq' = [rq EXCEPT ![q] = k] /\ rq[q].op = "land" /\ UNCHANGED <<data, raced>>
    BY <1>0, <1>16 DEF LandAside
  <2>2. "op" \in DOMAIN rq[q] /\ "who" \in DOMAIN rq[q]
    BY <1>0, <2>1
  <2>3. k.op = "landed" /\ k.who = rq[q].who
    BY <2>2
  <2>4. seat' = seat \/ seat' = [seat EXCEPT ![rq[q].who].default = rq[q].to, ![rq[q].who].chosen = "no"]
    BY <1>16 DEF LandAside
  <2> HIDE DEF k
  <2> QED
    BY <1>9, <2>1, <2>3, <2>4
<1>17. ASSUME NEW q \in Requests, LandCommits(q) PROVE Typed' /\ Requested(q)
  <2> DEFINE flag == IF rq[q].loaded = "no" THEN seat[rq[q].who].chosen ELSE "no"
  <2>1. rq' = [rq EXCEPT ![q] = Idle] /\ Idle.op = "idle" /\ rq[q].op = "landed" /\ UNCHANGED <<data, raced>>
    BY <1>17 DEF LandCommits, Writes, Idle
  <2>2. seat' = [seat EXCEPT ![rq[q].who].default = rq[q].to, ![rq[q].who].chosen = flag]
    BY <1>17 DEF LandCommits
  <2> HIDE DEF flag
  <2> QED
    BY <1>9, <2>1, <2>2
<1>10. ASSUME NEW p \in People, NEW r \in Roles, NEW a, Accept(p, r, a) PROVE Typed' /\ OneStep
  <2>1. PICK c : seat' = [seat EXCEPT ![p] = [role |-> r, access |-> a, default |-> c, chosen |-> "unset"]]
    BY <1>10 DEF Accept
  <2>2. ~IsMember(p) /\ UNCHANGED <<rq, raced, data>>
    BY <1>10 DEF Accept
  <2> DEFINE new == [role |-> r, access |-> a, default |-> c, chosen |-> "unset"]
  <2>3. DOMAIN new = Fields
    BY DEF Fields
  <2> HIDE DEF new
  <2>4. /\ DOMAIN seat' = People /\ \A o \in People : DOMAIN seat'[o] = Fields
        /\ \A o \in People \ {p} : seat'[o] = seat[o]
    BY <1>0, <2>1, <2>3 DEF new
  <2> QED
    BY <1>0, <2>2, <2>4 DEF Typed, OneStep
<1>11. ASSUME NEW p \in People, NEW c \in Companies, Select(p, c) PROVE Typed' /\ OneStep
  <2> DEFINE new == [seat[p] EXCEPT !.default = c, !.chosen = "yes"]
  <2>1. seat' = [seat EXCEPT ![p] = new] /\ UNCHANGED <<rq, raced, data>>
    BY <1>0, <1>11 DEF Select
  <2>2. DOMAIN new = Fields /\ new.role = seat[p].role
    BY <1>0 DEF Fields
  <2> HIDE DEF new
  <2>3. /\ DOMAIN seat' = People /\ \A o \in People : DOMAIN seat'[o] = Fields
        /\ \A o \in People \ {p} : seat'[o] = seat[o]
        /\ seat'[p] = new
    BY <1>0, <2>1, <2>2
  <2> QED
    BY <1>0, <1>11, <2>1, <2>2, <2>3 DEF Typed, OneStep
\* The companies, and the roles for one, are kept elsewhere.
<1>12. ASSUME UNCHANGED <<seat, rq, raced>>, data \subseteq data' PROVE Typed' /\ OneStep
  BY <1>0, <1>12 DEF Typed, OneStep
<1>13. ASSUME NEW p \in People, NEW c \in Companies,
              Archive(p, c) \/ BringBack(p, c) \/ Create(p) \/ (\E t \in People, r \in Roles : CompanyRole(p, t, c, r))
       PROVE  Typed' /\ OneStep
  BY <1>12, <1>13 DEF Archive, BringBack, Create, CompanyRole
<1>14. ASSUME NEW p \in People, Create(p) PROVE Typed' /\ OneStep
  BY <1>12, <1>14 DEF Create
<1>15. ASSUME NEW c \in Companies, Upload(c) PROVE Typed' /\ OneStep
  BY <1>12, <1>15 DEF Upload
<1> QED
  BY <1>2, <1>3, <1>4, <1>6, <1>7, <1>8, <1>10, <1>11, <1>13, <1>14, <1>15, <1>16, <1>17 DEF Next

--------------------------------------------------------------------------------
(* The owners.                                                             *)

\* An owner who is not the last one leaves another.
LEMMA AnotherOwner ==
  ASSUME NEW p \in People, seat[p].role = Owner, ~LastOwner(p)
  PROVE  \E o \in Owners : o # p
<1> SUFFICES ASSUME \A o \in Owners : o = p PROVE FALSE
  OBVIOUS
<1>1. Owners = {p}
  BY DEF Owners
<1>2. Cardinality({p}) = 1
  BY FS_Singleton
<1> QED
  BY <1>1, <1>2 DEF LastOwner

\* The inductive invariant: a request that takes an owner's role saw another owner, and
\* one that says somebody is no owner saw that she was none.
OwnersInvariant ==
  /\ AlwaysAnOwner
  /\ \A q \in Requests : rq[q].op \in {"update", "remove"} =>
       /\ rq[q].was # Owner => rq[q].who \notin rq[q].owners
       /\ rq[q].was = Owner /\ (rq[q].op = "update" => rq[q].role # Owner) =>
            \E o \in rq[q].owners : o # rq[q].who

LEMMA OwnersStep ==
  ASSUME Typed, OwnersInvariant, [Next]_vars
  PROVE  OwnersInvariant'
<1> DEFINE Saw(k) == k.op \in {"update", "remove"} =>
                       /\ k.was # Owner => k.who \notin k.owners
                       /\ k.was = Owner /\ (k.op = "update" => k.role # Owner) => \E o \in k.owners : o # k.who
<1>0. /\ \A q \in Requests : Saw(rq[q])
      /\ ~raced => Owners # {}
      /\ \A q \in Requests : Saw(rq'[q]) => Saw(rq[q])'
  BY DEF OwnersInvariant, AlwaysAnOwner
<1>1. CASE UNCHANGED vars
  BY <1>1 DEF vars, OwnersInvariant, AlwaysAnOwner, Owners
<1>2. CASE OneStep
  <2>1. Owners \subseteq Owners'
    BY <1>2 DEF OneStep, Owners, IsMember, None, Owner
  <2> QED
    BY <1>0, <1>2, <2>1 DEF OneStep, OwnersInvariant, AlwaysAnOwner
<1>3. ASSUME NEW q \in Requests, Requested(q) PROVE OwnersInvariant'
  <2>1. CASE UpdateRead(q) \/ RemoveRead(q) \/ OtherRead(q)
    <3>1. Reading(q)
      BY <2>1 DEF UpdateRead, RemoveRead, OtherRead
    <3>2. Saw(rq'[q])
      <4>1. CASE UpdateRead(q)
        <5>1. PICK p \in People, role \in Roles : \E access :
                /\ rq'[q] = [op |-> "update", who |-> p, role |-> role, was |-> seat[p].role,
                             access |-> access, owners |-> Owners]
                /\ role # seat[p].role => (role # Owner => ~LastOwner(p))
          BY <4>1 DEF UpdateRead
        <5>2. /\ rq'[q].op = "update" /\ rq'[q].who = p /\ rq'[q].role = role
              /\ rq'[q].was = seat[p].role /\ rq'[q].owners = Owners
          BY <5>1
        <5> QED
          BY <5>1, <5>2, AnotherOwner DEF Owners
      <4>2. CASE RemoveRead(q)
        <5>1. PICK p \in People :
                /\ rq'[q] = [op |-> "remove", who |-> p, was |-> seat[p].role, owners |-> Owners]
                /\ ~LastOwner(p)
          BY <4>2 DEF RemoveRead
        <5>2. /\ rq'[q].op = "remove" /\ rq'[q].who = p
              /\ rq'[q].was = seat[p].role /\ rq'[q].owners = Owners
          BY <5>1
        <5> QED
          BY <5>1, <5>2, AnotherOwner DEF Owners
      <4>3. CASE OtherRead(q)
        BY <4>3 DEF OtherRead
      <4> QED
        BY <2>1, <4>1, <4>2, <4>3
    <3>3. Owners' = Owners /\ raced' = raced
      BY <3>1 DEF Reading, Owners
    <3> QED
      BY <1>0, <3>1, <3>2, <3>3 DEF Reading, OwnersInvariant, AlwaysAnOwner
  <2>2. ASSUME UpdateWritten(q) \/ RemoveWritten(q) \/ LandWritten(q), ~raced' => Owners' # {}
        PROVE  OwnersInvariant'
    <3>1. Saw(rq'[q]) /\ \A k \in Requests \ {q} : rq'[k] = rq[k]
      BY <2>2 DEF UpdateWritten, RemoveWritten, LandWritten, SeatWritten, SeatTouched, Idle
    <3> QED
      BY <1>0, <2>2, <3>1 DEF OwnersInvariant, AlwaysAnOwner
  <2>3. ASSUME NEW p, SeatTouched(p, q), Owners # {}, (p \in Owners => p \in Owners' \/ \E o \in Owners : o # p)
        PROVE  Owners' # {}
    BY <2>3 DEF SeatTouched, Owners
  <2>4. CASE UpdateWritten(q)
    <3> SUFFICES ASSUME ~raced' PROVE Owners' # {}
      BY <2>2, <2>4
    <3>1. Owners # {} /\ (rq[q].role # rq[q].was => rq[q].owners = Owners)
      BY <1>0, <2>4 DEF UpdateWritten, RacedBy
    <3>2. CASE rq[q].who \in Owners /\ rq[q].who \notin Owners'
      <4>1. rq[q].role # rq[q].was /\ rq[q].role # Owner
        BY <2>4, <3>2 DEF UpdateWritten, Owners
      <4> QED
        BY <1>0, <2>3, <2>4, <3>1, <4>1 DEF UpdateWritten, SeatWritten
    <3> QED
      BY <2>3, <2>4, <3>1, <3>2 DEF UpdateWritten, SeatWritten
  <2>5. CASE RemoveWritten(q)
    <3> SUFFICES ASSUME ~raced' PROVE Owners' # {}
      BY <2>2, <2>5
    <3>1. Owners # {} /\ rq[q].owners = Owners
      BY <1>0, <2>5 DEF RemoveWritten, RacedBy
    <3> QED
      BY <1>0, <2>3, <2>5, <3>1 DEF RemoveWritten, SeatWritten
  <2>6. CASE LandWritten(q)
    <3> SUFFICES ASSUME ~raced' PROVE Owners' # {}
      BY <2>2, <2>6
    <3> QED
      BY <1>0, <2>3, <2>6 DEF LandWritten, Owners
  <2> QED
    BY <1>3, <2>1, <2>4, <2>5, <2>6 DEF Requested
<1> QED
  BY <1>1, <1>2, <1>3, StepTyped

LEMMA TypeCorrect == Spec => []Typed
<1>1. Init => Typed
  BY DEF Init, Typed, NoSeat, Fields, Idle
<1>2. Typed /\ [Next]_vars => Typed'
  BY StepTyped DEF Typed, vars
<1> QED
  BY <1>1, <1>2, PTL DEF Spec

\* An organization has an owner, unless two requests that count them overlapped.
THEOREM OwnersStand == Spec => [](OwnersInvariant /\ AlwaysAnOwner)
<1>1. Init => OwnersInvariant
  <2> SUFFICES ASSUME Init PROVE OwnersInvariant
    OBVIOUS
  <2>1. PICK u \in People :
          seat = [p \in People |-> IF p = u THEN [NoSeat EXCEPT !.role = Owner, !.default = 1] ELSE NoSeat]
    BY DEF Init
  <2>2. seat[u].role = Owner
    BY <2>1 DEF NoSeat
  <2>3. \A q \in Requests : rq[q].op = "idle"
    BY DEF Init, Idle
  <2> QED
    BY <2>2, <2>3 DEF OwnersInvariant, AlwaysAnOwner, Owners
<1>2. Typed /\ OwnersInvariant /\ [Next]_vars => OwnersInvariant'
  BY OwnersStep
<1>3. OwnersInvariant => AlwaysAnOwner
  BY DEF OwnersInvariant
<1> QED
  BY <1>1, <1>2, <1>3, TypeCorrect, PTL DEF Spec

--------------------------------------------------------------------------------
(* The defaults.                                                           *)

\* Where nobody is landing a default moves only under who comes, goes or chooses, and a
\* request lands only where the default does not stand.
LEMMA WhoMoves ==
  ASSUME Typed, [Next]_vars, NEW p \in People, ~Landing(p), IsMember(p), IsMember(p)',
         ~\E c \in Companies : Select(p, c)
  PROVE  /\ data \subseteq data'
         /\ seat'[p].default = seat[p].default /\ seat'[p].chosen = seat[p].chosen
         /\ Stands(p) => ~Landing(p)'
<1>1. CASE UNCHANGED vars
  BY <1>1 DEF vars, Landing
<1>2. CASE OneStep
  BY <1>2 DEF OneStep, Landing
<1>3. ASSUME NEW q \in Requests, Requested(q)
      PROVE  /\ data \subseteq data'
             /\ seat'[p].default = seat[p].default /\ seat'[p].chosen = seat[p].chosen
             /\ Stands(p) => ~Landing(p)'
  <2>0. /\ \A k \in Requests : rq[k].op \in {"land", "landed"} => rq[k].who # p
        /\ Landing(p)' <=> \E k \in Requests : rq'[k].op \in {"land", "landed"} /\ rq'[k].who = p
    BY DEF Landing
  <2>1. CASE UpdateRead(q)
    <3>1. rq'[q].op = "update"
      BY <2>1 DEF UpdateRead
    <3> QED
      BY <2>0, <2>1, <3>1 DEF UpdateRead, Reading
  <2>2. CASE RemoveRead(q)
    <3>1. rq'[q].op = "remove"
      BY <2>2 DEF RemoveRead
    <3> QED
      BY <2>0, <2>2, <3>1 DEF RemoveRead, Reading
  <2>3. CASE OtherRead(q)
    BY <2>0, <2>3 DEF OtherRead, Reading
  <2>4. CASE UpdateWritten(q)
    BY <2>0, <2>4 DEF UpdateWritten, SeatWritten, SeatTouched, Idle
  <2>5. CASE RemoveWritten(q)
    BY <2>0, <2>5 DEF RemoveWritten, SeatWritten, SeatTouched, IsMember, Idle
  <2>6. CASE LandWritten(q)
    BY <2>0, <2>6 DEF LandWritten, SeatTouched
  <2> QED
    BY <1>3, <2>1, <2>2, <2>3, <2>4, <2>5, <2>6 DEF Requested
<1> QED
  BY <1>1, <1>2, <1>3, StepTyped

\* What a request that names no company means, chosen or remembered with data, stays so
\* once no request of the person is landing, until she chooses again or can no longer open
\* it: whoever is seated, invited, limited or removed meanwhile. A choice made while one
\* is landing may be overwritten by it, and is not spoken of.
THEOREM DefaultsHold == Spec => DefaultsStay
<1>1. Typed /\ [Next]_vars => [StaysSettled]_vars
  <2> SUFFICES ASSUME Typed, [Next]_vars, NEW p \in People,
                      IsSettled(p), seat[p].default \in Accessible(p)', ~\E c \in Companies : Select(p, c)
               PROVE  IsSettled(p)' /\ seat'[p].default = seat[p].default /\ (Chosen(p) => Chosen(p)')
    BY DEF StaysSettled
  <2>1. IsMember(p) /\ IsMember(p)' /\ Stands(p) /\ ~Landing(p)
    BY DEF IsSettled, Stands, Accessible, CanAccess
  <2>2. /\ data \subseteq data' /\ ~Landing(p)'
        /\ seat'[p].default = seat[p].default /\ seat'[p].chosen = seat[p].chosen
    BY <2>1, WhoMoves
  <2>3. Stands(p)'
    BY <2>1, <2>2 DEF Stands, Chosen
  <2> QED
    BY <2>2, <2>3 DEF IsSettled, Stands, Chosen
<1> QED
  BY <1>1, TypeCorrect, PTL DEF Spec, DefaultsStay

--------------------------------------------------------------------------------
(* Invitations: p1 holds them, p2 the seat, p3 the tokens drawn, p4 the    *)
(* requests.                                                               *)

Settled(i) == p1[i].state \in {"revoked", "accepted"}

InviteFields == {"state", "token", "expired", "knew"}

InvitesTyped ==
  /\ DOMAIN p1 = V!Invites /\ DOMAIN p4 = Requests
  /\ \A i \in V!Invites : /\ DOMAIN p1[i] = InviteFields
                          /\ p1[i].state \in {"absent", "pending", "revoked", "accepted"}

\* What was there when an invitation was asked for is settled by the time it is made, and
\* what is settled stays so: a request that makes one settles what it read as pending.
InvitationsInvariant ==
  /\ InvitesTyped
  /\ \A q \in Requests : p4[q].about \subseteq V!Made
  /\ \A j \in V!Made : \A i \in p1[j].knew : i \in V!Made /\ Settled(i)
  /\ \A q \in Requests : p4[q].kind = "create" =>
       \A i \in p4[q].knew : i \in V!Made /\ (i \in p4[q].about \/ Settled(i))

LEMMA InvitationsStart == V!Init => InvitationsInvariant
<1> SUFFICES ASSUME V!Init PROVE InvitationsInvariant
  OBVIOUS
<1>1. InvitesTyped
  BY DEF V!Init, InvitesTyped, InviteFields, V!Absent
<1>2. V!Made = {}
  BY DEF V!Init, V!Made, V!Absent
<1>3. \A q \in Requests : p4[q].kind = "idle" /\ p4[q].about = {}
  BY DEF V!Init, V!Idle
<1> QED
  BY <1>1, <1>2, <1>3 DEF InvitationsInvariant

\* A request that reads.
LEMMA InvitationsRead ==
  ASSUME InvitationsInvariant, NEW q \in Requests, NEW kind, NEW about \in SUBSET V!Made,
         V!Reads(q, kind, about),
         kind = "create" => \A i \in V!Made \ about : Settled(i)
  PROVE  InvitationsInvariant'
<1> DEFINE new == [kind |-> kind, about |-> about, knew |-> V!Made]
<1>1. p4' = [p4 EXCEPT ![q] = new] /\ p1' = p1
  BY DEF V!Reads
<1>2. new.kind = kind /\ new.about = about /\ new.knew = V!Made
  OBVIOUS
<1> HIDE DEF new
<1>3. /\ DOMAIN p4' = Requests /\ p4'[q] = new
      /\ \A r \in Requests \ {q} : p4'[r] = p4[r]
  BY <1>1 DEF InvitationsInvariant, InvitesTyped
<1>4. V!Made' = V!Made /\ \A i : Settled(i)' = Settled(i)
  BY <1>1 DEF V!Made, Settled
<1>5. \A r \in Requests : p4'[r].about \subseteq V!Made
  BY <1>2, <1>3 DEF InvitationsInvariant
<1>6. \A r \in Requests : p4'[r].kind = "create" =>
        \A i \in p4'[r].knew : i \in V!Made /\ (i \in p4'[r].about \/ Settled(i))
  BY <1>2, <1>3 DEF InvitationsInvariant
<1> QED
  BY <1>1, <1>3, <1>4, <1>5, <1>6 DEF InvitationsInvariant, InvitesTyped

\* A request that ends, with the invitations as they are or with those it is about settled,
\* and time that passes.
LEMMA InvitationsEnd ==
  ASSUME InvitationsInvariant, InvitesTyped',
         \A r \in Requests : p4'[r] = p4[r] \/ p4'[r] = V!Idle,
         \A i \in V!Invites : /\ p1'[i].knew = p1[i].knew
                              /\ p1'[i].state = p1[i].state \/ (i \in V!Made /\ Settled(i)')
  PROVE  InvitationsInvariant'
<1>1. V!Made' = V!Made /\ V!Made \subseteq V!Invites /\ \A i \in V!Made : Settled(i) => Settled(i)'
  BY DEF V!Made, Settled
<1>2. (\A q \in Requests : p4[q].about \subseteq V!Made)'
  BY <1>1 DEF InvitationsInvariant, V!Idle
<1>3. (\A j \in V!Made : \A i \in p1[j].knew : i \in V!Made /\ Settled(i))'
  BY <1>1 DEF InvitationsInvariant
<1>4. (\A q \in Requests : p4[q].kind = "create" =>
         \A i \in p4[q].knew : i \in V!Made /\ (i \in p4[q].about \/ Settled(i)))'
  BY <1>1 DEF InvitationsInvariant, V!Idle
<1> QED
  BY <1>2, <1>3, <1>4 DEF InvitationsInvariant

LEMMA InvitationsCreate ==
  ASSUME InvitationsInvariant, NEW q \in Requests, V!CreateCommits(q)
  PROVE  InvitationsInvariant'
<1> DEFINE about == p4[q].about
           made == [state |-> "pending", token |-> p3 + 1, expired |-> FALSE, knew |-> p4[q].knew]
<1>0. InvitesTyped
  BY DEF InvitationsInvariant
<1>1. p4[q].kind = "create" /\ p4' = [p4 EXCEPT ![q] = V!Idle]
  BY DEF V!CreateCommits, V!Ends
<1>2. PICK n \in V!Invites \ V!Made :
        p1' = [i \in V!Invites |-> CASE i \in about -> [p1[i] EXCEPT !.state = "revoked"]
                                     [] i = n -> made
                                     [] OTHER -> p1[i]]
  BY DEF V!CreateCommits
<1>3. about \subseteq V!Made /\ n \notin about /\ V!Made \subseteq V!Invites
  BY <1>2 DEF InvitationsInvariant, V!Made
<1>4. DOMAIN made = InviteFields /\ made.state = "pending" /\ made.knew = p4[q].knew
  BY DEF InviteFields
<1> HIDE DEF made
<1>5. /\ DOMAIN p1' = V!Invites /\ p1'[n] = made
      /\ \A i \in about : p1'[i] = [p1[i] EXCEPT !.state = "revoked"]
      /\ \A i \in V!Invites \ (about \cup {n}) : p1'[i] = p1[i]
  BY <1>2, <1>3
<1>6. \A i \in about : DOMAIN p1'[i] = InviteFields /\ p1'[i].knew = p1[i].knew /\ p1'[i].state = "revoked"
  <2> SUFFICES ASSUME NEW i \in about
               PROVE  DOMAIN p1'[i] = InviteFields /\ p1'[i].knew = p1[i].knew /\ p1'[i].state = "revoked"
    OBVIOUS
  <2>1. i \in V!Invites /\ p1'[i] = [p1[i] EXCEPT !.state = "revoked"]
    BY <1>3, <1>5
  <2>2. DOMAIN p1[i] = InviteFields
    BY <1>0, <2>1 DEF InvitesTyped
  <2> QED
    BY <2>1, <2>2 DEF InviteFields
<1>7. /\ DOMAIN p4' = Requests /\ p4'[q] = V!Idle
      /\ \A r \in Requests \ {q} : p4'[r] = p4[r]
  BY <1>0, <1>1 DEF InvitesTyped
<1>8. InvitesTyped'
  BY <1>0, <1>4, <1>5, <1>6, <1>7 DEF InvitesTyped
<1>9. V!Made' = V!Made \cup {n} /\ \A i \in V!Made : Settled(i) \/ i \in about => Settled(i)'
  BY <1>2, <1>3, <1>4, <1>5, <1>6 DEF V!Made, Settled
<1>10. (\A j \in V!Made : \A i \in p1[j].knew : i \in V!Made /\ Settled(i))'
  <2> SUFFICES ASSUME NEW j \in V!Made', NEW i \in p1'[j].knew PROVE i \in V!Made' /\ Settled(i)'
    OBVIOUS
  <2>1. CASE j = n
    BY <1>1, <1>4, <1>5, <1>9, <2>1 DEF InvitationsInvariant
  <2>2. CASE j # n
    <3>1. j \in V!Made /\ p1'[j].knew = p1[j].knew
      BY <1>3, <1>5, <1>6, <1>9, <2>2
    <3> QED
      BY <1>9, <3>1 DEF InvitationsInvariant
  <2> QED
    BY <2>1, <2>2
<1>11. (\A r \in Requests : p4[r].about \subseteq V!Made)'
  BY <1>7, <1>9 DEF InvitationsInvariant, V!Idle
<1>12. (\A r \in Requests : p4[r].kind = "create" =>
         \A i \in p4[r].knew : i \in V!Made /\ (i \in p4[r].about \/ Settled(i)))'
  BY <1>7, <1>9 DEF InvitationsInvariant, V!Idle
<1> QED
  BY <1>8, <1>10, <1>11, <1>12 DEF InvitationsInvariant

LEMMA InvitationsStep == InvitationsInvariant /\ [V!Next]_V!vars => InvitationsInvariant'
<1> SUFFICES ASSUME InvitationsInvariant, [V!Next]_V!vars PROVE InvitationsInvariant'
  OBVIOUS
<1>0. InvitesTyped /\ V!Made \subseteq V!Invites /\ \A r \in Requests : p4[r].about \subseteq V!Made
  BY DEF InvitationsInvariant, V!Made
<1>1. ASSUME p1' = p1, p4' = p4 PROVE InvitationsInvariant'
  BY <1>0, <1>1, InvitationsEnd DEF InvitesTyped
<1>2. ASSUME NEW q \in Requests, V!Ends(q)
      PROVE  DOMAIN p4' = Requests /\ \A r \in Requests : p4'[r] = p4[r] \/ p4'[r] = V!Idle
  BY <1>0, <1>2 DEF V!Ends, InvitesTyped
<1>3. ASSUME NEW i \in V!Invites, V!Expires(i) PROVE InvitationsInvariant'
  <2>1. p1' = [p1 EXCEPT ![i].expired = TRUE] /\ p4' = p4
    BY <1>3 DEF V!Expires
  <2>2. InvitesTyped' /\ \A j \in V!Invites : p1'[j].knew = p1[j].knew /\ p1'[j].state = p1[j].state
    BY <1>0, <2>1 DEF InvitesTyped, InviteFields
  <2> QED
    BY <2>1, <2>2, InvitationsEnd
<1>4. ASSUME NEW q \in Requests, V!CreateReads(q) PROVE InvitationsInvariant'
  <2>1. V!Reads(q, "create", V!Prior) /\ V!Prior \subseteq V!Made
    BY <1>4 DEF V!CreateReads, V!Prior
  <2>2. \A i \in V!Made \ V!Prior : Settled(i)
    BY <1>0 DEF V!Made, V!Prior, Settled, InvitesTyped
  <2> QED
    BY <2>1, <2>2, InvitationsRead
<1>5. ASSUME NEW q \in Requests, NEW i \in V!Invites, V!ResendReads(q, i) \/ V!RevokeReads(q, i)
      PROVE  InvitationsInvariant'
  <2>1. \E kind \in {"resend", "revoke"} : V!Reads(q, kind, {i})
    BY <1>5 DEF V!ResendReads, V!RevokeReads
  <2>2. i \in V!Made
    BY <1>5 DEF V!ResendReads, V!RevokeReads, V!Made
  <2> QED
    BY <2>1, <2>2, InvitationsRead
<1>6. ASSUME NEW q \in Requests, NEW t \in V!Tokens, V!AcceptReads(q, t) PROVE InvitationsInvariant'
  <2>1. \E i \in V!Made : V!Reads(q, "accept", {i})
    BY <1>6 DEF V!AcceptReads
  <2> QED
    BY <2>1, InvitationsRead
<1>7. ASSUME NEW q \in Requests, V!ResendCommits(q) PROVE InvitationsInvariant'
  <2>1. /\ p1' = [i \in V!Invites |-> IF i \in p4[q].about THEN [p1[i] EXCEPT !.token = p3 + 1, !.expired = FALSE]
                                       ELSE p1[i]]
        /\ V!Ends(q)
    BY <1>7 DEF V!ResendCommits
  <2>2. \A i \in V!Invites : DOMAIN p1'[i] = InviteFields /\ p1'[i].knew = p1[i].knew /\ p1'[i].state = p1[i].state
    BY <1>0, <2>1 DEF InvitesTyped, InviteFields
  <2> QED
    BY <1>0, <1>2, <2>1, <2>2, InvitationsEnd DEF InvitesTyped
<1>8. ASSUME NEW q \in Requests, NEW state \in {"revoked", "accepted"}, V!Ends(q),
             p1' = [i \in V!Invites |-> IF i \in p4[q].about THEN [p1[i] EXCEPT !.state = state] ELSE p1[i]]
      PROVE  InvitationsInvariant'
  <2>1. \A i \in V!Invites : /\ DOMAIN p1'[i] = InviteFields /\ p1'[i].knew = p1[i].knew
                             /\ p1'[i].state = p1[i].state \/ (i \in V!Made /\ p1'[i].state = state)
    BY <1>0, <1>8 DEF InvitesTyped, InviteFields
  <2> QED
    BY <1>0, <1>2, <1>8, <2>1, InvitationsEnd DEF Settled, InvitesTyped
<1>9. ASSUME NEW q \in Requests, V!RevokeCommits(q) \/ V!AcceptCommits(q) PROVE InvitationsInvariant'
  BY <1>8, <1>9 DEF V!RevokeCommits, V!AcceptCommits
<1>10. ASSUME NEW q \in Requests, V!Fails(q) PROVE InvitationsInvariant'
  BY <1>0, <1>2, <1>10, InvitationsEnd DEF V!Fails, InvitesTyped
<1> QED
  BY <1>1, <1>3, <1>4, <1>5, <1>6, <1>7, <1>9, <1>10, InvitationsCreate DEF V!Next, V!vars, V!Remove

LEMMA InvitationsHold == InvitationsInvariant => V!LaterSupersedesEarlier
BY DEF InvitationsInvariant, V!LaterSupersedesEarlier, V!Live, Settled

--------------------------------------------------------------------------------
(* Support sessions: p1 is the policy, p2 the grants, p3 the requests, p4  *)
(* the grants a closing overlapped, p5 those closed.                       *)

Live(g) == p2[g].state \in {"active", "pending"} /\ ~p2[g].expired
Cleared(g) == g \in p4 \/ (p1 # "disabled" /\ g \notin p5)

SupportTyped ==
  /\ DOMAIN p2 = S!Grants /\ DOMAIN p3 = Requests
  /\ \A g \in S!Grants : DOMAIN p2[g] = {"state", "expired"}
  /\ \A q \in Requests : DOMAIN p3[q] = {"kind", "about", "to", "overlapped"}

\* What was read of the grants and of the policy still counts for a request that opens or
\* approves, or it was overlapped; and a request that turns support off has read every
\* session it must close, but those that know they overlap it.
SupportHolds(q) ==
  /\ \A g \in p3[q].about : g \in S!Grants /\ p2[g].state # "absent"
  /\ p3[q].kind = "open" /\ ~p3[q].overlapped => p1 # "disabled"
  /\ p3[q].kind = "approve" /\ ~p3[q].overlapped => \A g \in p3[q].about : Cleared(g)
  /\ p3[q].kind = "policy" /\ p3[q].to = "disabled" => \A g \in S!Grants : Live(g) => g \in p3[q].about \/ g \in p4
  /\ p3[q].kind = "policy" /\ p3[q].to # "disabled" => p3[q].about = {}

SupportInvariant ==
  /\ SupportTyped
  /\ \A g \in S!Grants : Live(g) => Cleared(g)
  /\ \A g \in S!Grants : g \in p5 => p2[g].state # "absent"
  /\ \A q \in Requests : SupportHolds(q)

LEMMA SupportStart == S!Init => SupportInvariant
<1> SUFFICES ASSUME S!Init PROVE SupportInvariant
  OBVIOUS
<1>1. SupportTyped
  BY DEF S!Init, SupportTyped, S!Absent, S!Idle
<1>2. \A g \in S!Grants : p2[g].state = "absent"
  BY DEF S!Init, S!Absent
<1>3. p5 = {} /\ \A q \in Requests : p3[q].kind = "idle" /\ p3[q].about = {}
  BY DEF S!Init, S!Idle
<1> QED
  BY <1>1, <1>2, <1>3 DEF SupportInvariant, SupportHolds, Live

\* A request that reads.
LEMMA SupportRead ==
  ASSUME SupportInvariant, NEW q \in Requests, NEW kind, NEW about \in SUBSET S!Grants, NEW to,
         S!Reads(q, kind, about, to),
         \A g \in about : p2[g].state # "absent",
         kind = "open" => p1 # "disabled",
         kind = "approve" => \A g \in about : Live(g),
         kind = "policy" => about = IF to = "disabled" THEN {g \in S!Grants : Live(g)} ELSE {}
  PROVE  SupportInvariant'
<1> DEFINE new == [S!Idle EXCEPT !.kind = kind, !.about = about, !.to = to]
<1>1. p3' = [p3 EXCEPT ![q] = new] /\ p1' = p1 /\ p2' = p2 /\ p4' = p4 /\ p5' = p5
  BY DEF S!Reads
<1>2. /\ new.kind = kind /\ new.about = about /\ new.to = to
      /\ DOMAIN new = {"kind", "about", "to", "overlapped"}
  BY DEF S!Idle
<1> HIDE DEF new
<1>3. /\ DOMAIN p3' = Requests /\ p3'[q] = new
      /\ \A r \in Requests \ {q} : p3'[r] = p3[r]
  BY <1>1 DEF SupportInvariant, SupportTyped
<1>4. SupportTyped'
  BY <1>1, <1>2, <1>3 DEF SupportInvariant, SupportTyped
<1>5. \A g : Live(g)' = Live(g) /\ Cleared(g)' = Cleared(g)
  BY <1>1 DEF Live, Cleared
<1>6. SupportHolds(q)'
  <2>1. \A g \in about : g \in S!Grants /\ p2'[g].state # "absent"
    BY <1>1
  <2>2. kind = "approve" => \A g \in about : Cleared(g)'
    BY <1>5 DEF SupportInvariant
  <2>3. kind = "policy" /\ to = "disabled" => \A g \in S!Grants : Live(g)' => g \in about
    BY <1>5
  <2> QED
    BY <1>1, <1>2, <1>3, <2>1, <2>2, <2>3 DEF SupportHolds
<1>7. ASSUME NEW r \in Requests \ {q} PROVE SupportHolds(r)'
  BY <1>1, <1>3, <1>5 DEF SupportInvariant, SupportHolds
<1>8. \A g \in S!Grants : (Live(g) => Cleared(g))' /\ (g \in p5 => p2[g].state # "absent")'
  BY <1>1, <1>5 DEF SupportInvariant
<1> QED
  BY <1>4, <1>6, <1>7, <1>8 DEF SupportInvariant

\* A request that opens or approves, that only ends, or time that passes: the closed and
\* the policy stay, and what comes to be live is cleared, or known to overlap.
LEMMA SupportOpens ==
  ASSUME SupportInvariant, SupportTyped', p1' = p1, p5' = p5, p4 \subseteq p4',
         \A r \in Requests : p3'[r] = p3[r] \/ p3'[r] = S!Idle,
         \A g \in S!Grants : /\ p2[g].state # "absent" => p2'[g].state # "absent"
                             /\ \/ Live(g)' => Live(g)
                                \/ Cleared(g)' /\ (S!Closing(g) => g \in p4')
  PROVE  SupportInvariant'
<1>1. \A g : Cleared(g) => Cleared(g)'
  BY DEF Cleared
<1>2. \A g \in S!Grants : (Live(g) => Cleared(g))' /\ (g \in p5 => p2[g].state # "absent")'
  BY <1>1 DEF SupportInvariant
<1>3. ASSUME NEW r \in Requests, p3'[r] = p3[r] PROVE SupportHolds(r)'
  <2>1. SupportHolds(r)
    BY DEF SupportInvariant
  <2>2. p3[r].kind = "policy" /\ p3[r].to = "disabled" => \A g \in S!Grants : S!Closing(g)
    BY DEF S!Closing
  <2> QED
    BY <1>1, <1>3, <2>1, <2>2 DEF SupportHolds
<1>4. ASSUME NEW r \in Requests, p3'[r] = S!Idle PROVE SupportHolds(r)'
  BY <1>4 DEF SupportHolds, S!Idle
<1> QED
  BY <1>2, <1>3, <1>4 DEF SupportInvariant

LEMMA SupportCloses ==
  ASSUME SupportInvariant, NEW q \in Requests, S!CloseCommits(q)
  PROVE  SupportInvariant'
<1> DEFINE about == p3[q].about
           off == p3[q].kind = "policy" /\ p3[q].to = "disabled"
           gs == IF p1' = "disabled" /\ p3[q].kind = "policy" THEN S!Grants ELSE about
<1>0. /\ SupportTyped /\ SupportHolds(q) /\ about \subseteq S!Grants
      /\ \A g \in S!Grants : Live(g) => Cleared(g)
      /\ \A g \in S!Grants : g \in p5 => p2[g].state # "absent"
  BY DEF SupportInvariant, SupportHolds
<1>1. /\ p3[q].kind = "close" \/ p3[q].kind = "policy"
      /\ p1' = IF p3[q].kind = "policy" THEN p3[q].to ELSE p1
      /\ p2' = [g \in S!Grants |-> IF g \in about THEN [p2[g] EXCEPT !.state = "ended"] ELSE p2[g]]
      /\ p5' = p5 \cup about /\ p4' = p4
      /\ p3' = S!Overlaps(q, gs)
  BY DEF S!CloseCommits
<1>2. ASSUME NEW r \in Requests
      PROVE  /\ DOMAIN p3'[r] = {"kind", "about", "to", "overlapped"}
             /\ \/ r = q /\ p3'[r] = S!Idle
                \/ /\ p3'[r].kind = p3[r].kind /\ p3'[r].about = p3[r].about /\ p3'[r].to = p3[r].to
                   /\ p3'[r].overlapped = TRUE
                \/ p3'[r] = p3[r] /\ p3[r].kind # "open" /\ p3[r].about \cap gs = {}
  <2>1. p3'[r] = CASE r = q -> S!Idle
                   [] r # q /\ (p3[r].kind = "open" \/ p3[r].about \cap gs # {}) -> [p3[r] EXCEPT !.overlapped = TRUE]
                   [] OTHER -> p3[r]
    BY <1>1 DEF S!Overlaps
  <2>2. DOMAIN p3[r] = {"kind", "about", "to", "overlapped"}
    BY <1>0 DEF SupportTyped
  <2>3. CASE r = q
    BY <2>1, <2>3 DEF S!Idle
  <2>4. CASE r # q /\ (p3[r].kind = "open" \/ p3[r].about \cap gs # {})
    BY <2>1, <2>2, <2>4
  <2>5. CASE r # q /\ ~(p3[r].kind = "open" \/ p3[r].about \cap gs # {})
    BY <2>1, <2>2, <2>5
  <2> QED
    BY <2>3, <2>4, <2>5
<1>3. DOMAIN p3' = Requests
  BY <1>1 DEF S!Overlaps
<1>4. ASSUME NEW g \in S!Grants
      PROVE  /\ DOMAIN p2'[g] = {"state", "expired"}
             /\ p2[g].state # "absent" => p2'[g].state # "absent"
             /\ g \in about => ~Live(g)' /\ p2'[g].state # "absent"
             /\ g \notin about => Live(g)' = Live(g)
  BY <1>0, <1>1 DEF SupportTyped, Live
<1>5. SupportTyped'
  BY <1>1, <1>2, <1>3, <1>4 DEF SupportTyped
<1>6. ASSUME NEW g \in S!Grants, g \notin about, Cleared(g) PROVE off \/ Cleared(g)'
  BY <1>0, <1>1, <1>6 DEF Cleared, SupportHolds
<1>7. ASSUME NEW g \in S!Grants, Live(g)' PROVE Cleared(g)'
  <2>1. g \notin about /\ Live(g) /\ Cleared(g)
    BY <1>0, <1>4, <1>7
  <2>2. off => g \in p4'
    BY <1>0, <1>1, <2>1 DEF SupportHolds
  <2> QED
    BY <1>6, <2>1, <2>2 DEF Cleared
<1>8. ASSUME NEW r \in Requests PROVE SupportHolds(r)'
  <2>1. SupportHolds(r)
    BY DEF SupportInvariant
  <2>2. CASE p3'[r] = S!Idle
    BY <2>2 DEF SupportHolds, S!Idle
  <2>3. CASE /\ p3'[r].kind = p3[r].kind /\ p3'[r].about = p3[r].about /\ p3'[r].to = p3[r].to
             /\ p3'[r].overlapped = TRUE
    BY <1>1, <1>4, <2>1, <2>3 DEF SupportHolds
  <2>4. CASE p3'[r] = p3[r] /\ p3[r].kind # "open" /\ p3[r].about \cap gs = {}
    <3>1. ASSUME ~p3[r].overlapped, p3[r].kind = "approve", NEW g \in p3[r].about PROVE Cleared(g)'
      <4>1. g \in S!Grants /\ Cleared(g)
        BY <2>1, <3>1 DEF SupportHolds
      <4>2. ~off /\ g \notin about
        BY <1>1, <2>4, <4>1
      <4> QED
        BY <1>6, <4>1, <4>2
    <3> QED
      BY <1>1, <1>4, <2>1, <2>4, <3>1 DEF SupportHolds
  <2> QED
    BY <1>2, <2>2, <2>3, <2>4
<1> QED
  BY <1>0, <1>1, <1>4, <1>5, <1>7, <1>8 DEF SupportInvariant

LEMMA SupportStep == SupportInvariant /\ [S!Next]_S!vars => SupportInvariant'
<1> SUFFICES ASSUME SupportInvariant, [S!Next]_S!vars PROVE SupportInvariant'
  OBVIOUS
<1>0. SupportTyped /\ \A r \in Requests : SupportHolds(r)
  BY DEF SupportInvariant
<1>1. CASE UNCHANGED S!vars
  BY <1>0, <1>1, SupportOpens DEF S!vars, SupportTyped, Live
<1>2. ASSUME NEW q \in Requests, p3' = [p3 EXCEPT ![q] = S!Idle]
      PROVE  /\ DOMAIN p3' = Requests
             /\ \A r \in Requests : /\ p3'[r] = p3[r] \/ p3'[r] = S!Idle
                                    /\ DOMAIN p3'[r] = {"kind", "about", "to", "overlapped"}
  BY <1>0, <1>2 DEF SupportTyped, S!Idle
<1>3. ASSUME NEW g \in S!Grants, S!Expires(g) PROVE SupportInvariant'
  <2>1. p2' = [p2 EXCEPT ![g].expired = TRUE] /\ p1' = p1 /\ p3' = p3 /\ p4' = p4 /\ p5' = p5
    BY <1>3 DEF S!Expires
  <2>2. SupportTyped' /\ \A h \in S!Grants : p2'[h].state = p2[h].state /\ (Live(h)' => Live(h))
    BY <1>0, <2>1 DEF SupportTyped, Live
  <2> QED
    BY <2>1, <2>2, SupportOpens
<1>4. ASSUME NEW q \in Requests, S!OpenReads(q) PROVE SupportInvariant'
  <2>1. p1 # "disabled" /\ \E to : S!Reads(q, "open", {}, to)
    BY <1>4 DEF S!OpenReads
  <2> QED
    BY <2>1, SupportRead
<1>5. ASSUME NEW q \in Requests, NEW g \in S!Grants, S!ApproveReads(q, g) \/ S!EndReads(q, g)
      PROVE  SupportInvariant'
  <2>1. \/ S!Reads(q, "approve", {g}, "active") /\ p2[g].state # "absent" /\ Live(g)
        \/ S!Reads(q, "close", {g}, "ended") /\ p2[g].state # "absent"
    BY <1>5 DEF S!ApproveReads, S!EndReads, S!Pending, Live
  <2> QED
    BY <2>1, SupportRead
<1>6. ASSUME NEW q \in Requests, NEW p \in S!Policies, S!PolicyReads(q, p) PROVE SupportInvariant'
  <2>1. S!OpenNow = {g \in S!Grants : Live(g)} /\ \A g \in S!OpenNow : p2[g].state # "absent"
    BY DEF S!OpenNow, S!Usable, S!Pending, Live
  <2>2. S!Reads(q, "policy", IF p = "disabled" THEN {g \in S!Grants : Live(g)} ELSE {}, p)
    BY <1>6, <2>1 DEF S!PolicyReads
  <2> QED
    BY <2>1, <2>2, SupportRead
<1>7. ASSUME NEW q \in Requests, S!OpenCommits(q) PROVE SupportInvariant'
  <2>1. PICK g \in S!NextGrant :
          /\ p2' = [p2 EXCEPT ![g].state = p3[q].to]
          /\ p4' = IF p3[q].overlapped \/ S!Closing(g) THEN p4 \cup {g} ELSE p4
    BY <1>7 DEF S!OpenCommits
  <2>2. p3[q].kind = "open" /\ p3' = [p3 EXCEPT ![q] = S!Idle] /\ p1' = p1 /\ p5' = p5
    BY <1>7 DEF S!OpenCommits
  <2>3. g \in S!Grants /\ g \notin p5 /\ p2[g].state = "absent"
    BY DEF S!NextGrant, SupportInvariant
  <2>4. /\ DOMAIN p2' = S!Grants /\ DOMAIN p2'[g] = {"state", "expired"}
        /\ \A h \in S!Grants \ {g} : p2'[h] = p2[h]
    BY <1>0, <2>1, <2>3 DEF SupportTyped
  <2>5. Cleared(g)' /\ (S!Closing(g) => g \in p4')
    BY <1>0, <2>1, <2>2, <2>3 DEF Cleared, SupportHolds
  <2>6. SupportTyped'
    BY <1>0, <1>2, <2>2, <2>4 DEF SupportTyped
  <2>7. \A h \in S!Grants \ {g} : Live(h)' = Live(h)
    BY <2>4 DEF Live
  <2> QED
    BY <1>2, <2>1, <2>2, <2>3, <2>4, <2>5, <2>6, <2>7, SupportOpens
<1>8. ASSUME NEW q \in Requests, S!ApproveCommits(q) PROVE SupportInvariant'
  <2>1. /\ p3[q].kind = "approve" /\ p3' = [p3 EXCEPT ![q] = S!Idle] /\ p1' = p1 /\ p5' = p5
        /\ p2' = [g \in S!Grants |-> IF g \in p3[q].about THEN [p2[g] EXCEPT !.state = "active"] ELSE p2[g]]
        /\ p4' = p4 \cup {g \in p3[q].about : p3[q].overlapped \/ S!Closing(g)}
    BY <1>8 DEF S!ApproveCommits
  <2>2. /\ DOMAIN p2' = S!Grants
        /\ \A g \in S!Grants : /\ DOMAIN p2'[g] = {"state", "expired"}
                               /\ p2[g].state # "absent" => p2'[g].state # "absent"
                               /\ g \notin p3[q].about => p2'[g] = p2[g]
    BY <1>0, <2>1 DEF SupportTyped
  <2>3. ASSUME NEW g \in p3[q].about PROVE Cleared(g)' /\ (S!Closing(g) => g \in p4')
    BY <1>0, <2>1 DEF Cleared, SupportHolds
  <2>4. SupportTyped'
    BY <1>0, <1>2, <2>1, <2>2 DEF SupportTyped
  <2>5. \A g \in S!Grants : g \notin p3[q].about => Live(g)' = Live(g)
    BY <2>2 DEF Live
  <2> QED
    BY <1>2, <2>1, <2>2, <2>3, <2>4, <2>5, SupportOpens
<1>9. ASSUME NEW q \in Requests, S!Refused(q) PROVE SupportInvariant'
  <2>1. p3' = [p3 EXCEPT ![q] = S!Idle] /\ p1' = p1 /\ p2' = p2 /\ p4' = p4 /\ p5' = p5
    BY <1>9 DEF S!Refused
  <2>2. SupportTyped' /\ \A g \in S!Grants : Live(g)' = Live(g)
    BY <1>0, <1>2, <2>1 DEF SupportTyped, Live
  <2> QED
    BY <1>2, <2>1, <2>2, SupportOpens
<1> QED
  BY <1>1, <1>3, <1>4, <1>5, <1>6, <1>7, <1>8, <1>9, SupportCloses DEF S!Next

LEMMA SupportHoldsOff == SupportInvariant => S!OffMeansOff
BY DEF SupportInvariant, S!OffMeansOff, S!Usable, Live, Cleared

--------------------------------------------------------------------------------
(* Keys: p2 is the account, p3 the keys, p4 the requests, p9 and p10 say   *)
(* whether the account is backed and its changes raced, p11 holds the keys *)
(* rotated twice at once.                                                  *)

AccountFields == {"status", "env", "companies", "scopes"}
KeyFields == {"issued", "until", "revoked", "from", "to"}

\* What a request has read and checked.
KeyRequest(q) ==
  LET r == p4[q] IN
  /\ r.op \in {"create", "update"} => /\ r.row = [f \in AccountFields |-> r.row[f]]
                                      /\ r.row.companies \subseteq r.managed
  /\ r.op = "rotate" => r.key \in K!Keys /\ p3[r.key].issued = TRUE /\ r.successor = 0

\* A key that is not issued leads nowhere, and one that does, to the key that says so.
KeysInvariant ==
  /\ DOMAIN p2 = AccountFields /\ DOMAIN p3 = K!Keys /\ DOMAIN p4 = Requests
  /\ \A k \in K!Keys : /\ DOMAIN p3[k] = KeyFields /\ p3[k].to \in K!Keys \cup {0}
                       /\ p3[k].issued # TRUE => p3[k].to = 0 /\ p3[k].from = 0
  /\ \A k \in K!Keys \ p11 : \A j \in K!Keys : p3[j].from = k <=> p3[k].to = j
  /\ K!NeverWiderThanItsMaker
  /\ \A q \in Requests : KeyRequest(q)

LEMMA KeysStart == K!Init => KeysInvariant
<1> SUFFICES ASSUME K!Init PROVE KeysInvariant
  OBVIOUS
<1>1. DOMAIN p2 = AccountFields /\ p9 = TRUE
  BY DEF K!Init, K!NoAccount, AccountFields
<1>2. /\ DOMAIN p3 = K!Keys
      /\ \A k \in K!Keys : DOMAIN p3[k] = KeyFields /\ p3[k].to = 0 /\ p3[k].from = 0
  BY DEF K!Init, K!NoKey, K!None, KeyFields
<1>3. DOMAIN p4 = Requests /\ \A q \in Requests : p4[q].op = "idle"
  BY DEF K!Init, K!Idle
<1>4. \A j, k \in K!Keys : p3[j].from = k <=> p3[k].to = j
  BY <1>2 DEF K!Keys
<1> QED
  BY <1>1, <1>2, <1>3, <1>4 DEF KeysInvariant, KeyRequest, K!NeverWiderThanItsMaker

\* A request that reads, one that ends, and what goes on around them.
LEMMA KeysStay ==
  ASSUME KeysInvariant, UNCHANGED <<p2, p3, p9, p10, p11>>, DOMAIN p4' = Requests,
         \A q \in Requests : p4'[q] = p4[q] \/ KeyRequest(q)'
  PROVE  KeysInvariant'
<1>1. \A q \in Requests : KeyRequest(q)'
  BY DEF KeysInvariant, KeyRequest
<1>2. K!NeverWiderThanItsMaker'
  BY DEF KeysInvariant, K!NeverWiderThanItsMaker
<1>3. /\ DOMAIN p2' = AccountFields /\ DOMAIN p3' = K!Keys
      /\ \A k \in K!Keys : /\ DOMAIN p3'[k] = KeyFields /\ p3'[k].to \in K!Keys \cup {0}
                           /\ p3'[k].issued # TRUE => p3'[k].to = 0 /\ p3'[k].from = 0
      /\ \A k \in K!Keys \ p11' : \A j \in K!Keys : p3'[j].from = k <=> p3'[k].to = j
  <2>1. p2' = p2 /\ p3' = p3 /\ p11' = p11
    OBVIOUS
  <2>2. DOMAIN p2 = AccountFields /\ DOMAIN p3 = K!Keys
    BY DEF KeysInvariant
  <2>3. \A k \in K!Keys : /\ DOMAIN p3[k] = KeyFields /\ p3[k].to \in K!Keys \cup {0}
                          /\ p3[k].issued # TRUE => p3[k].to = 0 /\ p3[k].from = 0
    BY DEF KeysInvariant
  <2>4. \A k \in K!Keys \ p11 : \A j \in K!Keys : p3[j].from = k <=> p3[k].to = j
    BY DEF KeysInvariant
  <2>5. DOMAIN p2' = AccountFields /\ DOMAIN p3' = K!Keys
    BY <2>1, <2>2, Zenon
  <2>6. \A k \in K!Keys : /\ DOMAIN p3'[k] = KeyFields /\ p3'[k].to \in K!Keys \cup {0}
                          /\ p3'[k].issued # TRUE => p3'[k].to = 0 /\ p3'[k].from = 0
    BY <2>1, <2>3
  <2>7. \A k \in K!Keys \ p11' : \A j \in K!Keys : p3'[j].from = k <=> p3'[k].to = j
    BY <2>1, <2>4
  <2> QED
    BY <2>5, <2>6, <2>7
<1> QED
  BY <1>1, <1>2, <1>3 DEF KeysInvariant

LEMMA KeysRead ==
  ASSUME KeysInvariant, NEW q \in Requests, NEW what, K!Reads(q, what),
         what.op \in {"create", "update"} => /\ what.row = [f \in AccountFields |-> what.row[f]]
                                             /\ what.row.companies \subseteq what.managed,
         what.op = "rotate" => what.key \in K!Keys /\ p3[what.key].issued = TRUE /\ what.successor = 0
  PROVE  KeysInvariant'
<1>1. p4' = [p4 EXCEPT ![q] = what] /\ UNCHANGED <<p2, p3, p9, p10, p11>>
  BY DEF K!Reads
<1>2. DOMAIN p4' = Requests /\ p4'[q] = what /\ \A r \in Requests \ {q} : p4'[r] = p4[r]
  BY <1>1 DEF KeysInvariant
<1>3. KeyRequest(q)'
  BY <1>1, <1>2 DEF KeyRequest
<1> QED
  BY <1>1, <1>2, <1>3, KeysStay

\* A request that is done with, while keys stay or come to be issued, and those that lead
\* somewhere lead there still.
LEMMA KeysDone ==
  ASSUME KeysInvariant, NEW q \in Requests, K!Done(q), K!NeverWiderThanItsMaker',
         DOMAIN p2' = AccountFields, DOMAIN p3' = K!Keys,
         \A k \in K!Keys : /\ DOMAIN p3'[k] = KeyFields /\ p3'[k].to \in K!Keys \cup {0}
                           /\ p3[k].issued = TRUE => p3'[k].issued = TRUE
                           /\ p3'[k].issued # TRUE => p3'[k].to = 0 /\ p3'[k].from = 0,
         \A k \in K!Keys \ p11' : \A j \in K!Keys : p3'[j].from = k <=> p3'[k].to = j
  PROVE  KeysInvariant'
<1>1. p4' = [p4 EXCEPT ![q] = K!Idle]
  BY DEF K!Done
<1>2. DOMAIN p4' = Requests /\ p4'[q] = K!Idle /\ \A r \in Requests \ {q} : p4'[r] = p4[r]
  BY <1>1 DEF KeysInvariant
<1>3. KeyRequest(q)'
  BY <1>2 DEF KeyRequest, K!Idle
<1>4. ASSUME NEW r \in Requests \ {q} PROVE KeyRequest(r)'
  <2>1. p4'[r] = p4[r] /\ KeyRequest(r)
    BY <1>2 DEF KeysInvariant
  <2>2. p4[r].op = "rotate" => p3'[p4[r].key].issued = TRUE
    BY <2>1 DEF KeyRequest
  <2> QED
    BY <2>1, <2>2 DEF KeyRequest
<1> QED
  BY <1>2, <1>3, <1>4 DEF KeysInvariant

\* The same, where no key comes to lead elsewhere.
LEMMA KeysLead ==
  ASSUME KeysInvariant, NEW q \in Requests, K!Done(q), K!NeverWiderThanItsMaker',
         DOMAIN p2' = AccountFields, DOMAIN p3' = K!Keys, p11' = p11,
         \A k \in K!Keys : /\ DOMAIN p3'[k] = KeyFields /\ p3'[k].to = p3[k].to /\ p3'[k].from = p3[k].from
                           /\ p3[k].issued = TRUE => p3'[k].issued = TRUE
  PROVE  KeysInvariant'
<1>1. \A k \in K!Keys : /\ DOMAIN p3'[k] = KeyFields /\ p3'[k].to \in K!Keys \cup {0}
                        /\ p3[k].issued = TRUE => p3'[k].issued = TRUE
                        /\ p3'[k].issued # TRUE => p3'[k].to = 0 /\ p3'[k].from = 0
  BY DEF KeysInvariant
<1>2. \A k \in K!Keys \ p11' : \A j \in K!Keys : p3'[j].from = k <=> p3'[k].to = j
  BY DEF KeysInvariant
<1> QED
  BY <1>1, <1>2, KeysDone

LEMMA KeysWidened ==
  ASSUME KeysInvariant, NEW q \in Requests, K!CreateWrites(q) \/ K!UpdateWrites(q)
  PROVE  KeysInvariant'
<1> DEFINE row == p4[q].row
<1>0. DOMAIN p2 = AccountFields /\ KeyRequest(q) /\ K!NeverWiderThanItsMaker
  BY DEF KeysInvariant
<1>1. K!Done(q) /\ p3' = p3 /\ p11' = p11 /\ p4[q].op \in {"create", "update"}
  BY DEF K!CreateWrites, K!UpdateWrites
<1>2. row = [f \in AccountFields |-> row[f]] /\ row.companies \subseteq p4[q].managed
  BY <1>0, <1>1 DEF KeyRequest
<1>3. CASE K!CreateWrites(q)
  <2>1. p2' = row
    BY <1>3 DEF K!CreateWrites
  <2>2. p9' = (row.companies \subseteq p4[q].managed)
    BY <1>3 DEF K!CreateWrites
  <2>3. K!NeverWiderThanItsMaker'
    BY <1>2, <2>2, Zenon DEF K!NeverWiderThanItsMaker
  <2>4. DOMAIN p2' = AccountFields
    <3> HIDE DEF row
    <3> QED
      BY <1>2, <2>1
  <2> QED
    BY <1>1, <2>3, <2>4, KeysLead DEF KeysInvariant
<1>4. CASE K!UpdateWrites(q)
  <2>1. /\ p2' = [f \in DOMAIN p2 |-> IF row[f] # p4[q].seen[f] THEN row[f] ELSE p2[f]]
    BY <1>4 DEF K!UpdateWrites
  <2>2. p9' = (p2' = row /\ row.companies \subseteq p4[q].managed)
    BY <1>4 DEF K!UpdateWrites
  <2>3. p10' = (p10 \/ p2 # p4[q].seen)
    BY <1>4 DEF K!UpdateWrites
  <2>4. ASSUME p2 = p4[q].seen PROVE p2' = row
    <3>1. p2' = [f \in AccountFields |-> row[f]]
      BY <1>0, <2>1, <2>4
    <3> QED
      BY <1>2, <3>1
  <2>5. K!NeverWiderThanItsMaker'
    BY <1>2, <2>2, <2>3, <2>4, Zenon DEF K!NeverWiderThanItsMaker
  <2>6. DOMAIN p2' = AccountFields
    BY <1>0, <2>1
  <2> QED
    BY <1>1, <2>5, <2>6, KeysLead DEF KeysInvariant
<1> QED
  BY <1>3, <1>4

LEMMA KeysRotated ==
  ASSUME KeysInvariant, NEW q \in Requests, K!RotateWrites(q)
  PROVE  KeysInvariant'
<1> DEFINE k == p4[q].key
           fresh == K!Fresh(p4[q].fresh, k)
<1>0. /\ DOMAIN p3 = K!Keys
      /\ \A j \in K!Keys : /\ DOMAIN p3[j] = KeyFields /\ p3[j].to \in K!Keys \cup {0}
                           /\ p3[j].issued # TRUE => p3[j].to = 0 /\ p3[j].from = 0
      /\ \A i \in K!Keys \ p11 : \A j \in K!Keys : p3[j].from = i <=> p3[i].to = j
  BY DEF KeysInvariant
<1>1. k \in K!Keys /\ p3[k].issued = TRUE /\ p4[q].successor = 0
  BY DEF K!RotateWrites, KeysInvariant, KeyRequest
<1>2. PICK n \in K!NextKey :
        p3' = [p3 EXCEPT ![k].to = n, ![k].until = IF p4[q].until # p4[q].seen THEN p4[q].until ELSE @,
                         ![n] = fresh]
  BY DEF K!RotateWrites
<1>3. /\ K!Done(q) /\ p2' = p2 /\ p9' = p9 /\ p10' = p10
      /\ p11' = IF p3[k].to # p4[q].successor THEN p11 \cup {k} ELSE p11
  BY DEF K!RotateWrites
<1>4. n \in K!Keys /\ p3[n].issued # TRUE /\ n # k /\ n # 0 /\ k # 0
  <2>1. n \in K!Keys /\ ~p3[n].issued
    BY DEF K!NextKey
  <2>2. 0 \notin K!Keys
    BY DEF K!Keys
  <2> HIDE DEF k
  <2> QED
    BY <1>1, <2>1, <2>2
<1>5. DOMAIN fresh = KeyFields /\ fresh.issued = TRUE /\ fresh.from = k /\ fresh.to = 0
  BY DEF K!Fresh, K!NoKey, K!None, KeyFields
<1> HIDE DEF fresh, k
<1>6. /\ DOMAIN p3' = K!Keys /\ p3'[n] = fresh
      /\ \A j \in K!Keys \ {k, n} : p3'[j] = p3[j]
  BY <1>0, <1>1, <1>2, <1>4
<1>7. DOMAIN p3'[k] = KeyFields /\ p3'[k].to = n /\ p3'[k].from = p3[k].from /\ p3'[k].issued = p3[k].issued
  <2> DEFINE until == IF p4[q].until # p4[q].seen THEN p4[q].until ELSE p3[k].until
  <2>1. DOMAIN p3[k] = KeyFields
    BY <1>0, <1>1
  <2>2. p3'[k] = [p3[k] EXCEPT !.to = n, !.until = until]
    BY <1>0, <1>1, <1>2, <1>4 DEF KeyFields
  <2> QED
    BY <2>1, <2>2 DEF KeyFields
<1>8. K!NeverWiderThanItsMaker'
  BY <1>3 DEF KeysInvariant, K!NeverWiderThanItsMaker
<1>9. ASSUME NEW i \in K!Keys \ p11', NEW j \in K!Keys PROVE p3'[j].from = i <=> p3'[i].to = j
  <2>1. i \notin p11 /\ (i = k => p3[k].to = 0)
    BY <1>1, <1>3
  <2>2. \A h \in K!Keys : p3[h].from = i <=> p3[i].to = h
    BY <1>0, <2>1
  <2>3. j # 0
    BY DEF K!Keys
  <2>4. CASE i = k
    <3>1. p3[k].to = 0 /\ \A h \in K!Keys : p3[h].from # k
      BY <1>1, <2>1, <2>2, <2>4, <1>4 DEF K!Keys
    <3>2. CASE j = n
      BY <1>5, <1>6, <1>7, <2>4, <3>2
    <3>3. CASE j = k
      BY <1>1, <1>4, <1>7, <2>4, <3>1, <3>3
    <3>4. CASE j \notin {k, n}
      BY <1>6, <1>7, <2>4, <3>1, <3>4
    <3> QED
      BY <3>2, <3>3, <3>4
  <2>5. CASE i = n
    <3>0. p3'[n].to = 0 /\ p3[n].to = 0
      BY <1>0, <1>4, <1>5, <1>6
    <3>1. p3'[n].to = 0 /\ p3[n].to = 0 /\ \A h \in K!Keys : p3[h].from # n
      <4>1. \A h \in K!Keys : h # 0
        BY DEF K!Keys
      <4> QED
        BY <3>0, <2>2, <2>5, <4>1
    <3>2. p3'[j].from # n
      BY <1>1, <1>4, <1>5, <1>6, <1>7, <3>1
    <3> QED
      BY <2>3, <2>5, <3>1, <3>2
  <2>6. CASE i \notin {k, n}
    <3>1. p3'[i] = p3[i]
      BY <1>6, <2>6
    <3>2. CASE j = n
      <4>1. p3[n].from = 0 /\ i # 0
        <5>1. i # 0
          BY DEF K!Keys
        <5> QED
          BY <1>0, <1>4, <5>1
      <4>2. p3'[n].from = k /\ p3[i].to # n
        BY <1>4, <1>5, <1>6, <2>2, <4>1
      <4> QED
        BY <2>6, <3>1, <3>2, <4>2
    <3>3. CASE j # n
      <4>1. p3'[j].from = p3[j].from
        BY <1>6, <1>7, <3>3
      <4> QED
        BY <2>2, <3>1, <4>1
    <3> QED
      BY <3>2, <3>3
  <2> QED
    BY <2>4, <2>5, <2>6
<1>10. ASSUME NEW j \in K!Keys
       PROVE  /\ DOMAIN p3'[j] = KeyFields /\ p3'[j].to \in K!Keys \cup {0}
              /\ p3[j].issued = TRUE => p3'[j].issued = TRUE
              /\ p3'[j].issued # TRUE => p3'[j].to = 0 /\ p3'[j].from = 0
  <2>1. CASE j = k
    BY <1>1, <1>4, <1>7, <2>1
  <2>2. CASE j = n
    BY <1>4, <1>5, <1>6, <2>2
  <2>3. CASE j \notin {k, n}
    BY <1>0, <1>6, <2>3
  <2> QED
    BY <2>1, <2>2, <2>3
<1>11. DOMAIN p2' = AccountFields
  BY <1>3 DEF KeysInvariant
<1> QED
  BY <1>3, <1>6, <1>8, <1>9, <1>10, <1>11, KeysDone

LEMMA KeysStep == KeysInvariant /\ [K!Next]_K!vars => KeysInvariant'
<1> SUFFICES ASSUME KeysInvariant, [K!Next]_K!vars PROVE KeysInvariant'
  OBVIOUS
<1>0. /\ DOMAIN p2 = AccountFields /\ DOMAIN p3 = K!Keys /\ DOMAIN p4 = Requests
      /\ \A k \in K!Keys : /\ DOMAIN p3[k] = KeyFields
                           /\ p3[k].issued # TRUE => p3[k].to = 0 /\ p3[k].from = 0
  BY DEF KeysInvariant
<1>1. ASSUME UNCHANGED <<p2, p3, p4, p9, p10, p11>> PROVE KeysInvariant'
  BY <1>0, <1>1, KeysStay
<1>2. ASSUME NEW q \in Requests, NEW p \in People, K!CreateReads(q, p) PROVE KeysInvariant'
  <2>1. PICK env \in K!Environments, cs \in K!Some(Companies), scopes \in K!Some(Scopes) :
          /\ K!InChargeIn(p, cs, env)
          /\ K!Reads(q, [op |-> "create", managed |-> K!Managed(p),
                         row |-> [status |-> "active", env |-> env, companies |-> cs, scopes |-> scopes]])
    BY <1>2 DEF K!CreateReads
  <2> DEFINE row == [status |-> "active", env |-> env, companies |-> cs, scopes |-> scopes]
  <2>2. row = [f \in AccountFields |-> row[f]] /\ row.companies = cs
    BY DEF AccountFields
  <2>3. cs \subseteq K!Managed(p)
    BY <2>1 DEF K!InChargeIn, K!InCharge
  <2> HIDE DEF row
  <2> DEFINE what == [op |-> "create", managed |-> K!Managed(p), row |-> row]
  <2>4. K!Reads(q, what) /\ what.op = "create" /\ what.managed = K!Managed(p) /\ what.row = row
    BY <2>1 DEF row
  <2> HIDE DEF what
  <2> QED
    BY <2>2, <2>3, <2>4, KeysRead
<1>3. ASSUME NEW q \in Requests, NEW p \in People, K!UpdateReads(q, p) PROVE KeysInvariant'
  <2>1. PICK status \in {"active", "disabled"}, cs \in K!Some(Companies), scopes \in K!Some(Scopes) :
          LET row == [status |-> status, env |-> p2.env, companies |-> cs, scopes |-> scopes] IN
          /\ K!MayUpdate(p, row)
          /\ K!Reads(q, [op |-> "update", managed |-> K!Managed(p), seen |-> p2, row |-> row])
    BY <1>3 DEF K!UpdateReads
  <2> DEFINE row == [status |-> status, env |-> p2.env, companies |-> cs, scopes |-> scopes]
  <2>2. row = [f \in AccountFields |-> row[f]] /\ row.companies = cs
    BY DEF AccountFields
  <2>3. K!MayUpdate(p, row) /\ K!Reads(q, [op |-> "update", managed |-> K!Managed(p), seen |-> p2, row |-> row])
    BY <2>1
  <2> HIDE DEF row
  <2>4. cs \subseteq K!Managed(p)
    BY <2>2, <2>3 DEF K!MayUpdate, K!InChargeIn, K!InCharge
  <2> DEFINE what == [op |-> "update", managed |-> K!Managed(p), seen |-> p2, row |-> row]
  <2>5. K!Reads(q, what) /\ what.op = "update" /\ what.managed = K!Managed(p) /\ what.row = row
    BY <2>3
  <2> HIDE DEF what
  <2> QED
    BY <2>2, <2>4, <2>5, KeysRead
<1>4. ASSUME NEW q \in Requests, NEW p \in People, K!IssueReads(q, p) PROVE KeysInvariant'
  <2>1. \E life \in Lives : K!Reads(q, [op |-> "issue", fresh |-> p6 + life])
    BY <1>4 DEF K!IssueReads
  <2> QED
    BY <2>1, KeysRead
<1>5. ASSUME NEW q \in Requests, NEW p \in People, NEW k \in K!Keys, K!RotateReads(q, p, k) PROVE KeysInvariant'
  <2>1. PICK life \in Lives, grace \in Graces :
          K!Reads(q, [op |-> "rotate", key |-> k, fresh |-> p6 + life, successor |-> p3[k].to,
                      seen |-> p3[k].until, until |-> K!Ending(p3[k].until, p6 + grace)])
    BY <1>5 DEF K!RotateReads
  <2>2. p3[k].issued /\ p3[k].to = 0
    BY <1>5 DEF K!RotateReads, K!None
  <2>3. p3[k].issued = TRUE
    BY <1>0, <2>2
  <2> DEFINE what == [op |-> "rotate", key |-> k, fresh |-> p6 + life, successor |-> p3[k].to,
                      seen |-> p3[k].until, until |-> K!Ending(p3[k].until, p6 + grace)]
  <2>4. K!Reads(q, what) /\ what.op = "rotate" /\ what.key = k /\ what.successor = p3[k].to
    BY <2>1
  <2> HIDE DEF what
  <2> QED
    BY <2>2, <2>3, <2>4, KeysRead
<1>6. ASSUME NEW q \in Requests, NEW p \in People, NEW k \in K!Keys, K!RevokeReads(q, p, k) PROVE KeysInvariant'
  <2>1. K!Reads(q, [op |-> "revoke", key |-> k])
    BY <1>6 DEF K!RevokeReads
  <2> QED
    BY <2>1, KeysRead
<1>7. ASSUME NEW q \in Requests, K!IssueWrites(q) PROVE KeysInvariant'
  <2> DEFINE fresh == K!Fresh(p4[q].fresh, K!None)
  <2>1. PICK n \in K!NextKey : p3' = [p3 EXCEPT ![n] = fresh]
    BY <1>7 DEF K!IssueWrites
  <2>2. K!Done(q) /\ p2' = p2 /\ p9' = p9 /\ p10' = p10 /\ p11' = p11
    BY <1>7 DEF K!IssueWrites
  <2>3. DOMAIN fresh = KeyFields /\ fresh.issued = TRUE /\ fresh.from = 0 /\ fresh.to = 0
    BY DEF K!Fresh, K!NoKey, K!None, KeyFields
  <2>4. n \in K!Keys /\ p3[n].to = 0 /\ p3[n].from = 0
    BY <1>0 DEF K!NextKey
  <2> HIDE DEF fresh
  <2>5. DOMAIN p3' = K!Keys /\ \A k \in K!Keys : p3'[k] = IF k = n THEN fresh ELSE p3[k]
    BY <1>0, <2>1, <2>4
  <2>6. K!NeverWiderThanItsMaker'
    BY <2>2 DEF KeysInvariant, K!NeverWiderThanItsMaker
  <2> QED
    BY <1>0, <2>2, <2>3, <2>4, <2>5, <2>6, KeysLead
<1>8. ASSUME NEW q \in Requests, K!RevokeWrites(q) PROVE KeysInvariant'
  <2>1. p3' = [p3 EXCEPT ![p4[q].key].revoked = TRUE]
    BY <1>8 DEF K!RevokeWrites
  <2>2. K!Done(q) /\ p2' = p2 /\ p9' = p9 /\ p10' = p10 /\ p11' = p11
    BY <1>8 DEF K!RevokeWrites
  <2>3. DOMAIN p3' = K!Keys
    BY <1>0, <2>1
  <2>4. \A k \in K!Keys : /\ DOMAIN p3'[k] = KeyFields /\ p3'[k].to = p3[k].to /\ p3'[k].from = p3[k].from
                          /\ p3'[k].issued = p3[k].issued
    BY <1>0, <2>1 DEF KeyFields
  <2>5. K!NeverWiderThanItsMaker'
    BY <2>2 DEF KeysInvariant, K!NeverWiderThanItsMaker
  <2> QED
    BY <1>0, <2>2, <2>3, <2>4, <2>5, KeysLead
<1>9. ASSUME NEW q \in Requests, K!Fails(q) PROVE KeysInvariant'
  <2>1. K!Done(q) /\ UNCHANGED <<p2, p3, p9, p10, p11>>
    BY <1>9 DEF K!Fails
  <2>2. K!NeverWiderThanItsMaker'
    BY <2>1 DEF KeysInvariant, K!NeverWiderThanItsMaker
  <2> QED
    BY <1>0, <2>1, <2>2, KeysLead
<1>10. ASSUME NEW k \in K!Keys, K!Authenticate(k) PROVE KeysInvariant'
  BY <1>1, <1>10 DEF K!Authenticate, K!Calls
<1>11. ASSUME NEW c \in Companies, NEW scope \in Scopes, K!Admit(c, scope) PROVE KeysInvariant'
  BY <1>1, <1>11 DEF K!Admit, K!Calls
<1>12. ASSUME K!Answer \/ K!Tick \/ \E c \in Companies : K!CompanyChanges(c) PROVE KeysInvariant'
  BY <1>1, <1>12 DEF K!Answer, K!Calls, K!Tick, K!CompanyChanges
<1>13. ASSUME NEW q \in Requests, NEW p \in People, K!Asks(q, p) PROVE KeysInvariant'
  BY <1>2, <1>3, <1>4, <1>5, <1>6, <1>13 DEF K!Asks
<1>14. ASSUME UNCHANGED K!vars PROVE KeysInvariant'
  BY <1>1, <1>14 DEF K!vars
<1> QED
  BY <1>7, <1>8, <1>9, <1>10, <1>11, <1>12, <1>13, <1>14, KeysWidened, KeysRotated DEF K!Next

LEMMA KeysHold == KeysInvariant => K!NeverWiderThanItsMaker /\ K!OneSuccessor
<1> SUFFICES ASSUME KeysInvariant, NEW k \in K!Keys \ p11
             PROVE  {j \in K!Keys : p3[j].from = k} = {p3[k].to} \ {K!None}
  BY DEF KeysInvariant, K!OneSuccessor
<1>1. p3[k].to \in K!Keys \cup {0} /\ \A j \in K!Keys : p3[j].from = k <=> p3[k].to = j
  BY DEF KeysInvariant
<1>2. 0 \notin K!Keys
  BY DEF K!Keys
<1> QED
  BY <1>1, <1>2 DEF K!None

\* What a rotation writes as the key's end is no later than the end it has read, and that is
\* the key's still, unless another rotation came first.
KeyEnding(q) ==
  LET r == p4[q] IN
  /\ r.op \in {"issue", "rotate"} => r.fresh \in Nat
  /\ r.op = "rotate" => /\ r.until \in Nat /\ r.seen \in Nat /\ r.until <= r.seen
                        /\ p3[r.key].to = 0 => p3[r.key].until = r.seen

KeysEnd ==
  /\ p6 \in Nat
  /\ \A k \in K!Keys : p3[k].until \in Nat
  /\ \A q \in Requests : KeyEnding(q)

\* What no step does to a key that was issued.
KeyStays(k) ==
  /\ p3[k].revoked => p3'[k].revoked
  /\ p3'[k].until <= p3[k].until \/ k \in p11'

LEMMA KeysEndStart == K!Init => KeysEnd
<1> SUFFICES ASSUME K!Init PROVE KeysEnd
  OBVIOUS
<1>1. p6 = 0 /\ \A k \in K!Keys : p3[k].until = 0
  BY DEF K!Init, K!NoKey
<1>2. \A q \in Requests : p4[q].op = "idle"
  BY DEF K!Init, K!Idle
<1> QED
  BY <1>1, <1>2 DEF KeysEnd, KeyEnding

\* The keys stand, and at most one request goes on with what fits them.
LEMMA KeysEndStand ==
  ASSUME KeysInvariant, KeysEnd, p3' = p3, p6' \in Nat, NEW q, \A o \in Requests : p4'[o] = p4[o] \/ (o = q /\ KeyEnding(q)')
  PROVE  KeysEnd' /\ \A k \in K!Keys : KeyStays(k)
<1>1. \A o \in Requests : KeyEnding(o)'
  BY DEF KeysEnd, KeyEnding
<1>2. \A k \in K!Keys : p3'[k].until \in Nat /\ p3'[k].until <= p3[k].until
  BY DEF KeysEnd
<1>3. \A k \in K!Keys : KeyStays(k)
  BY <1>2 DEF KeyStays
<1> QED
  BY <1>1, <1>2, <1>3 DEF KeysEnd

LEMMA KeysEndRead ==
  ASSUME KeysInvariant, KeysEnd, NEW q \in Requests, NEW what, K!Reads(q, what),
         what.op \in {"issue", "rotate"} => what.fresh \in Nat,
         what.op = "rotate" => what.until \in Nat /\ what.until <= what.seen /\ p3[what.key].until = what.seen
                               /\ what.key \in K!Keys
  PROVE  KeysEnd' /\ \A k \in K!Keys : KeyStays(k)
<1>1. p4' = [p4 EXCEPT ![q] = what] /\ p3' = p3 /\ p6' = p6 /\ DOMAIN p4 = Requests
  BY DEF K!Reads, KeysInvariant
<1>2. p4'[q] = what /\ \A o \in Requests \ {q} : p4'[o] = p4[o]
  BY <1>1
<1>3. KeyEnding(q)'
  BY <1>1, <1>2 DEF KeyEnding, KeysEnd
<1>4. p6' \in Nat
  BY <1>1 DEF KeysEnd
<1> QED
  BY <1>1, <1>2, <1>3, <1>4, KeysEndStand

\* A request writes and is done: no key that stays without a successor ends at another time.
LEMMA KeysEndWritten ==
  ASSUME KeysInvariant, KeysEnd, NEW q \in Requests, K!Done(q),
         \A k \in K!Keys : /\ p3'[k].until \in Nat
                           /\ p3[k].issued = TRUE /\ p3'[k].to = 0 => p3[k].to = 0 /\ p3'[k].until = p3[k].until
  PROVE  KeysEnd'
<1>1. p4' = [p4 EXCEPT ![q] = K!Idle] /\ p6' = p6 /\ DOMAIN p4 = Requests
  BY DEF K!Done, KeysInvariant
<1>2. p4'[q] = K!Idle /\ \A o \in Requests \ {q} : p4'[o] = p4[o]
  BY <1>1
<1>3. KeyEnding(q)'
  BY <1>2 DEF KeyEnding, K!Idle
<1>4. ASSUME NEW o \in Requests \ {q} PROVE KeyEnding(o)'
  <2>1. KeyEnding(o) /\ KeyRequest(o) /\ p4'[o] = p4[o]
    BY <1>2 DEF KeysEnd, KeysInvariant
  <2>2. p4[o].op = "rotate" => p4[o].key \in K!Keys /\ p3[p4[o].key].issued = TRUE
    BY <2>1 DEF KeyRequest
  <2> QED
    BY <2>1, <2>2 DEF KeyEnding
<1>5. p6' \in Nat
  BY <1>1 DEF KeysEnd
<1> QED
  BY <1>3, <1>4, <1>5 DEF KeysEnd

LEMMA KeysEndRotated ==
  ASSUME KeysInvariant, KeysEnd, NEW q \in Requests, K!RotateWrites(q)
  PROVE  KeysEnd' /\ \A k \in K!Keys : p3[k].issued => KeyStays(k)
<1>0. /\ DOMAIN p3 = K!Keys
      /\ \A j \in K!Keys : DOMAIN p3[j] = KeyFields /\ p3[j].to \in K!Keys \cup {0}
  BY DEF KeysInvariant
<1>1. PICK k : k = p4[q].key
  OBVIOUS
<1>2. k \in K!Keys /\ p3[k].issued = TRUE /\ p4[q].successor = 0 /\ p4[q].op = "rotate"
  BY <1>1 DEF K!RotateWrites, KeysInvariant, KeyRequest
<1>3. /\ p4[q].until \in Nat /\ p4[q].seen \in Nat /\ p4[q].until <= p4[q].seen /\ p4[q].fresh \in Nat
      /\ p3[k].to = 0 => p3[k].until = p4[q].seen
  BY <1>1, <1>2 DEF KeysEnd, KeyEnding
<1>4. PICK end : end = IF p4[q].until # p4[q].seen THEN p4[q].until ELSE p3[k].until
  OBVIOUS
<1>5. PICK fresh : fresh = K!Fresh(p4[q].fresh, k)
  OBVIOUS
<1>6. PICK n \in K!NextKey :
        p3' = [p3 EXCEPT ![k].to = n, ![k].until = IF p4[q].until # p4[q].seen THEN p4[q].until ELSE @, ![n] = fresh]
  BY <1>1, <1>5 DEF K!RotateWrites
<1>7. K!Done(q) /\ p11' = IF p3[k].to # p4[q].successor THEN p11 \cup {k} ELSE p11
  BY <1>1 DEF K!RotateWrites
<1>8. n \in K!Keys /\ ~p3[n].issued /\ n # k /\ n # 0
  BY <1>2, <1>6 DEF K!NextKey, K!Keys
<1>9. fresh.until = p4[q].fresh
  BY <1>5 DEF K!Fresh, K!NoKey
<1>10. p3'[n] = fresh /\ \A j \in K!Keys \ {k, n} : p3'[j] = p3[j]
  BY <1>0, <1>2, <1>6, <1>8
<1>11. p3'[k].to = n /\ p3'[k].until = end /\ p3'[k].revoked = p3[k].revoked
  <2>1. DOMAIN p3[k] = KeyFields
    BY <1>0, <1>2
  <2>2. p3'[k] = [p3[k] EXCEPT !.to = n, !.until = end]
    BY <1>0, <1>2, <1>4, <1>6, <1>8, <2>1 DEF KeyFields
  <2> QED
    BY <2>1, <2>2 DEF KeyFields
<1>12. p3[k].until \in Nat /\ end \in Nat
  BY <1>2, <1>3, <1>4 DEF KeysEnd
<1>13. end <= p3[k].until \/ k \in p11'
  <2>1. CASE p3[k].to = 0
    BY <1>3, <1>4, <1>12, <2>1
  <2>2. CASE p3[k].to # 0
    BY <1>2, <1>7, <2>2
  <2> QED
    BY <2>1, <2>2
<1>14. \A j \in K!Keys : /\ p3'[j].until \in Nat
                         /\ p3[j].issued = TRUE /\ p3'[j].to = 0 => p3[j].to = 0 /\ p3'[j].until = p3[j].until
  BY <1>3, <1>8, <1>9, <1>10, <1>11, <1>12 DEF KeysEnd
<1>15. KeysEnd'
  BY <1>7, <1>14, KeysEndWritten
<1>16. ASSUME NEW j \in K!Keys, p3[j].issued PROVE KeyStays(j)
  <2>1. CASE j = k
    BY <1>11, <1>13, <2>1 DEF KeyStays
  <2>2. CASE j # k
    <3>1. p3'[j] = p3[j] /\ p3[j].until \in Nat
      BY <1>8, <1>10, <1>16, <2>2 DEF KeysEnd
    <3>2. p3'[j].until <= p3[j].until
      BY <3>1
    <3> QED
      BY <3>1, <3>2 DEF KeyStays
  <2> QED
    BY <2>1, <2>2
<1> QED
  BY <1>15, <1>16

LEMMA KeysEndStep ==
  ASSUME KeysInvariant, KeysEnd, [K!Next]_K!vars
  PROVE  KeysEnd' /\ p6' >= p6 /\ \A k \in K!Keys : p3[k].issued => KeyStays(k)
<1>0. /\ DOMAIN p3 = K!Keys /\ DOMAIN p4 = Requests /\ p6 \in Nat
      /\ \A k \in K!Keys : DOMAIN p3[k] = KeyFields /\ p3[k].until \in Nat
  BY DEF KeysInvariant, KeysEnd
<1>a. Lives \subseteq Nat /\ Graces \subseteq Nat
  BY AccessAssumption DEF K!KeysAssumption
<1> DEFINE Goal == KeysEnd' /\ p6' >= p6 /\ \A k \in K!Keys : p3[k].issued => KeyStays(k)
<1>1. ASSUME UNCHANGED <<p3, p4>>, p6' = p6 \/ p6' = p6 + 1 PROVE Goal
  <2>1. p6' \in Nat /\ p6' >= p6
    BY <1>0, <1>1
  <2> QED
    BY <1>1, <2>1, KeysEndStand
<1>2. ASSUME NEW q \in Requests, NEW what, K!Reads(q, what), what.op \notin {"issue", "rotate"} PROVE Goal
  <2>1. p6' >= p6
    BY <1>0, <1>2 DEF K!Reads
  <2> QED
    BY <1>2, <2>1, KeysEndRead
<1>3. ASSUME NEW q \in Requests, NEW p \in People,
             K!CreateReads(q, p) \/ K!UpdateReads(q, p) \/ \E k \in K!Keys : K!RevokeReads(q, p, k)
      PROVE  Goal
  <2>1. CASE K!CreateReads(q, p)
    BY <1>2, <2>1 DEF K!CreateReads
  <2>2. CASE K!UpdateReads(q, p)
    BY <1>2, <2>2 DEF K!UpdateReads
  <2>3. CASE \E k \in K!Keys : K!RevokeReads(q, p, k)
    BY <1>2, <2>3 DEF K!RevokeReads
  <2> QED
    BY <1>3, <2>1, <2>2, <2>3
<1>4. ASSUME NEW q \in Requests, NEW p \in People, K!IssueReads(q, p) PROVE Goal
  <2>1. PICK life \in Lives : K!Reads(q, [op |-> "issue", fresh |-> p6 + life])
    BY <1>4 DEF K!IssueReads
  <2>2. p6 + life \in Nat /\ p6' >= p6
    BY <1>0, <1>a, <2>1 DEF K!Reads
  <2> QED
    BY <2>1, <2>2, KeysEndRead
<1>5. ASSUME NEW q \in Requests, NEW p \in People, NEW k \in K!Keys, K!RotateReads(q, p, k) PROVE Goal
  <2>1. PICK life \in Lives, grace \in Graces :
          K!Reads(q, [op |-> "rotate", key |-> k, fresh |-> p6 + life, successor |-> p3[k].to,
                      seen |-> p3[k].until, until |-> K!Ending(p3[k].until, p6 + grace)])
    BY <1>5 DEF K!RotateReads
  <2>2. PICK until : until = K!Ending(p3[k].until, p6 + grace)
    OBVIOUS
  <2>3. until \in Nat /\ until <= p3[k].until /\ p6 + life \in Nat
    BY <1>0, <1>a, <2>2 DEF K!Ending, K!Earlier
  <2>4. PICK what : what = [op |-> "rotate", key |-> k, fresh |-> p6 + life, successor |-> p3[k].to,
                            seen |-> p3[k].until, until |-> until]
    OBVIOUS
  <2>5. /\ what.op = "rotate" /\ what.key = k /\ what.fresh = p6 + life /\ what.seen = p3[k].until
        /\ what.until = until
    BY <2>4
  <2>6. K!Reads(q, what)
    BY <2>1, <2>2, <2>4
  <2>7. p6' >= p6
    BY <1>0, <2>6 DEF K!Reads
  <2> QED
    BY <2>3, <2>5, <2>6, <2>7, KeysEndRead
<1>6. ASSUME NEW q \in Requests, K!IssueWrites(q) PROVE Goal
  <2>1. PICK fresh : fresh = K!Fresh(p4[q].fresh, K!None)
    OBVIOUS
  <2>2. PICK n \in K!NextKey : p3' = [p3 EXCEPT ![n] = fresh]
    BY <1>6, <2>1 DEF K!IssueWrites
  <2>3. K!Done(q) /\ p6' >= p6 /\ p4[q].fresh \in Nat
    BY <1>0, <1>6 DEF K!IssueWrites, K!Done, KeysEnd, KeyEnding
  <2>4. n \in K!Keys /\ ~p3[n].issued
    BY <2>2 DEF K!NextKey
  <2>5. fresh.until = p4[q].fresh
    BY <2>1 DEF K!Fresh, K!NoKey
  <2>6. p3'[n] = fresh /\ \A k \in K!Keys \ {n} : p3'[k] = p3[k]
    BY <1>0, <2>2, <2>4
  <2>7. KeysEnd'
    BY <1>0, <2>3, <2>4, <2>5, <2>6, KeysEndWritten
  <2>8. ASSUME NEW k \in K!Keys, p3[k].issued PROVE KeyStays(k)
    <3>1. p3'[k] = p3[k] /\ p3'[k].until <= p3[k].until
      BY <1>0, <2>4, <2>6, <2>8
    <3> QED
      BY <3>1 DEF KeyStays
  <2> QED
    BY <2>3, <2>7, <2>8
<1>7. ASSUME NEW q \in Requests, K!RotateWrites(q) PROVE Goal
  <2>1. p6' >= p6
    BY <1>0, <1>7 DEF K!RotateWrites, K!Done
  <2> QED
    BY <1>7, <2>1, KeysEndRotated
<1>8. ASSUME NEW q \in Requests, K!RevokeWrites(q) PROVE Goal
  <2>1. K!Done(q) /\ p6' >= p6
    BY <1>0, <1>8 DEF K!RevokeWrites, K!Done
  <2>2. \A k \in K!Keys : /\ p3'[k].until = p3[k].until /\ p3'[k].to = p3[k].to
                          /\ p3[k].revoked => p3'[k].revoked
    BY <1>0, <1>8 DEF K!RevokeWrites, KeyFields
  <2>3. KeysEnd'
    BY <1>0, <2>1, <2>2, KeysEndWritten
  <2>4. \A k \in K!Keys : KeyStays(k)
    BY <1>0, <2>2 DEF KeyStays
  <2> QED
    BY <2>1, <2>3, <2>4
<1>9. ASSUME NEW q \in Requests, K!CreateWrites(q) \/ K!UpdateWrites(q) \/ K!Fails(q) PROVE Goal
  <2>1. K!Done(q) /\ p3' = p3 /\ p6' >= p6
    BY <1>0, <1>9 DEF K!CreateWrites, K!UpdateWrites, K!Fails, K!Done
  <2>2. KeysEnd'
    BY <1>0, <2>1, KeysEndWritten
  <2>3. \A k \in K!Keys : KeyStays(k)
    BY <1>0, <2>1 DEF KeyStays
  <2> QED
    BY <2>1, <2>2, <2>3
<1>10. CASE \/ \E k \in K!Keys : K!Authenticate(k)
            \/ \E c \in Companies, scope \in Scopes : K!Admit(c, scope)
            \/ K!Answer \/ K!Tick \/ (\E c \in Companies : K!CompanyChanges(c)) \/ UNCHANGED K!vars
  <2>1. UNCHANGED <<p3, p4>> /\ (p6' = p6 \/ p6' = p6 + 1)
    BY <1>10 DEF K!Authenticate, K!Admit, K!Answer, K!Calls, K!Tick, K!CompanyChanges, K!vars
  <2> QED
    BY <1>1, <2>1
<1>11. ASSUME NEW q \in Requests, NEW p \in People, K!Asks(q, p) PROVE Goal
  BY <1>3, <1>4, <1>5, <1>11 DEF K!Asks
<1> QED
  BY <1>6, <1>7, <1>8, <1>9, <1>10, <1>11 DEF K!Next

\* A key that ended stays ended, and a call works where its account's environment is.
LEMMA KeysEndForGood ==
  ASSUME KeysInvariant, KeysEnd, [K!Next]_K!vars
  PROVE  K!EndedKeysStayEnded /\ K!CallsStayInTheirEnvironment
<1>1. K!EndedKeysStayEnded
  <2> SUFFICES ASSUME NEW k \in K!Keys, p3[k].issued, K!Ended(k) PROVE K!Ended(k)' \/ k \in p11'
    BY DEF K!EndedKeysStayEnded
  <2>1. KeyStays(k) /\ p6' >= p6 /\ KeysEnd'
    BY KeysEndStep
  <2>2. p3[k].until \in Nat /\ p3'[k].until \in Nat /\ p6 \in Nat /\ p6' \in Nat
    BY <2>1 DEF KeysEnd
  <2> QED
    BY <2>1, <2>2 DEF K!Ended, KeyStays
<1>2. K!CallsStayInTheirEnvironment
  <2> SUFFICES ASSUME p5.pc = "known", p5'.pc = "working" PROVE p1[p5'.company].env = p2.env
    BY DEF K!CallsStayInTheirEnvironment
  <2>1. p5' # p5
    OBVIOUS
  <2>2. CASE \E c \in Companies, scope \in Scopes : K!Admit(c, scope)
    BY <2>2 DEF K!Admit, K!MayEnter, K!Calls
  <2>3. CASE (\E k \in K!Keys : K!Authenticate(k)) \/ K!Answer
    <3>1. p5'.pc # "working"
      BY <2>3 DEF K!Authenticate, K!Answer, K!Calls, K!NoCall
    <3> QED
      BY <3>1
  <2>4. CASE K!Tick \/ (\E c \in Companies : K!CompanyChanges(c)) \/ UNCHANGED K!vars
    BY <2>1, <2>4 DEF K!Tick, K!CompanyChanges, K!vars
  <2>5. ASSUME NEW q \in Requests, NEW p \in People, K!Asks(q, p) PROVE p5' = p5
    BY <2>5 DEF K!Asks, K!CreateReads, K!UpdateReads, K!IssueReads, K!RotateReads, K!RevokeReads, K!Reads
  <2>6. ASSUME NEW q \in Requests, \/ K!CreateWrites(q) \/ K!UpdateWrites(q) \/ K!IssueWrites(q) \/ K!RotateWrites(q)
                                   \/ K!RevokeWrites(q) \/ K!Fails(q)
        PROVE  p5' = p5
    BY <2>6 DEF K!CreateWrites, K!UpdateWrites, K!IssueWrites, K!RotateWrites, K!RevokeWrites, K!Fails, K!Done
  <2> QED
    BY <2>1, <2>2, <2>3, <2>4, <2>5, <2>6 DEF K!Next
<1> QED
  BY <1>1, <1>2

--------------------------------------------------------------------------------
(* Definitions: p1 is the workflow's row, p2 who last saved it, p3 what    *)
(* was put in force, p4 whether a release was the last to touch that, p6   *)
(* the requests, p8 the kinds of two that overlapped.                      *)

FlowFields == {"status", "def", "act", "version", "changes", "by", "pubBy", "due"}
RequestFields == {"op", "who", "saw", "new", "author", "alone", "over"}

FlowSaves == {"edit", "release"}
FlowWrites == {"edit", "publish", "release"}

\* What each kind of request makes of the row it read.
Makes(op, who, saw, new) ==
  /\ DOMAIN new = FlowFields /\ saw.version \in Nat /\ new.due \in BOOLEAN
  /\ op \in {"edit", "publish", "switch", "release"}
  /\ op = "edit" => /\ new.act = saw.act /\ new.version = saw.version /\ new.pubBy = saw.pubBy
                    /\ new.changes = TRUE /\ new.by = who /\ new.status = saw.status /\ new.due = saw.due
  /\ op = "publish" => /\ new.act = saw.def /\ new.version = saw.version + 1 /\ new.pubBy = who
                       /\ new.def = saw.def /\ new.by = saw.by /\ new.due = W!Scheduled(new.act)
  /\ op = "switch" => /\ new.act = saw.act /\ new.version = saw.version /\ new.pubBy = saw.pubBy
                      /\ new.def = saw.def /\ new.changes = saw.changes /\ new.by = saw.by
                      /\ new.status = "active" => new.due = W!Scheduled(new.act)
  /\ op = "release" => /\ new.act = new.def /\ new.version = saw.version + 1 /\ new.pubBy = who /\ new.by = who

\* What of the row is still as it was read, by what was committed since.
StillAsRead(over, saw) ==
  /\ over \cap W!Puts = {} => p1.act = saw.act /\ p1.version = saw.version /\ p1.pubBy = saw.pubBy
  /\ over \cap FlowSaves = {} => p1.by = saw.by
  /\ over \cap FlowWrites = {} => p1.def = saw.def /\ p1.changes = saw.changes
  /\ over = {} => p1.status = saw.status /\ p1.due = saw.due

Pending(q) ==
  /\ DOMAIN q = RequestFields
  /\ Makes(q.op, q.who, q.saw, q.new)
  /\ StillAsRead(q.over, q.saw)
  /\ q.op = "publish" /\ q.alone => (W!Apart(FlowSaves) => q.author # q.who)

\* The row's types, as far as they matter; its number is the highest given; and it says who
\* last saved it.
Row ==
  /\ DOMAIN p1 = FlowFields /\ p1.version \in Nat /\ p1.due \in BOOLEAN
  /\ \A p \in p3 : p.version \in Nat
  /\ W!Apart(W!Puts) => \A p \in p3 : p.version <= p1.version
  /\ W!Apart(FlowSaves) => p1.by = p2

FlowProperties == W!InForceIsOnePublication /\ W!PublishedByAnother /\ W!ChangesAreKnown /\ W!DueAsPublished

FlowsInvariant ==
  /\ Row /\ FlowProperties
  /\ DOMAIN p6 = Requests
  /\ \A r \in Requests : p6[r] = W!Idle \/ Pending(p6[r])

LEMMA FlowsStart == W!Init => FlowsInvariant
<1> SUFFICES ASSUME W!Init PROVE FlowsInvariant
  OBVIOUS
<1>1. DOMAIN p6 = Requests /\ \A r \in Requests : p6[r] = W!Idle
  BY DEF W!Init
<1>2. PICK who \in People, d \in Definitions :
        /\ p2 = who
        /\ \/ p1 = W!Drafted(who, d) /\ p3 = {} /\ p4 = FALSE
           \/ /\ p1 = W!Arrived(who, d) /\ p4 = TRUE
              /\ p3 = {[op |-> "release", version |-> 1, def |-> d, author |-> who, pub |-> who, alone |-> FALSE,
                        was |-> [act |-> W!NoDefinition, status |-> "draft"]]}
  BY DEF W!Init
<1>3. CASE p1 = W!Drafted(who, d) /\ p3 = {} /\ p4 = FALSE
  <2>1. /\ DOMAIN p1 = FlowFields /\ p1.version = 0 /\ p1.due = FALSE /\ p1.by = who
        /\ p1.changes = TRUE /\ p1.act = W!NoDefinition /\ p1.status = "draft"
    BY <1>3 DEF W!Drafted, FlowFields
  <2>2. Row
    <3>1. p1.version \in Nat /\ p1.due \in BOOLEAN /\ p1.by = p2
      <4>1. p1.version \in Nat
        BY <2>1
      <4>2. p1.due \in BOOLEAN
        BY <2>1
      <4>3. p2 = who
        BY <1>2, Zenon
      <4> QED
        BY <2>1, <4>1, <4>2, <4>3, Zenon
    <3>2. \A p \in p3 : p.version \in Nat /\ p.version <= p1.version
      BY <1>3
    <3> QED
      BY <2>1, <3>1, <3>2, Zenon DEF Row
  <2>3. FlowProperties
    BY <1>3, <2>1
       DEF FlowProperties, W!InForceIsOnePublication, W!PublishedByAnother, W!ChangesAreKnown, W!DueAsPublished
  <2> QED
    BY <1>1, <2>2, <2>3 DEF FlowsInvariant
<1>4. CASE /\ p1 = W!Arrived(who, d) /\ p4 = TRUE
           /\ p3 = {[op |-> "release", version |-> 1, def |-> d, author |-> who, pub |-> who, alone |-> FALSE,
                     was |-> [act |-> W!NoDefinition, status |-> "draft"]]}
  <2>1. /\ DOMAIN p1 = FlowFields /\ p1.version = 1 /\ p1.due = FALSE /\ p1.by = who
        /\ p1.act = d /\ p1.def = d /\ p1.pubBy = who
    BY <1>4 DEF W!Arrived, FlowFields
  <2>2. PICK one : p3 = {one} /\ one.op = "release" /\ one.version = 1 /\ one.def = d /\ one.pub = who
    <3> DEFINE one == [op |-> "release", version |-> 1, def |-> d, author |-> who, pub |-> who, alone |-> FALSE,
                       was |-> [act |-> W!NoDefinition, status |-> "draft"]]
    <3>1. one.op = "release" /\ one.version = 1 /\ one.def = d /\ one.pub = who
      OBVIOUS
    <3>2. p3 = {one}
      BY <1>4
    <3> HIDE DEF one
    <3> QED
      BY <3>1, <3>2
  <2>3. Row
    <3>1. p1.version \in Nat /\ p1.due \in BOOLEAN /\ p1.by = p2
      <4>1. p1.version \in Nat
        BY <2>1
      <4>2. p1.due \in BOOLEAN
        BY <2>1
      <4>3. p2 = who
        BY <1>2, Zenon
      <4> QED
        BY <2>1, <4>1, <4>2, <4>3, Zenon
    <3>2. \A p \in p3 : p.version \in Nat /\ p.version <= p1.version
      BY <2>1, <2>2
    <3> QED
      BY <2>1, <3>1, <3>2, Zenon DEF Row
  <2>4. FlowProperties
    BY <1>4, <2>1, <2>2
       DEF FlowProperties, W!InForceIsOnePublication, W!PublishedByAnother, W!ChangesAreKnown, W!DueAsPublished
  <2> QED
    BY <1>1, <2>3, <2>4 DEF FlowsInvariant
<1> QED
  BY <1>2, <1>3, <1>4

\* The row and what became of it stay as they are.
LEMMA FlowsStay ==
  ASSUME FlowsInvariant, UNCHANGED <<p1, p2, p3, p4, p8>>
  PROVE  /\ Row' /\ FlowProperties'
         /\ \A q : Pending(q) => Pending(q)'
<1>1. p1' = p1 /\ p2' = p2 /\ p3' = p3 /\ p4' = p4 /\ p8' = p8
  OBVIOUS
<1>2. Row'
  BY <1>1 DEF FlowsInvariant, Row, W!Apart
<1>3. W!InForceIsOnePublication' /\ W!PublishedByAnother'
  BY <1>1 DEF FlowsInvariant, FlowProperties, W!InForceIsOnePublication, W!PublishedByAnother, W!Apart
<1>4. W!ChangesAreKnown' /\ W!DueAsPublished'
  BY <1>1 DEF FlowsInvariant, FlowProperties, W!ChangesAreKnown, W!DueAsPublished, W!Apart, W!Scheduled
<1>5. ASSUME NEW q, Pending(q) PROVE Pending(q)'
  BY <1>1, <1>5 DEF Pending, StillAsRead, W!Apart
<1> QED
  BY <1>2, <1>3, <1>4, <1>5 DEF FlowProperties

LEMMA FlowsBegin ==
  ASSUME FlowsInvariant, NEW r \in Requests, NEW op, NEW who, NEW new, NEW alone,
         W!Begins(r, op, who, new, alone), Makes(op, who, p1, new),
         op = "publish" /\ alone => p1.by # who
  PROVE  FlowsInvariant'
<1> DEFINE q == [op |-> op, who |-> who, saw |-> p1, new |-> new, author |-> p2, alone |-> alone, over |-> {}]
<1>1. p6' = [p6 EXCEPT ![r] = q] /\ UNCHANGED <<p1, p2, p3, p4, p8>>
  BY DEF W!Begins
<1>2. /\ DOMAIN q = RequestFields /\ q.op = op /\ q.who = who /\ q.saw = p1 /\ q.new = new
      /\ q.author = p2 /\ q.alone = alone /\ q.over = {}
  BY DEF RequestFields
<1> HIDE DEF q
<1>3. Pending(q)
  <2>1. Makes(q.op, q.who, q.saw, q.new)
    BY <1>2
  <2>2. StillAsRead(q.over, q.saw)
    BY <1>2 DEF StillAsRead
  <2>3. q.op = "publish" /\ q.alone => (W!Apart(FlowSaves) => q.author # q.who)
    BY <1>2 DEF FlowsInvariant, Row
  <2> QED
    BY <1>2, <2>1, <2>2, <2>3 DEF Pending
<1>4. DOMAIN p6' = Requests /\ p6'[r] = q /\ \A p \in Requests \ {r} : p6'[p] = p6[p]
  BY <1>1 DEF FlowsInvariant
<1>5. Row' /\ FlowProperties' /\ \A p : Pending(p) => Pending(p)'
  BY <1>1, FlowsStay
<1>6. \A p \in Requests : p6'[p] = W!Idle \/ Pending(p6[p])'
  BY <1>3, <1>4, <1>5 DEF FlowsInvariant
<1> QED
  BY <1>4, <1>5, <1>6 DEF FlowsInvariant

\* A request that was pending is so with one more committed, which changed of the row what
\* its kind does.
LEMMA FlowsMove ==
  ASSUME NEW q, Pending(q), NEW op, NEW next, DOMAIN next = RequestFields,
         next.op = q.op /\ next.who = q.who /\ next.saw = q.saw /\ next.new = q.new
           /\ next.author = q.author /\ next.alone = q.alone /\ next.over = q.over \cup {op},
         op \notin W!Puts => p1'.act = p1.act /\ p1'.version = p1.version /\ p1'.pubBy = p1.pubBy,
         op \notin FlowSaves => p1'.by = p1.by,
         op \notin FlowWrites => p1'.def = p1.def /\ p1'.changes = p1.changes,
         W!Apart(FlowSaves)' => W!Apart(FlowSaves)
  PROVE  Pending(next)'
<1>1. Makes(next.op, next.who, next.saw, next.new)
  BY DEF Pending
<1>2. ASSUME NEW kinds, next.over \cap kinds = {} PROVE q.over \cap kinds = {} /\ op \notin kinds
  BY <1>2
<1>3. next.over # {}
  OBVIOUS
<1>4. StillAsRead(next.over, next.saw)'
  BY <1>2, <1>3 DEF Pending, StillAsRead
<1>5. next.op = "publish" /\ next.alone => (W!Apart(FlowSaves)' => next.author # next.who)
  BY DEF Pending
<1> QED
  BY <1>1, <1>4, <1>5 DEF Pending, Makes, W!Scheduled

\* What a commit makes of the row, and what it says of the requests that overlapped.
LEMMA FlowsCommitted ==
  ASSUME FlowsInvariant, NEW r \in Requests, W!Commit(r)
  PROVE  LET q == p6[r] IN
         /\ Pending(q) /\ DOMAIN p1' = FlowFields
         /\ p1'.status = (IF q.new.status # q.saw.status THEN q.new.status ELSE p1.status)
         /\ p1'.def = (IF q.new.def # q.saw.def THEN q.new.def ELSE p1.def)
         /\ p1'.act = (IF q.new.act # q.saw.act THEN q.new.act ELSE p1.act)
         /\ p1'.version = (IF q.new.version # q.saw.version THEN q.new.version ELSE p1.version)
         /\ p1'.changes = (IF q.new.changes # q.saw.changes THEN q.new.changes ELSE p1.changes)
         /\ p1'.by = (IF q.new.by # q.saw.by THEN q.new.by ELSE p1.by)
         /\ p1'.pubBy = (IF q.new.pubBy # q.saw.pubBy THEN q.new.pubBy ELSE p1.pubBy)
         /\ p1'.due = (IF q.new.due # q.saw.due THEN q.new.due ELSE p1.due)
         /\ \A kinds : W!Apart(kinds)' => W!Apart(kinds) /\ (q.op \in kinds => q.over \cap kinds = {})
         /\ p8' = {} => p8 = {} /\ q.over = {}
<1> DEFINE q == p6[r]
<1>1. Pending(q)
  BY DEF FlowsInvariant, W!Commit
<1>2. p1' = [c \in DOMAIN p1 |-> IF q.new[c] # q.saw[c] THEN q.new[c] ELSE p1[c]]
  BY DEF W!Commit
<1>3. p8' = p8 \cup {{q.op, o} : o \in q.over}
  BY DEF W!Commit
<1>4. DOMAIN p1 = FlowFields
  BY DEF FlowsInvariant, Row
<1> HIDE DEF q
<1>5. ASSUME NEW kinds, W!Apart(kinds)'
      PROVE  W!Apart(kinds) /\ (q.op \in kinds => q.over \cap kinds = {})
  <2>1. \A pair \in p8' : ~(pair \subseteq kinds)
    BY <1>5 DEF W!Apart
  <2>2. W!Apart(kinds)
    BY <1>3, <2>1 DEF W!Apart
  <2>3. ASSUME NEW o \in q.over PROVE ~({q.op, o} \subseteq kinds)
    <3>1. {q.op, o} \in p8'
      BY <1>3
    <3> QED
      BY <2>1, <3>1
  <2> QED
    BY <2>2, <2>3
<1>6. p8' = {} => p8 = {} /\ q.over = {}
  <2>1. \A o \in q.over : {q.op, o} \in p8'
    BY <1>3
  <2> QED
    BY <1>3, <2>1
<1>7. /\ DOMAIN p1' = FlowFields
      /\ \A c \in FlowFields : p1'[c] = IF q.new[c] # q.saw[c] THEN q.new[c] ELSE p1[c]
  BY <1>2, <1>4
<1> QED
  BY <1>1, <1>5, <1>6, <1>7 DEF q, FlowFields

\* While a request of its kind was the only one under way, a commit leaves of the row what
\* the request made of it.
LEMMA FlowsWritten ==
  ASSUME FlowsInvariant, NEW r \in Requests, W!Commit(r)
  PROVE  LET q == p6[r] IN
         /\ q.op \notin W!Puts => p1'.act = p1.act /\ p1'.version = p1.version /\ p1'.pubBy = p1.pubBy
         /\ q.op \notin FlowSaves => p1'.by = p1.by
         /\ q.op \notin FlowWrites => p1'.def = p1.def /\ p1'.changes = p1.changes
         /\ q.op \in W!Puts /\ q.over \cap W!Puts = {}
              => /\ p1'.act = q.new.act /\ p1'.version = q.new.version /\ p1'.pubBy = q.who
                 /\ q.new.version = p1.version + 1
         /\ q.op \in FlowSaves /\ q.over \cap FlowSaves = {} => p1'.by = q.who
         /\ q.op \in FlowWrites /\ q.over \cap FlowWrites = {}
              => p1'.changes = TRUE \/ p1'.def = p1'.act
         /\ q.over = {} => /\ p1'.status = q.new.status /\ p1'.due = q.new.due /\ p1'.act = q.new.act
                           /\ p1.status = q.saw.status /\ p1.due = q.saw.due /\ p1.act = q.saw.act
<1> DEFINE q == p6[r]
<1>0. /\ Pending(q)
      /\ p1'.status = (IF q.new.status # q.saw.status THEN q.new.status ELSE p1.status)
      /\ p1'.def = (IF q.new.def # q.saw.def THEN q.new.def ELSE p1.def)
      /\ p1'.act = (IF q.new.act # q.saw.act THEN q.new.act ELSE p1.act)
      /\ p1'.version = (IF q.new.version # q.saw.version THEN q.new.version ELSE p1.version)
      /\ p1'.changes = (IF q.new.changes # q.saw.changes THEN q.new.changes ELSE p1.changes)
      /\ p1'.by = (IF q.new.by # q.saw.by THEN q.new.by ELSE p1.by)
      /\ p1'.pubBy = (IF q.new.pubBy # q.saw.pubBy THEN q.new.pubBy ELSE p1.pubBy)
      /\ p1'.due = (IF q.new.due # q.saw.due THEN q.new.due ELSE p1.due)
  BY FlowsCommitted
<1> HIDE DEF q
<1>1. /\ Makes(q.op, q.who, q.saw, q.new) /\ StillAsRead(q.over, q.saw)
  BY <1>0 DEF Pending
<1>2. /\ q.op \notin W!Puts => q.new.act = q.saw.act /\ q.new.version = q.saw.version /\ q.new.pubBy = q.saw.pubBy
      /\ q.op \in W!Puts => q.new.version = q.saw.version + 1 /\ q.new.pubBy = q.who /\ q.saw.version \in Nat
      /\ q.op \notin FlowSaves => q.new.by = q.saw.by
      /\ q.op \in FlowSaves => q.new.by = q.who
      /\ q.op \notin FlowWrites => q.new.def = q.saw.def /\ q.new.changes = q.saw.changes
      /\ q.op = "edit" => q.new.changes = TRUE
      /\ q.op = "publish" => q.new.act = q.saw.def /\ q.new.def = q.saw.def
      /\ q.op = "release" => q.new.act = q.new.def
      /\ q.op \in FlowWrites => q.op \in {"edit", "publish", "release"}
  BY <1>1, Zenon DEF Makes, W!Puts, FlowSaves, FlowWrites
<1>3. q.op \notin W!Puts => p1'.act = p1.act /\ p1'.version = p1.version /\ p1'.pubBy = p1.pubBy
  BY <1>0, <1>2, Zenon
<1>4. q.op \notin FlowSaves => p1'.by = p1.by
  BY <1>0, <1>2, Zenon
<1>5. q.op \notin FlowWrites => p1'.def = p1.def /\ p1'.changes = p1.changes
  BY <1>0, <1>2, Zenon
<1>6. ASSUME q.op \in W!Puts, q.over \cap W!Puts = {}
      PROVE  /\ p1'.act = q.new.act /\ p1'.version = q.new.version /\ p1'.pubBy = q.who
             /\ q.new.version = p1.version + 1
  <2>1. p1.act = q.saw.act /\ p1.version = q.saw.version /\ p1.pubBy = q.saw.pubBy
    BY <1>1, <1>6 DEF StillAsRead
  <2> QED
    BY <1>0, <1>2, <1>6, <2>1
<1>7. ASSUME q.op \in FlowSaves, q.over \cap FlowSaves = {} PROVE p1'.by = q.who
  <2>1. p1.by = q.saw.by
    BY <1>1, <1>7 DEF StillAsRead
  <2> QED
    BY <1>0, <1>2, <1>7, <2>1
<1>8. ASSUME q.op \in FlowWrites, q.over \cap FlowWrites = {}
      PROVE  p1'.changes = TRUE \/ p1'.def = p1'.act
  <2>1. q.over \cap W!Puts = {}
    BY <1>8 DEF FlowWrites, W!Puts
  <2>2. p1.act = q.saw.act /\ p1.def = q.saw.def /\ p1.changes = q.saw.changes
    BY <1>1, <1>8, <2>1 DEF StillAsRead
  <2>3. p1'.def = q.new.def /\ p1'.act = q.new.act /\ p1'.changes = q.new.changes
    BY <1>0, <2>2
  <2> QED
    BY <1>2, <1>8, <2>3
<1>9. ASSUME q.over = {}
      PROVE  /\ p1'.status = q.new.status /\ p1'.due = q.new.due /\ p1'.act = q.new.act
             /\ p1.status = q.saw.status /\ p1.due = q.saw.due /\ p1.act = q.saw.act
  <2>1. p1.status = q.saw.status /\ p1.due = q.saw.due /\ p1.act = q.saw.act
    BY <1>1, <1>9 DEF StillAsRead
  <2> QED
    BY <1>0, <2>1
<1> QED
  BY <1>3, <1>4, <1>5, <1>6, <1>7, <1>8, <1>9 DEF q

LEMMA FlowsCommit ==
  ASSUME FlowsInvariant, NEW r \in Requests, W!Commit(r)
  PROVE  FlowsInvariant'
<1> DEFINE q == p6[r]
           put == [op |-> q.op, version |-> q.new.version, def |-> q.new.act, author |-> q.author, pub |-> q.who,
                   alone |-> q.alone, was |-> [act |-> q.saw.act, status |-> q.saw.status]]
<1>1. /\ Pending(q) /\ DOMAIN p1' = FlowFields
      /\ p1'.version = (IF q.new.version # q.saw.version THEN q.new.version ELSE p1.version)
      /\ p1'.due = (IF q.new.due # q.saw.due THEN q.new.due ELSE p1.due)
      /\ \A kinds : W!Apart(kinds)' => W!Apart(kinds) /\ (q.op \in kinds => q.over \cap kinds = {})
      /\ p8' = {} => p8 = {} /\ q.over = {}
  BY FlowsCommitted
<1>2. /\ q.op \notin W!Puts => p1'.act = p1.act /\ p1'.version = p1.version /\ p1'.pubBy = p1.pubBy
      /\ q.op \notin FlowSaves => p1'.by = p1.by
      /\ q.op \notin FlowWrites => p1'.def = p1.def /\ p1'.changes = p1.changes
      /\ q.op \in W!Puts /\ q.over \cap W!Puts = {}
           => /\ p1'.act = q.new.act /\ p1'.version = q.new.version /\ p1'.pubBy = q.who
              /\ q.new.version = p1.version + 1
      /\ q.op \in FlowSaves /\ q.over \cap FlowSaves = {} => p1'.by = q.who
      /\ q.op \in FlowWrites /\ q.over \cap FlowWrites = {}
           => p1'.changes = TRUE \/ p1'.def = p1'.act
      /\ q.over = {} => /\ p1'.status = q.new.status /\ p1'.due = q.new.due /\ p1'.act = q.new.act
                        /\ p1.status = q.saw.status /\ p1.due = q.saw.due /\ p1.act = q.saw.act
  BY FlowsWritten
<1>3. /\ p2' = (IF q.op \in FlowSaves THEN q.who ELSE p2)
      /\ p3' = (IF q.op \in W!Puts THEN p3 \cup {put} ELSE p3)
      /\ p4' = (CASE q.op = "release" -> TRUE [] q.op = "edit" -> p4 [] OTHER -> FALSE)
  BY DEF W!Commit, FlowSaves, W!Puts
<1>4. p6' = [p \in Requests |-> CASE p = r -> W!Idle
                                  [] p # r /\ p6[p] # W!Idle -> [p6[p] EXCEPT !.over = @ \cup {q.op}]
                                  [] OTHER -> p6[p]]
  BY DEF W!Commit
<1>5. put.op = q.op /\ put.version = q.new.version /\ put.def = q.new.act /\ put.author = q.author
        /\ put.pub = q.who /\ put.alone = q.alone
  OBVIOUS
<1> HIDE DEF q, put
<1>6. /\ Makes(q.op, q.who, q.saw, q.new) /\ q.saw.version \in Nat /\ q.new.due \in BOOLEAN
      /\ q.op \in {"edit", "publish", "switch", "release"}
  BY <1>1 DEF Pending, Makes
<1>7. Row /\ FlowProperties
  BY DEF FlowsInvariant
<1>8. q.new.version \in Nat /\ (q.op \notin W!Puts => q.new.version = q.saw.version)
  BY <1>6 DEF Makes, W!Puts
<1>9. Row'
  <2>1. p1'.version \in Nat
    BY <1>1, <1>7, <1>8 DEF Row
  <2>2. p1'.due \in BOOLEAN
    BY <1>1, <1>6, <1>7 DEF Row
  <2>3. \A p \in p3' : p.version \in Nat
    BY <1>3, <1>5, <1>7, <1>8 DEF Row
  <2>4. ASSUME W!Apart(W!Puts)' PROVE \A p \in p3' : p.version <= p1'.version
    <3>1. W!Apart(W!Puts) /\ (q.op \in W!Puts => q.over \cap W!Puts = {})
      BY <1>1, <2>4
    <3>2. \A p \in p3 : p.version \in Nat /\ p.version <= p1.version
      BY <1>7, <3>1 DEF Row
    <3>3. CASE q.op \in W!Puts
      <4>1. p1'.version = p1.version + 1 /\ put.version = p1'.version /\ p3' = p3 \cup {put}
        BY <1>2, <1>3, <1>5, <3>1, <3>3
      <4>2. p1.version \in Nat
        BY <1>7 DEF Row
      <4> QED
        BY <2>1, <3>2, <4>1, <4>2
    <3>4. CASE q.op \notin W!Puts
      BY <1>2, <1>3, <3>2, <3>4
    <3> QED
      BY <3>3, <3>4
  <2>5. ASSUME W!Apart(FlowSaves)' PROVE p1'.by = p2'
    BY <1>1, <1>2, <1>3, <1>7, <2>5 DEF Row
  <2> QED
    BY <1>1, <2>1, <2>2, <2>3, <2>4, <2>5 DEF Row
<1>10. W!InForceIsOnePublication'
  <2> SUFFICES ASSUME W!Apart(W!Puts)'
               PROVE  /\ p1'.act # W!NoDefinition =>
                           \E p \in p3' : p.version = p1'.version /\ p.def = p1'.act /\ p.pub = p1'.pubBy
                      /\ \A p, o \in p3' : p.version = o.version => p = o
    BY DEF W!InForceIsOnePublication
  <2>1. W!Apart(W!Puts) /\ (q.op \in W!Puts => q.over \cap W!Puts = {})
    BY <1>1
  <2>2. /\ p1.act # W!NoDefinition => \E p \in p3 : p.version = p1.version /\ p.def = p1.act /\ p.pub = p1.pubBy
        /\ \A p, o \in p3 : p.version = o.version => p = o
    BY <1>7, <2>1 DEF FlowProperties, W!InForceIsOnePublication
  <2>3. CASE q.op \notin W!Puts
    BY <1>2, <1>3, <2>2, <2>3
  <2>4. CASE q.op \in W!Puts
    <3>1. /\ p3' = p3 \cup {put} /\ put.version = p1'.version /\ put.def = p1'.act /\ put.pub = p1'.pubBy
          /\ put.version = p1.version + 1
      BY <1>2, <1>3, <1>5, <2>1, <2>4
    <3>2. \A p \in p3 : p.version # put.version
      <4>1. p1.version \in Nat /\ \A p \in p3 : p.version \in Nat /\ p.version <= p1.version
        BY <1>7, <2>1 DEF Row
      <4> QED
        BY <3>1, <4>1
    <3> QED
      BY <2>2, <3>1, <3>2
  <2> QED
    BY <2>3, <2>4
<1>11. W!PublishedByAnother'
  <2> SUFFICES ASSUME W!Apart(FlowSaves)', NEW p \in p3', p.op = "publish", p.alone PROVE p.author # p.pub
    BY DEF W!PublishedByAnother, FlowSaves
  <2>1. W!Apart(FlowSaves)
    BY <1>1
  <2>2. CASE p \in p3
    BY <1>7, <2>1, <2>2 DEF FlowProperties, W!PublishedByAnother, FlowSaves
  <2>3. CASE p = put
    BY <1>1, <1>5, <2>1, <2>3 DEF Pending
  <2> QED
    BY <1>3, <2>2, <2>3
<1>12. W!ChangesAreKnown'
  <2> SUFFICES ASSUME W!Apart(FlowWrites)' PROVE p1'.changes \/ p1'.def = p1'.act
    BY DEF W!ChangesAreKnown, FlowWrites
  <2>1. W!Apart(FlowWrites) /\ (q.op \in FlowWrites => q.over \cap FlowWrites = {})
    BY <1>1
  <2>2. CASE q.op \in FlowWrites
    BY <1>2, <2>1, <2>2
  <2>3. CASE q.op \notin FlowWrites
    <3>1. p1'.def = p1.def /\ p1'.changes = p1.changes /\ p1'.act = p1.act
      BY <1>2, <2>3 DEF FlowWrites, W!Puts
    <3>2. p1.changes \/ p1.def = p1.act
      BY <1>7, <2>1 DEF FlowProperties, W!ChangesAreKnown, FlowWrites
    <3> QED
      BY <3>1, <3>2
  <2> QED
    BY <2>2, <2>3
<1>13. W!DueAsPublished'
  <2> SUFFICES ASSUME ~p4', p8' = {}, p1'.status = "active" PROVE p1'.due = W!Scheduled(p1'.act)
    BY DEF W!DueAsPublished, W!Scheduled
  <2>1. q.over = {} /\ p8 = {}
    BY <1>1
  <2>2. p1'.status = q.new.status /\ p1'.due = q.new.due /\ p1'.act = q.new.act
          /\ p1.status = q.saw.status /\ p1.due = q.saw.due /\ p1.act = q.saw.act
    BY <1>2, <2>1
  <2>3. q.op # "release"
    BY <1>3
  <2>4. CASE q.op = "edit"
    <3>1. ~p4
      BY <1>3, <2>4
    <3>2. p1.status = "active" => p1.due = W!Scheduled(p1.act)
      BY <1>7, <2>1, <3>1 DEF FlowProperties, W!DueAsPublished
    <3>3. q.new.act = q.saw.act /\ q.new.status = q.saw.status /\ q.new.due = q.saw.due
      BY <1>6, <2>4 DEF Makes
    <3> QED
      BY <2>2, <3>2, <3>3
  <2>5. CASE q.op \in {"publish", "switch"}
    BY <1>6, <2>2, <2>5 DEF Makes
  <2> QED
    BY <1>6, <2>3, <2>4, <2>5
<1>14. DOMAIN p6' = Requests
  BY <1>4
<1>15. ASSUME NEW p \in Requests PROVE (p6[p] = W!Idle \/ Pending(p6[p]))'
  <2>1. CASE p = r \/ p6[p] = W!Idle
    <3>1. p6'[p] = W!Idle
      BY <1>4, <2>1
    <3> QED
      BY <3>1 DEF W!Idle
  <2>2. CASE p # r /\ p6[p] # W!Idle
    <3>0. PICK old, next : old = p6[p] /\ next = [old EXCEPT !.over = @ \cup {q.op}]
      OBVIOUS
    <3>1. p6'[p] = next
      BY <1>4, <2>2, <3>0
    <3>2. Pending(old)
      BY <2>2, <3>0 DEF FlowsInvariant
    <3>3. /\ DOMAIN next = RequestFields /\ next.op = old.op /\ next.who = old.who /\ next.saw = old.saw
          /\ next.new = old.new /\ next.author = old.author /\ next.alone = old.alone
          /\ next.over = old.over \cup {q.op}
      BY <3>0, <3>2 DEF Pending, RequestFields
    <3>4. W!Apart(FlowSaves)' => W!Apart(FlowSaves)
      BY <1>1
    <3>5. Pending(next)'
      BY <1>2, <3>2, <3>3, <3>4, FlowsMove
    <3> QED
      BY <3>1, <3>5
  <2> QED
    BY <2>1, <2>2
<1> QED
  BY <1>9, <1>10, <1>11, <1>12, <1>13, <1>14, <1>15 DEF FlowsInvariant, FlowProperties

\* The worker's turn leaves the row as it is where what is in force is on a schedule, and
\* else no run due, which every request under way is told of.
LEMMA FlowsTurn ==
  ASSUME FlowsInvariant, W!ScheduleDue
  PROVE  FlowsInvariant'
<1>1. /\ p1' = [p1 EXCEPT !.due = W!Scheduled(p1.act)] /\ p1.due /\ p1.status = "active"
      /\ p2' = p2 /\ p3' = p3 /\ p4' = p4 /\ p8' = p8
      /\ p6' = IF W!Scheduled(p1.act) THEN p6
               ELSE [r \in Requests |-> IF p6[r] = W!Idle THEN W!Idle ELSE [p6[r] EXCEPT !.over = @ \cup {"turn"}]]
  BY DEF W!ScheduleDue
<1>2. Row /\ FlowProperties /\ DOMAIN p1 = FlowFields /\ p1.due \in BOOLEAN
  BY DEF FlowsInvariant, Row
<1>3. /\ DOMAIN p1' = FlowFields /\ p1'.status = p1.status /\ p1'.def = p1.def /\ p1'.act = p1.act
      /\ p1'.version = p1.version /\ p1'.changes = p1.changes /\ p1'.by = p1.by /\ p1'.pubBy = p1.pubBy
      /\ p1'.due = W!Scheduled(p1.act)
  BY <1>1, <1>2 DEF FlowFields
<1>4. Row'
  <2>1. p1'.due \in BOOLEAN
    BY <1>3 DEF W!Scheduled
  <2> QED
    BY <1>1, <1>2, <1>3, <2>1 DEF Row, W!Apart
<1>5. W!InForceIsOnePublication' /\ W!PublishedByAnother'
  BY <1>1, <1>2, <1>3 DEF FlowProperties, W!InForceIsOnePublication, W!PublishedByAnother, W!Apart
<1>6. W!ChangesAreKnown'
  BY <1>1, <1>2, <1>3 DEF FlowProperties, W!ChangesAreKnown, W!Apart
<1>7. W!DueAsPublished'
  BY <1>3 DEF W!DueAsPublished, W!Scheduled
<1>8. CASE W!Scheduled(p1.act)
  <2>1. p1'.due = p1.due
    BY <1>1, <1>2, <1>3, <1>8 DEF W!Scheduled
  <2>2. ASSUME NEW q, Pending(q) PROVE Pending(q)'
    BY <1>1, <1>3, <2>1, <2>2 DEF Pending, StillAsRead, W!Apart
  <2>3. p6' = p6
    BY <1>1, <1>8
  <2>4. DOMAIN p6' = Requests /\ \A p \in Requests : p6'[p] = W!Idle \/ Pending(p6[p])'
    BY <2>2, <2>3 DEF FlowsInvariant
  <2> QED
    BY <1>4, <1>5, <1>6, <1>7, <2>4 DEF FlowsInvariant, FlowProperties
<1>9. CASE ~W!Scheduled(p1.act)
  <2>1. /\ DOMAIN p6' = Requests
        /\ \A p \in Requests : p6'[p] = IF p6[p] = W!Idle THEN W!Idle ELSE [p6[p] EXCEPT !.over = @ \cup {"turn"}]
    BY <1>1, <1>9
  <2>2. ASSUME NEW p \in Requests PROVE (p6[p] = W!Idle \/ Pending(p6[p]))'
    <3>1. CASE p6[p] = W!Idle
      <4>1. p6'[p] = W!Idle
        BY <2>1, <3>1
      <4> QED
        BY <4>1 DEF W!Idle
    <3>2. CASE p6[p] # W!Idle
      <4>0. PICK old, next : old = p6[p] /\ next = [old EXCEPT !.over = @ \cup {"turn"}]
        OBVIOUS
      <4>1. p6'[p] = next
        BY <2>1, <3>2, <4>0
      <4>2. Pending(old)
        BY <3>2, <4>0 DEF FlowsInvariant
      <4>3. /\ DOMAIN next = RequestFields /\ next.op = old.op /\ next.who = old.who /\ next.saw = old.saw
            /\ next.new = old.new /\ next.author = old.author /\ next.alone = old.alone
            /\ next.over = old.over \cup {"turn"}
        BY <4>0, <4>2 DEF Pending, RequestFields
      <4>4. W!Apart(FlowSaves)' => W!Apart(FlowSaves)
        BY <1>1 DEF W!Apart
      <4>5. Pending(next)'
        BY <1>3, <4>2, <4>3, <4>4, FlowsMove
      <4> QED
        BY <4>1, <4>5
    <3> QED
      BY <3>1, <3>2
  <2> QED
    BY <1>4, <1>5, <1>6, <1>7, <2>1, <2>2 DEF FlowsInvariant, FlowProperties
<1> QED
  BY <1>8, <1>9

LEMMA FlowsStep == FlowsInvariant /\ [W!Next]_W!vars => FlowsInvariant'
<1> SUFFICES ASSUME FlowsInvariant, [W!Next]_W!vars PROVE FlowsInvariant'
  OBVIOUS
<1>0. DOMAIN p1 = FlowFields /\ p1.version \in Nat /\ p1.due \in BOOLEAN
  BY DEF FlowsInvariant, Row
<1>1. ASSUME UNCHANGED <<p1, p2, p3, p4, p6, p8>> PROVE FlowsInvariant'
  <2>1. Row' /\ FlowProperties' /\ \A q : Pending(q) => Pending(q)'
    BY <1>1, FlowsStay
  <2>2. \A p \in Requests : p6'[p] = W!Idle \/ Pending(p6[p])'
    BY <1>1, <2>1 DEF FlowsInvariant
  <2> QED
    BY <1>1, <2>1, <2>2 DEF FlowsInvariant
<1>2. ASSUME NEW r \in Requests, NEW who \in People, W!Edit(r, who) PROVE FlowsInvariant'
  <2>1. PICK d : W!Begins(r, "edit", who, W!Edited(p1, who, d), FALSE)
    BY <1>2 DEF W!Edit
  <2>2. Makes("edit", who, p1, W!Edited(p1, who, d))
    BY <1>0 DEF Makes, W!Edited, FlowFields
  <2> QED
    BY <2>1, <2>2, FlowsBegin
<1>3. ASSUME NEW r \in Requests, NEW who \in People, NEW alone \in BOOLEAN, W!Publish(r, who, alone)
      PROVE  FlowsInvariant'
  <2>1. W!Begins(r, "publish", who, W!Published(p1, who), alone) /\ (alone => p1.by # who)
    BY <1>3 DEF W!Publish
  <2>2. Makes("publish", who, p1, W!Published(p1, who))
    BY <1>0 DEF Makes, W!Published, W!Scheduled, FlowFields
  <2> QED
    BY <2>1, <2>2, FlowsBegin
<1>4. ASSUME NEW r \in Requests, NEW who \in People, NEW on \in BOOLEAN, W!Switch(r, who, on)
      PROVE  FlowsInvariant'
  <2>1. W!Begins(r, "switch", who, W!Switched(p1, on), FALSE)
    BY <1>4 DEF W!Switch
  <2>2. Makes("switch", who, p1, W!Switched(p1, on))
    BY <1>0 DEF Makes, W!Switched, W!Scheduled, FlowFields
  <2> QED
    BY <2>1, <2>2, FlowsBegin
<1>5. ASSUME NEW r \in Requests, NEW who \in People, W!Promote(r, who) \/ W!Back(r, who)
      PROVE  FlowsInvariant'
  <2>1. PICK d, status : W!Begins(r, "release", who, W!Promoted(p1, who, d, status), FALSE)
    BY <1>5 DEF W!Promote, W!Back
  <2>2. Makes("release", who, p1, W!Promoted(p1, who, d, status))
    BY <1>0 DEF Makes, W!Promoted, FlowFields
  <2> QED
    BY <2>1, <2>2, FlowsBegin
<1>6. ASSUME NEW r \in Requests, NEW who \in People, W!Withdraw(r, who) PROVE FlowsInvariant'
  <2> DEFINE new == [p1 EXCEPT !.status = "disabled"]
  <2>1. W!Begins(r, "switch", who, new, FALSE)
    BY <1>6 DEF W!Withdraw
  <2>2. Makes("switch", who, p1, new)
    BY <1>0 DEF Makes, FlowFields
  <2> QED
    BY <2>1, <2>2, FlowsBegin
<1>7. ASSUME NEW x, W!Goes(x) PROVE FlowsInvariant'
  BY <1>1, <1>7 DEF W!Goes
<1>8. ASSUME UNCHANGED W!vars PROVE FlowsInvariant'
  BY <1>1, <1>8 DEF W!vars
<1>9. ASSUME NEW r \in Requests, NEW who \in People,
             \/ W!Edit(r, who) \/ W!Promote(r, who) \/ W!Back(r, who) \/ W!Withdraw(r, who)
             \/ \E b \in BOOLEAN : W!Publish(r, who, b) \/ W!Switch(r, who, b)
      PROVE  FlowsInvariant'
  BY <1>2, <1>3, <1>4, <1>5, <1>6, <1>9
<1> QED
  BY <1>7, <1>8, <1>9, FlowsCommit, FlowsTurn DEF W!Next

LEMMA FlowsHold ==
  FlowsInvariant => W!InForceIsOnePublication /\ W!PublishedByAnother /\ W!ChangesAreKnown /\ W!DueAsPublished
BY DEF FlowsInvariant, FlowProperties

--------------------------------------------------------------------------------
(* Sign-ins: p1 is the user, p2 the pairs of tokens, p3 the reset links,   *)
(* p4 the requests, p6 the codes that were accepted, and p8 says what was  *)
(* written by two requests at once.                                        *)

PairFields == {"no", "session", "version", "parent", "row", "steps", "over", "late"}

\* The pairs are numbered as they are issued.
Numbered(ts) ==
  /\ IsFiniteSet(ts)
  /\ \A t \in ts : t.no \in 1..Cardinality(ts)
  /\ \A t, q \in ts : t.no = q.no => t = q

\* A pair that was exchanged is not exchanged again, whether what it was exchanged for has
\* been issued or is to be.
Exchanged(n) == \A t \in p2 : t.no = n => t.row # "live"

Issues(r, n) == p4[r].op = "issue" /\ p4[r].parent = n

\* What a request goes by: a pair there is, and the one it has exchanged.
PairRequest(r) ==
  LET q == p4[r] IN
  /\ q.op = "exchange" => q.token.no \in 1..Cardinality(p2)
  /\ q.op = "issue" => /\ q.parent \in 0..Cardinality(p2)
                       /\ q.parent # 0 => Exchanged(q.parent) /\ \A t \in p2 : t.parent # q.parent

PairsInvariant ==
  /\ Numbered(p2) /\ DOMAIN p4 = Requests
  /\ \A t \in p2 : /\ DOMAIN t = PairFields
                   /\ t.over = TRUE => t.row = "none"
                   /\ t.parent \in 0..Cardinality(p2)
                   /\ t.parent # 0 => Exchanged(t.parent)
  /\ \A t, q \in p2 : t.parent # 0 /\ t.parent = q.parent => t = q
  /\ \A r \in Requests : PairRequest(r)
  /\ \A r, o \in Requests : \A n \in Nat \ {0} : Issues(r, n) /\ Issues(o, n) => r = o

\* Rows that are written, under their numbers, are as many as they were.
LEMMA NumbersStay ==
  ASSUME NEW ts, NEW us, NEW f, Numbered(ts), us = {f[t] : t \in ts}, DOMAIN f = ts, \A t \in ts : f[t].no = t.no
  PROVE  Numbered(us) /\ Cardinality(us) = Cardinality(ts)
<1>1. /\ IsFiniteSet(ts) /\ \A t \in ts : t.no \in 1..Cardinality(ts)
      /\ \A t, q \in ts : t.no = q.no => t = q
  BY DEF Numbered
<1> DEFINE g == [t \in ts |-> f[t]]
<1>2. g \in [ts -> us]
  OBVIOUS
<1>3. \A t, q \in ts : g[t] = g[q] => t = q
  BY <1>1
<1>4. \A u \in us : \E t \in ts : g[t] = u
  OBVIOUS
<1>5. ExistsBijection(ts, us)
  <2> HIDE DEF g
  <2>1. g \in Injection(ts, us)
    BY <1>2, <1>3 DEF Injection, IsInjective
  <2>2. g \in Surjection(ts, us)
    BY <1>2, <1>4 DEF Surjection
  <2> QED
    BY <2>1, <2>2 DEF ExistsBijection, Bijection
<1>6. IsFiniteSet(us) /\ Cardinality(us) = Cardinality(ts)
  BY <1>1, <1>5, FS_Bijection
<1>7. \A u \in us : u.no \in 1..Cardinality(us)
  BY <1>1, <1>6
<1>8. \A u, v \in us : u.no = v.no => u = v
  BY <1>1
<1> QED
  BY <1>6, <1>7, <1>8 DEF Numbered

\* What a write may do to a row.
Rewrites(u, t) ==
  /\ DOMAIN u = PairFields /\ u.no = t.no /\ u.parent = t.parent
  /\ u.row = "live" => t.row = "live"
  /\ u.over = TRUE => u.row = "none"

\* A request that reads, ends or commits, whatever becomes of the rows: if it is to issue a
\* pair for one that it exchanged, that one was live.
LEMMA PairsRewritten ==
  ASSUME PairsInvariant, NEW f, DOMAIN f = p2, p2' = {f[t] : t \in p2}, \A t \in p2 : Rewrites(f[t], t),
         DOMAIN p4' = Requests, NEW r,
         \A o \in Requests : \/ p4'[o] = p4[o]
                             \/ /\ o = r
                                /\ p4'[o].op = "exchange" => p4'[o].token.no \in 1..Cardinality(p2)
                                /\ p4'[o].op = "issue" =>
                                     \/ p4'[o].parent = 0
                                     \/ \E t \in p2 : p4'[o].parent = t.no /\ t.row = "live" /\ f[t].row # "live"
  PROVE  PairsInvariant'
<1>1. Numbered(p2') /\ Cardinality(p2') = Cardinality(p2)
  BY NumbersStay DEF PairsInvariant, Rewrites
<1>2. Cardinality(p2) \in Nat
  BY FS_CardinalityType DEF PairsInvariant, Numbered
<1>3. \A n : Exchanged(n) => Exchanged(n)'
  BY DEF Exchanged, Rewrites
<1>4. \A t \in p2' : /\ DOMAIN t = PairFields
                     /\ t.over = TRUE => t.row = "none"
                     /\ t.parent \in 0..Cardinality(p2')
                     /\ t.parent # 0 => Exchanged(t.parent)'
  BY <1>1, <1>3 DEF PairsInvariant, Rewrites
<1>5. \A t, q \in p2' : t.parent # 0 /\ t.parent = q.parent => t = q
  BY DEF PairsInvariant, Rewrites
<1>6. ASSUME NEW t \in p2, t.row = "live", f[t].row # "live"
      PROVE  /\ t.no \in 1..Cardinality(p2) /\ ~Exchanged(t.no) /\ Exchanged(t.no)'
             /\ \A u \in p2' : u.parent # t.no
  <2>1. t.no \in 1..Cardinality(p2) /\ \A q \in p2 : q.no = t.no => q = t
    BY DEF PairsInvariant, Numbered
  <2>2. ~Exchanged(t.no)
    BY <1>6 DEF Exchanged
  <2>3. \A q \in p2 : q.parent # t.no
    BY <2>1, <2>2, <1>2 DEF PairsInvariant
  <2>4. Exchanged(t.no)'
    BY <1>6, <2>1 DEF Exchanged, Rewrites
  <2> QED
    BY <2>1, <2>2, <2>3, <2>4 DEF Rewrites
<1>7. ASSUME NEW o \in Requests PROVE PairRequest(o)'
  <2>1. CASE p4'[o] = p4[o]
    <3>1. PairRequest(o)
      BY DEF PairsInvariant
    <3>2. \A n : (\A t \in p2 : t.parent # n) => \A u \in p2' : u.parent # n
      BY DEF Rewrites
    <3> QED
      BY <2>1, <3>1, <3>2, <1>1, <1>3 DEF PairRequest
  <2>2. CASE p4'[o] # p4[o]
    BY <2>2, <1>1, <1>2, <1>6 DEF PairRequest
  <2> QED
    BY <2>1, <2>2
<1>8. ASSUME NEW o \in Requests, NEW x \in Requests, NEW n \in Nat \ {0}, Issues(o, n)', Issues(x, n)'
      PROVE  o = x
  <2>1. CASE p4'[o] = p4[o] /\ p4'[x] = p4[x]
    BY <1>8, <2>1 DEF PairsInvariant, Issues
  <2>2. ASSUME NEW y \in Requests, NEW z \in Requests, p4'[y] # p4[y], p4'[z] = p4[z], Issues(y, n)', Issues(z, n)'
        PROVE  FALSE
    <3>1. PICK t \in p2 : n = t.no /\ t.row = "live" /\ f[t].row # "live"
      BY <2>2 DEF Issues
    <3>2. Exchanged(n)
      BY <2>2 DEF PairsInvariant, PairRequest, Issues
    <3> QED
      BY <3>1, <3>2, <1>6
  <2> QED
    BY <1>8, <2>1, <2>2
<1> QED
  BY <1>1, <1>4, <1>5, <1>7, <1>8 DEF PairsInvariant

\* A pair is issued, by a request that is then done.
LEMMA PairsIssued ==
  ASSUME PairsInvariant, NEW r \in Requests, NEW new, p2' = p2 \cup {new}, DOMAIN new = PairFields,
         new.no = Cardinality(p2) + 1, new.over = FALSE,
         new.parent = 0 \/ Issues(r, new.parent),
         DOMAIN p4' = Requests, \A o \in Requests \ {r} : p4'[o] = p4[o], p4'[r].op \notin {"exchange", "issue"}
  PROVE  PairsInvariant'
<1>1. Cardinality(p2) \in Nat /\ IsFiniteSet(p2)
  BY FS_CardinalityType DEF PairsInvariant, Numbered
<1>2. new \notin p2
  BY <1>1 DEF PairsInvariant, Numbered
<1>3. IsFiniteSet(p2') /\ Cardinality(p2') = Cardinality(p2) + 1
  BY <1>1, <1>2, FS_AddElement
<1>4. Numbered(p2')
  <2>1. \A t \in p2' : t.no \in 1..Cardinality(p2')
    BY <1>1, <1>3 DEF PairsInvariant, Numbered
  <2>2. \A t \in p2 : t.no # new.no
    BY <1>1 DEF PairsInvariant, Numbered
  <2>3. \A t, q \in p2' : t.no = q.no => t = q
    BY <2>2 DEF PairsInvariant, Numbered
  <2> QED
    BY <1>3, <2>1, <2>3 DEF Numbered
<1>5. \A n \in 0..Cardinality(p2) : Exchanged(n) => Exchanged(n)'
  BY <1>1 DEF Exchanged
<1>6. /\ new.parent \in 0..Cardinality(p2)
      /\ new.parent # 0 => /\ Exchanged(new.parent) /\ \A t \in p2 : t.parent # new.parent
                           /\ \A o \in Requests \ {r} : ~Issues(o, new.parent)
  BY <1>1 DEF PairsInvariant, PairRequest, Issues
<1>7. \A t \in p2' : /\ DOMAIN t = PairFields
                     /\ t.over = TRUE => t.row = "none"
                     /\ t.parent \in 0..Cardinality(p2')
                     /\ t.parent # 0 => Exchanged(t.parent)'
  BY <1>1, <1>3, <1>5, <1>6 DEF PairsInvariant
<1>8. \A t, q \in p2' : t.parent # 0 /\ t.parent = q.parent => t = q
  BY <1>6 DEF PairsInvariant
<1>9. ASSUME NEW o \in Requests PROVE PairRequest(o)'
  <2>1. CASE o = r
    BY <2>1 DEF PairRequest
  <2>2. CASE o # r
    <3>1. PairRequest(o) /\ p4'[o] = p4[o]
      BY <2>2 DEF PairsInvariant
    <3>2. p4[o].op = "issue" /\ p4[o].parent # 0 => p4[o].parent # new.parent
      BY <2>2, <1>6 DEF Issues
    <3> QED
      BY <3>1, <3>2, <1>1, <1>3, <1>5 DEF PairRequest
  <2> QED
    BY <2>1, <2>2
<1>10. \A o, x \in Requests : \A n \in Nat \ {0} : Issues(o, n)' /\ Issues(x, n)' => o = x
  BY DEF PairsInvariant, Issues
<1> QED
  BY <1>4, <1>7, <1>8, <1>9, <1>10 DEF PairsInvariant

\* The pairs stay as they are while a request reads, or is done with something else.
LEMMA PairsStand ==
  ASSUME PairsInvariant, p2' = p2, NEW r \in Requests, NEW what, p4' = [p4 EXCEPT ![r] = what],
         what.op = "exchange" => what.token \in p2,
         what.op = "issue" => what.parent = 0
  PROVE  PairsInvariant'
<1> DEFINE f == [t \in p2 |-> t]
<1>1. DOMAIN f = p2 /\ p2' = {f[t] : t \in p2}
  OBVIOUS
<1>2. \A t \in p2 : Rewrites(f[t], t)
  BY DEF Rewrites, PairsInvariant
<1>3. DOMAIN p4' = Requests /\ p4'[r] = what /\ \A o \in Requests \ {r} : p4'[o] = p4[o]
  BY DEF PairsInvariant
<1>4. what.op = "exchange" => what.token.no \in 1..Cardinality(p2)
  BY DEF PairsInvariant, Numbered
<1> HIDE DEF f
<1> QED
  BY <1>1, <1>2, <1>3, <1>4, PairsRewritten

\* Rows are rewritten, while no request moves.
LEMMA PairsMarked ==
  ASSUME PairsInvariant, p4' = p4, NEW f, DOMAIN f = p2, p2' = {f[t] : t \in p2}, \A t \in p2 : Rewrites(f[t], t)
  PROVE  PairsInvariant'
BY PairsRewritten DEF PairsInvariant

\* A request issues a pair.
LEMMA PairsCome ==
  ASSUME PairsInvariant, NEW r \in Requests, NEW session, NEW version, NEW parent, NEW steps, NEW late, NEW what,
         p2' = p2 \cup U!Issued(session, version, parent, steps, late),
         parent = 0 \/ Issues(r, parent),
         p4' = [p4 EXCEPT ![r] = what], what.op \notin {"exchange", "issue"}
  PROVE  PairsInvariant'
<1>1. PICK new : /\ new = [no |-> Cardinality(p2) + 1,
                           session |-> IF session = U!None THEN Cardinality(p2) + 1 ELSE session,
                           version |-> version, parent |-> parent, row |-> "live", steps |-> steps,
                           over |-> FALSE, late |-> late]
                 /\ p2' = p2 \cup {new}
  BY DEF U!Issued, U!Cardinality, Cardinality
<1>2. DOMAIN new = PairFields /\ new.no = Cardinality(p2) + 1 /\ new.over = FALSE /\ new.parent = parent
  BY <1>1 DEF PairFields
<1>3. DOMAIN p4' = Requests /\ p4'[r] = what /\ \A o \in Requests \ {r} : p4'[o] = p4[o]
  BY DEF PairsInvariant
<1> QED
  BY <1>1, <1>2, <1>3, PairsIssued

LEMMA PairsExchanged ==
  ASSUME PairsInvariant, NEW r \in Requests, U!ExchangeCommits(r)
  PROVE  PairsInvariant'
<1>1. p4[r].op = "exchange"
  BY DEF U!ExchangeCommits
<1>2. CASE U!Finish(r) /\ p2' = p2
  BY <1>2, PairsStand DEF U!Finish, U!Idle
<1>3. CASE ~(U!Finish(r) /\ p2' = p2)
  <2>1. PICK n : n = p4[r].token.no
    OBVIOUS
  <2> DEFINE f == [q \in p2 |-> IF q.no = n THEN [q EXCEPT !.row = "rotated"] ELSE q]
  <2>2. /\ \E q \in p2 : q.no = n /\ q.row = "live"
        /\ p2' = {IF q.no = n THEN [q EXCEPT !.row = "rotated"] ELSE q : q \in p2}
        /\ U!IssuesNext(r, p4[r].saw.version)
    BY <1>3, <2>1 DEF U!ExchangeCommits, U!Takes
  <2>3. DOMAIN f = p2 /\ p2' = {f[q] : q \in p2}
    BY <2>2
  <2>4. PICK q \in p2 : q.no = n /\ q.row = "live"
    BY <2>2
  <2>5. \A u \in p2 : Rewrites(f[u], u)
    <3>1. \A u \in p2 : u.no = n => u = q
      BY <2>4 DEF PairsInvariant, Numbered
    <3> QED
      BY <2>4, <3>1 DEF Rewrites, PairsInvariant, PairFields
  <2>6. f[q].row # "live"
    BY <2>4 DEF PairsInvariant, PairFields
  <2>7. /\ DOMAIN p4' = Requests /\ p4'[r].op = "issue" /\ p4'[r].parent = n
        /\ \A o \in Requests \ {r} : p4'[o] = p4[o]
    BY <1>1, <2>1, <2>2 DEF U!IssuesNext, PairsInvariant
  <2> HIDE DEF f
  <2> QED
    BY <2>3, <2>4, <2>5, <2>6, <2>7, PairsRewritten
<1> QED
  BY <1>2, <1>3

LEMMA PairsEnded ==
  ASSUME PairsInvariant, NEW r \in Requests, U!EndsCommit(r)
  PROVE  PairsInvariant'
<1> DEFINE f == [t \in p2 |-> [t EXCEPT !.row = "none", !.over = TRUE]]
<1>1. DOMAIN f = p2 /\ p2' = {f[t] : t \in p2}
  BY DEF U!EndsCommit, U!Ended
<1>2. \A t \in p2 : Rewrites(f[t], t)
  BY DEF Rewrites, PairsInvariant, PairFields
<1>3. PICK op : op = p4[r].op /\ op # "exchange"
  BY DEF U!EndsCommit, U!Ends
<1>4. U!Finish(r) \/ \E v : U!IssuesNext(r, v)
  BY DEF U!EndsCommit
<1>5. /\ DOMAIN p4' = Requests /\ \A o \in Requests \ {r} : p4'[o] = p4[o]
      /\ p4'[r].op \in {"idle", "issue"} /\ (p4'[r].op = "issue" => p4'[r].parent = 0)
  <2>1. CASE U!Finish(r)
    BY <2>1 DEF U!Finish, U!Idle, PairsInvariant
  <2>2. ASSUME NEW v, U!IssuesNext(r, v)
        PROVE  /\ DOMAIN p4' = Requests /\ \A o \in Requests \ {r} : p4'[o] = p4[o]
               /\ p4'[r].op = "issue" /\ p4'[r].parent = 0
    BY <2>2, <1>3 DEF U!IssuesNext, U!None, PairsInvariant
  <2> QED
    BY <1>4, <2>1, <2>2
<1> HIDE DEF f
<1> QED
  BY <1>1, <1>2, <1>5, PairsRewritten

LEMMA PairsStep == PairsInvariant /\ [U!Next]_U!vars => PairsInvariant'
<1> SUFFICES ASSUME PairsInvariant, [U!Next]_U!vars PROVE PairsInvariant'
  OBVIOUS
<1>1. ASSUME NEW r \in Requests, NEW what, U!Begin(r, what), what.op # "issue",
             what.op = "exchange" => what.token \in p2
      PROVE  PairsInvariant'
  BY <1>1, PairsStand DEF U!Begin
<1>2. ASSUME NEW r \in Requests,
             \/ U!Login(r) \/ U!Exchange(r) \/ U!EndAll(r) \/ U!Replay(r) \/ U!Operator(r) \/ U!ChangePassword(r)
             \/ U!Reset(r) \/ U!Enable(r) \/ U!Setup(r) \/ U!Disable(r) \/ U!NewCodes(r)
      PROVE  PairsInvariant'
  <2>1. CASE U!Exchange(r)
    BY <2>1, <1>1 DEF U!Exchange, U!With
  <2>2. CASE U!Login(r) \/ U!ChangePassword(r) \/ U!Enable(r)
    BY <2>2, <1>1 DEF U!Login, U!ChangePassword, U!Enable, U!With
  <2>3. CASE U!EndAll(r) \/ U!Replay(r) \/ U!Operator(r) \/ U!Reset(r) \/ U!Setup(r)
    BY <2>3, <1>1 DEF U!EndAll, U!Replay, U!Operator, U!Reset, U!Setup, U!Saw
  <2>4. CASE U!Disable(r) \/ U!NewCodes(r)
    BY <2>4, <1>1 DEF U!Disable, U!NewCodes, U!Change, U!With
  <2> QED
    BY <1>2, <2>1, <2>2, <2>3, <2>4
<1>3. ASSUME NEW r \in Requests, U!LoginCommits(r) PROVE PairsInvariant'
  <2>1. CASE p2' = p2
    <3>1. CASE p4' = [p4 EXCEPT ![r] = U!Idle]
      BY <2>1, <3>1, PairsStand DEF U!Idle
    <3>2. ASSUME NEW v, p4' = [p4 EXCEPT ![r] = [op |-> "challenge", version |-> v]] PROVE PairsInvariant'
      <4> DEFINE what == [op |-> "challenge", version |-> v]
      <4>1. what.op = "challenge" /\ p4' = [p4 EXCEPT ![r] = what]
        BY <3>2
      <4> HIDE DEF what
      <4> QED
        BY <2>1, <4>1, PairsStand
    <3> QED
      BY <1>3, <3>1, <3>2 DEF U!LoginCommits, U!Finish
  <2>2. CASE p2' # p2
    <3>1. /\ p2' = p2 \cup U!Issued(U!None, p4[r].saw.version, U!None, 1, FALSE)
          /\ p4' = [p4 EXCEPT ![r] = U!Idle]
      BY <1>3, <2>2 DEF U!LoginCommits, U!Finish
    <3>2. U!None = 0 /\ U!Idle.op = "idle"
      BY DEF U!None, U!Idle
    <3> HIDE DEF U!Idle
    <3> QED
      BY <3>1, <3>2, PairsCome
  <2> QED
    BY <2>1, <2>2
<1>4. ASSUME NEW r \in Requests, U!Second(r) PROVE PairsInvariant'
  <2>1. PICK code : p4' = [p4 EXCEPT ![r] = U!With("second", U!None, code)]
    BY <1>4 DEF U!Second
  <2>2. U!With("second", U!None, code).op = "second"
    BY DEF U!With
  <2>3. p2' = p2
    BY <1>4 DEF U!Second
  <2> QED
    BY <2>1, <2>2, <2>3, PairsStand
<1>5. ASSUME NEW r \in Requests, U!SecondCommits(r) PROVE PairsInvariant'
  <2>1. /\ p2' = p2 \cup U!Issued(U!None, p4[r].saw.version, U!None, 2, FALSE)
        /\ p4' = [p4 EXCEPT ![r] = U!Idle]
    BY <1>5 DEF U!SecondCommits, U!Finish
  <2>2. U!None = 0 /\ U!Idle.op = "idle"
    BY DEF U!None, U!Idle
  <2> QED
    BY <2>1, <2>2, PairsCome
<1>6. ASSUME NEW r \in Requests, U!Issue(r) PROVE PairsInvariant'
  <2>1. /\ p2' = p2 \cup U!Issued(p4[r].session, p1.version, p4[r].parent, p4[r].steps,
                                  p4[r].late \/ p1.version # p4[r].left)
        /\ p4' = [p4 EXCEPT ![r] = U!Idle] /\ Issues(r, p4[r].parent)
    BY <1>6 DEF U!Issue, U!Finish, Issues
  <2>2. U!Idle.op = "idle"
    BY DEF U!Idle
  <2> QED
    BY <2>1, <2>2, PairsCome
<1>7. ASSUME NEW r \in Requests, U!SetupCommits(r) \/ U!ChangeCommits(r) \/ U!GivesUp(r) PROVE PairsInvariant'
  <2>1. p2' = p2 /\ p4' = [p4 EXCEPT ![r] = U!Idle]
    BY <1>7 DEF U!SetupCommits, U!ChangeCommits, U!GivesUp, U!Finish
  <2>2. U!Idle.op = "idle"
    BY DEF U!Idle
  <2> QED
    BY <2>1, <2>2, PairsStand
<1>8. ASSUME U!GraceEnds \/ U!Logout PROVE PairsInvariant'
  <2>1. PICK t \in p2, to \in {"old", "none"} : p2' = (p2 \ {t}) \cup {[t EXCEPT !.row = to]} /\ to # "live" /\ p4' = p4
                            /\ (t.over = TRUE => to = "none")
    BY <1>8 DEF U!GraceEnds, U!Logout, PairsInvariant
  <2> DEFINE f == [q \in p2 |-> IF q = t THEN [t EXCEPT !.row = to] ELSE q]
  <2>2. DOMAIN f = p2 /\ p2' = {f[q] : q \in p2}
    BY <2>1
  <2>3. \A q \in p2 : Rewrites(f[q], q)
    BY <2>1 DEF Rewrites, PairsInvariant, PairFields
  <2> HIDE DEF f
  <2> QED
    BY <2>1, <2>2, <2>3, PairsMarked
<1>9. ASSUME U!EndSession PROVE PairsInvariant'
  <2>1. PICK s : p2' = {IF q.session = s THEN [q EXCEPT !.row = "none"] ELSE q : q \in p2}
    BY <1>9 DEF U!EndSession
  <2> DEFINE f == [q \in p2 |-> IF q.session = s THEN [q EXCEPT !.row = "none"] ELSE q]
  <2>2. DOMAIN f = p2 /\ p2' = {f[q] : q \in p2}
    BY <2>1
  <2>3. \A q \in p2 : Rewrites(f[q], q)
    BY DEF Rewrites, PairsInvariant, PairFields
  <2>4. p4' = p4
    BY <1>9 DEF U!EndSession
  <2> HIDE DEF f
  <2> QED
    BY <2>2, <2>3, <2>4, PairsMarked
<1>10. ASSUME p2' = p2, p4' = p4 PROVE PairsInvariant'
  BY <1>10, Zenon DEF PairsInvariant, PairRequest, Exchanged, Issues
<1>11. CASE U!RequestReset \/ U!Tick \/ UNCHANGED U!vars
  BY <1>10, <1>11 DEF U!RequestReset, U!Tick, U!vars
<1>12. ASSUME NEW r \in Requests, U!ExchangeCommits(r) \/ U!EndsCommit(r) PROVE PairsInvariant'
  BY <1>12, PairsExchanged, PairsEnded
<1> QED
  BY <1>2, <1>3, <1>4, <1>5, <1>6, <1>7, <1>8, <1>9, <1>11, <1>12 DEF U!Next

--------------------------------------------------------------------------------
\* The user's row.
UserFields == {"version", "password", "secret", "on", "step", "codes", "secrets", "sets"}

UserRow(u) ==
  /\ DOMAIN u = UserFields
  /\ u.version \in Nat /\ u.password \in Nat /\ u.on \in BOOLEAN
  /\ u.secret \in Nat /\ u.step \in Nat /\ u.secrets \in Nat /\ u.sets \in Nat
  /\ \A c \in u.codes : /\ c = <<c[1], c[2]>> /\ c[1] \in Nat /\ c[2] \in Nat
                        /\ c[1] <= u.sets

\* Those that read the row and keep what they saw.
Keeps == {"login", "second", "exchange", "password", "enable", "disable", "codes",
          "end", "replay", "reset", "operator", "setup"}

\* Whoever was let in by two steps, or when one was enough.
Entered(t, version) == p1.on /\ t.version = version /\ t.late = FALSE => t.steps = 2

\* What a pair is worth, while no two requests have ended the sessions at once: it is of a
\* version there was, and of an earlier one if it was ended.
PairFits(t) ==
  "version" \notin p8 =>
    /\ t.version \in Nat /\ t.version <= p1.version
    /\ t.over = TRUE => t.version < p1.version
    /\ Entered(t, p1.version)

\* A code that was shown for the second step is of a time after the last that was spent, or
\* one of the recovery codes.
CodeShown(saw, code) ==
  \/ \E s \in Nat : s > saw.step /\ code = <<"totp", s>>
  \/ \E c \in saw.codes : code = <<"recovery", c>>

\* What a request has seen of the user, or has committed and is to issue.
VersionRequest(r) ==
  LET q == p4[r] IN
  /\ q.op \in Keeps => UserRow(q.saw) /\ q.saw.sets <= p1.sets
  /\ q.op \in {"second", "disable", "codes"} => CodeShown(q.saw, q.code)
  /\ q.op = "enable" => q.code[2] \in Nat
  /\ q.op = "issue" => q.left \in Nat /\ q.late \in BOOLEAN
  /\ q.op \in {"exchange", "password", "enable"} => q.token.late \in BOOLEAN
  /\ "version" \notin p8 =>
       /\ q.op \in Keeps => /\ q.saw.version <= p1.version
                            /\ p1.on /\ q.saw.version = p1.version => q.saw.on
       /\ q.op \in {"exchange", "password"} =>
            (p1.on /\ q.saw.version = p1.version /\ q.token.late = FALSE => q.token.steps = 2)
       /\ q.op = "issue" => /\ q.left <= p1.version
                            /\ p1.on /\ q.left = p1.version /\ q.late = FALSE => q.steps = 2

VersionsInvariant ==
  /\ UserRow(p1) /\ DOMAIN p4 = Requests
  /\ \A t \in p2 : t.late \in BOOLEAN /\ PairFits(t)
  /\ \A r \in Requests : VersionRequest(r)

Alike(t, q) == t.version = q.version /\ t.over = q.over /\ t.late = q.late /\ t.steps = q.steps

\* As long as the version stands, and the second step is not put on.
LEMMA VersionsStand ==
  ASSUME VersionsInvariant, UserRow(p1'), p1'.version = p1.version, p1'.on => p1.on, p1'.sets >= p1.sets, p8 \subseteq p8',
         \A t \in p2' : (\E q \in p2 : Alike(t, q)) \/ (t.late \in BOOLEAN /\ PairFits(t)'),
         DOMAIN p4' = Requests,
         \A r \in Requests : p4'[r] = p4[r] \/ VersionRequest(r)'
  PROVE  VersionsInvariant'
<1>1. \A t \in p2' : t.late \in BOOLEAN /\ PairFits(t)'
  BY DEF VersionsInvariant, Alike, PairFits, Entered
<1>2. ASSUME NEW r \in Requests PROVE VersionRequest(r)'
  <2>1. CASE p4'[r] = p4[r]
    <3>1. VersionRequest(r)
      BY DEF VersionsInvariant
    <3>2. p1.on \in BOOLEAN /\ p1'.on \in BOOLEAN /\ p1.sets \in Nat /\ p1'.sets \in Nat
      BY DEF VersionsInvariant, UserRow
    <3>3. "version" \notin p8' => "version" \notin p8
      OBVIOUS
    <3>4. p4[r].op \in Keeps => UserRow(p4[r].saw) /\ p4[r].saw.sets <= p1'.sets
      BY <3>1, <3>2 DEF VersionRequest, UserRow
    <3> QED
      BY <2>1, <3>1, <3>2, <3>3, <3>4 DEF VersionRequest
  <2> QED
    BY <2>1
<1> QED
  BY <1>1, <1>2 DEF VersionsInvariant

\* A request that begins sees the user as she is; whoever shows a pair shows one that works.
LEMMA VersionsBegin ==
  ASSUME VersionsInvariant, NEW r \in Requests, NEW what, p4' = [p4 EXCEPT ![r] = what],
         UNCHANGED <<p1, p2, p8>>,
         what.op \in Keeps, what.saw = p1,
         what.op \in {"exchange", "password", "enable"} => what.token \in p2 /\ what.token.version = p1.version,
         what.op \in {"second", "disable", "codes"} => CodeShown(p1, what.code),
         what.op = "enable" => what.code[2] \in Nat
  PROVE  VersionsInvariant'
<1>1. DOMAIN p4' = Requests /\ p4'[r] = what /\ \A o \in Requests \ {r} : p4'[o] = p4[o]
  BY DEF VersionsInvariant
<1>2. VersionRequest(r)'
  <2>1. what.op # "issue" /\ UserRow(what.saw) /\ p1' = p1 /\ p8' = p8 /\ p1.version \in Nat /\ p1.sets \in Nat
    BY DEF Keeps, VersionsInvariant, UserRow
  <2>2. what.op \in {"exchange", "password", "enable"} =>
          /\ what.token.late \in BOOLEAN
          /\ "version" \notin p8 /\ p1.on /\ what.token.late = FALSE => what.token.steps = 2
    BY DEF VersionsInvariant, PairFits, Entered
  <2> QED
    BY <1>1, <2>1, <2>2 DEF VersionRequest
<1>3. \A t \in p2' : \E q \in p2 : Alike(t, q)
  BY DEF Alike
<1>4. UserRow(p1') /\ p1'.version = p1.version /\ (p1'.on => p1.on) /\ p1'.sets >= p1.sets /\ p8 \subseteq p8'
  BY DEF VersionsInvariant, UserRow
<1> QED
  BY <1>1, <1>2, <1>3, <1>4, VersionsStand

\* One that is done with, or that asks for a second step.
LEMMA VersionsDone ==
  ASSUME VersionsInvariant, UserRow(p1'), p1'.version = p1.version, p1'.on => p1.on, p1'.sets >= p1.sets, p8 \subseteq p8',
         \A t \in p2' : (\E q \in p2 : Alike(t, q)) \/ (t.late \in BOOLEAN /\ PairFits(t)'),
         NEW r \in Requests, NEW what, p4' = [p4 EXCEPT ![r] = what], what.op \in {"idle", "challenge"}
  PROVE  VersionsInvariant'
<1>1. DOMAIN p4' = Requests /\ p4'[r] = what /\ \A o \in Requests \ {r} : p4'[o] = p4[o]
  BY DEF VersionsInvariant
<1>2. VersionRequest(r)'
  BY <1>1 DEF VersionRequest, Keeps
<1> QED
  BY <1>1, <1>2, VersionsStand

\* The row as the end of all sessions leaves it.
LEMMA UserWritten ==
  ASSUME UserRow(p1), NEW r, p4[r].op \in U!Ends,
         p4[r].op = "enable" => p4[r].code[2] \in Nat
  PROVE  /\ UserRow(U!Written(r)) /\ U!Written(r).version = p1.version
         /\ p4[r].op \in {"password", "reset"} => U!Written(r).password = p1.password + 1
         /\ p4[r].op \notin {"password", "reset"} => U!Written(r).password = p1.password
         /\ p4[r].op \notin {"operator", "enable"} =>
              /\ U!Written(r).on = p1.on /\ U!Written(r).secret = p1.secret /\ U!Written(r).step = p1.step
              /\ U!Written(r).codes = p1.codes /\ U!Written(r).secrets = p1.secrets /\ U!Written(r).sets = p1.sets
         /\ p4[r].op = "operator" =>
              /\ U!Written(r).on = FALSE /\ U!Written(r).secret = 0 /\ U!Written(r).step = 0
              /\ U!Written(r).codes = {} /\ U!Written(r).secrets = p1.secrets /\ U!Written(r).sets = p1.sets
         /\ p4[r].op = "enable" =>
              /\ U!Written(r).on = TRUE /\ U!Written(r).secret = p1.secret /\ U!Written(r).step = p4[r].code[2]
              /\ U!Written(r).codes = U!Codes(p1.sets + 1) /\ U!Written(r).secrets = p1.secrets
              /\ U!Written(r).sets = p1.sets + 1
<1> DEFINE w == U!Written(r)
<1>1. CASE p4[r].op \in {"end", "replay"}
  <2>1. w = p1
    BY <1>1 DEF U!Written
  <2> QED
    BY <1>1, <2>1
<1>2. CASE p4[r].op \in {"password", "reset"}
  <2>1. w = [p1 EXCEPT !.password = @ + 1]
    BY <1>2 DEF U!Written
  <2> QED
    BY <1>2, <2>1 DEF UserRow, UserFields
<1>3. CASE p4[r].op = "operator"
  <2>1. w = [p1 EXCEPT !.secret = 0, !.on = FALSE, !.step = 0, !.codes = {}]
    BY <1>3 DEF U!Written, U!None
  <2> QED
    BY <1>3, <2>1 DEF UserRow, UserFields
<1>4. CASE p4[r].op = "enable"
  <2>1. w = [p1 EXCEPT !.on = TRUE, !.step = p4[r].code[2], !.sets = @ + 1, !.codes = U!Codes(p1.sets + 1)]
    BY <1>4 DEF U!Written
  <2>2. \A c \in U!Codes(p1.sets + 1) : /\ c = <<c[1], c[2]>> /\ c[1] \in Nat /\ c[2] \in Nat
                                        /\ c[1] <= p1.sets + 1
    BY DEF U!Codes, UserRow
  <2>3. /\ DOMAIN w = UserFields /\ w.on = TRUE /\ w.secret = p1.secret /\ w.step = p4[r].code[2]
        /\ w.codes = U!Codes(p1.sets + 1) /\ w.secrets = p1.secrets /\ w.sets = p1.sets + 1
        /\ w.version = p1.version /\ w.password = p1.password
    BY <2>1 DEF UserRow, UserFields
  <2> HIDE DEF w
  <2>4. UserRow(w)
    <3>1. p1.sets + 1 \in Nat /\ p1.version \in Nat /\ p1.password \in Nat /\ p1.secret \in Nat /\ p1.secrets \in Nat
      BY DEF UserRow
    <3> QED
      BY <1>4, <2>2, <2>3, <3>1 DEF UserRow
  <2> QED
    BY <1>4, <2>3, <2>4 DEF w
<1> QED
  BY <1>1, <1>2, <1>3, <1>4 DEF U!Ends

\* The end of all sessions: what there was is of an earlier version now, and what the request
\* is to issue was had by a second step if one is asked for.
LEMMA VersionsEnd ==
  ASSUME VersionsInvariant, NEW r \in Requests, U!EndsCommit(r), \A t \in p2 : DOMAIN t = PairFields
  PROVE  VersionsInvariant'
<1>1. PICK q : q = p4[r]
  OBVIOUS
<1>2. PICK w : w = U!Written(r)
  OBVIOUS
<1>3. q.op \in U!Ends /\ p1' = [w EXCEPT !.version = q.saw.version + 1] /\ p2' = U!Ended(p2)
  BY <1>1, <1>2 DEF U!EndsCommit, U!Raised
<1>4. p8 \subseteq p8' /\ ("version" \notin p8' => q.saw.version = p1.version)
  BY <1>1 DEF U!EndsCommit, U!RacedBy
<1>5. q.op \in Keeps /\ q.op \notin {"second", "disable", "codes"} /\ UserRow(p1) /\ VersionRequest(r)
  BY <1>3 DEF U!Ends, Keeps, VersionsInvariant
<1>6. UserRow(q.saw)
  BY <1>1, <1>5 DEF VersionRequest
<1>7. /\ UserRow(w) /\ w.version = p1.version /\ w.sets >= p1.sets
      /\ q.op \notin {"operator", "enable"} => w.on = p1.on
  <2>1. q.op = "enable" => q.code[2] \in Nat
    BY <1>1, <1>5 DEF VersionRequest
  <2>2. p1.sets \in Nat
    BY <1>5 DEF UserRow
  <2>3. p4[r].op \in U!Ends /\ (p4[r].op = "enable" => p4[r].code[2] \in Nat)
    BY <1>1, <1>3, <2>1
  <2>4. /\ UserRow(U!Written(r)) /\ U!Written(r).version = p1.version
        /\ p4[r].op \notin {"operator", "enable"} => U!Written(r).on = p1.on /\ U!Written(r).sets = p1.sets
        /\ p4[r].op = "operator" => U!Written(r).sets = p1.sets
        /\ p4[r].op = "enable" => U!Written(r).sets = p1.sets + 1
    BY <1>5, <2>3, UserWritten
  <2> QED
    BY <1>1, <1>2, <2>2, <2>4
<1>8. /\ UserRow(p1') /\ p1'.version = q.saw.version + 1 /\ p1'.sets >= p1.sets
      /\ q.op \notin {"operator", "enable"} => p1'.on = p1.on
  BY <1>3, <1>6, <1>7 DEF UserRow, UserFields
<1>9. p1.version \in Nat /\ q.saw.version \in Nat /\ p1.sets \in Nat
  BY <1>5, <1>6 DEF UserRow
<1>10. ASSUME NEW t \in p2' PROVE t.late \in BOOLEAN /\ PairFits(t)'
  <2>1. PICK s \in p2 : t = [s EXCEPT !.row = "none", !.over = TRUE]
    BY <1>3 DEF U!Ended
  <2>2. t.version = s.version /\ t.late = s.late
    BY <2>1 DEF PairFields
  <2>3. "version" \notin p8' => t.version \in Nat /\ t.version < p1'.version
    BY <1>4, <1>8, <1>9, <2>2 DEF VersionsInvariant, PairFits
  <2> QED
    BY <1>8, <1>9, <2>2, <2>3 DEF VersionsInvariant, PairFits, Entered
<1>11. DOMAIN p4' = Requests /\ \A o \in Requests \ {r} : p4'[o] = p4[o]
  BY DEF U!EndsCommit, U!Finish, U!IssuesNext, VersionsInvariant
<1>12. VersionRequest(r)'
  <2>1. CASE U!Finish(r)
    <3>1. p4'[r].op = "idle"
      BY <2>1 DEF U!Finish, U!Idle, VersionsInvariant
    <3> QED
      BY <3>1 DEF VersionRequest, Keeps
  <2>2. CASE ~U!Finish(r)
    <3>1. q.op \in {"password", "enable"} /\ U!IssuesNext(r, q.saw.version + 1)
      BY <1>1, <2>2 DEF U!EndsCommit, U!Raised
    <3>2. /\ p4'[r].op = "issue" /\ p4'[r].left = q.saw.version + 1 /\ p4'[r].late = q.token.late
          /\ q.op = "enable" => p4'[r].steps = 2
          /\ q.op = "password" => p4'[r].steps = q.token.steps
      BY <1>1, <3>1 DEF U!IssuesNext, VersionsInvariant
    <3>3. q.token.late \in BOOLEAN
      BY <1>1, <1>5, <3>1 DEF VersionRequest
    <3>4. "version" \notin p8' /\ q.op = "password" /\ p1.on /\ q.token.late = FALSE => q.token.steps = 2
      BY <1>1, <1>4, <1>5 DEF VersionRequest
    <3> QED
      BY <1>8, <1>9, <3>1, <3>2, <3>3, <3>4 DEF VersionRequest, Keeps
  <2> QED
    BY <2>1, <2>2
<1>13. ASSUME NEW o \in Requests \ {r} PROVE VersionRequest(o)'
  <2>1. VersionRequest(o) /\ p4'[o] = p4[o]
    BY <1>11 DEF VersionsInvariant
  <2>2. p4[o].op \in Keeps => UserRow(p4[o].saw) /\ p4[o].saw.version \in Nat /\ p4[o].saw.sets \in Nat
    BY <2>1 DEF VersionRequest, UserRow
  <2>3. p1'.version \in Nat /\ p1'.sets \in Nat
    BY <1>8 DEF UserRow
  <2>4. p4[o].op \in Keeps => p4[o].saw.sets <= p1'.sets
    BY <1>8, <1>9, <2>1, <2>2, <2>3 DEF VersionRequest
  <2>5. "version" \notin p8' => /\ p4[o].op \in Keeps => p4[o].saw.version < p1'.version
                                /\ p4[o].op = "issue" => p4[o].left < p1'.version
    BY <1>4, <1>8, <1>9, <2>1, <2>2 DEF VersionRequest
  <2> QED
    BY <2>1, <2>2, <2>3, <2>4, <2>5 DEF VersionRequest, Keeps
<1> QED
  BY <1>8, <1>10, <1>11, <1>12, <1>13 DEF VersionsInvariant

\* What spends a code leaves the rest of the row.
LEMMA CodeSpent ==
  ASSUME UserRow(p1), NEW saw, UserRow(saw), saw.sets <= p1.sets, NEW code, CodeShown(saw, code)
  PROVE  /\ UserRow(U!Spend(p1, saw, code))
         /\ \A f \in {"version", "password", "secret", "on", "secrets", "sets"} : U!Spend(p1, saw, code)[f] = p1[f]
         /\ \/ \E s \in Nat : /\ s > saw.step /\ code = <<"totp", s>>
                              /\ U!Spend(p1, saw, code).step = s /\ U!Spend(p1, saw, code).codes = p1.codes
            \/ \E c \in saw.codes : /\ code = <<"recovery", c>>
                                    /\ U!Spend(p1, saw, code).step = p1.step
                                    /\ U!Spend(p1, saw, code).codes = saw.codes \ {c}
<1> DEFINE u == U!Spend(p1, saw, code)
<1>1. ASSUME NEW s \in Nat, s > saw.step, code = <<"totp", s>>
      PROVE  /\ UserRow(u) /\ u.step = s /\ u.codes = p1.codes
             /\ \A f \in {"version", "password", "secret", "on", "secrets", "sets"} : u[f] = p1[f]
  <2>1. u = [p1 EXCEPT !.step = s]
    BY <1>1 DEF U!Spend
  <2> QED
    BY <2>1 DEF UserRow, UserFields
<1>2. ASSUME NEW c \in saw.codes, code = <<"recovery", c>>
      PROVE  /\ UserRow(u) /\ u.step = p1.step /\ u.codes = saw.codes \ {c}
             /\ \A f \in {"version", "password", "secret", "on", "secrets", "sets"} : u[f] = p1[f]
  <2>1. u = [p1 EXCEPT !.codes = saw.codes \ {c}]
    BY <1>2 DEF U!Spend
  <2>2. \A d \in saw.codes : /\ d = <<d[1], d[2]>> /\ d[1] \in Nat /\ d[2] \in Nat
                             /\ d[1] <= p1.sets
    BY DEF UserRow
  <2>3. /\ DOMAIN u = UserFields /\ u.step = p1.step /\ u.codes = saw.codes \ {c}
        /\ \A f \in {"version", "password", "secret", "on", "secrets", "sets"} : u[f] = p1[f]
    BY <2>1 DEF UserRow, UserFields
  <2> HIDE DEF u
  <2>4. UserRow(u)
    <3>1. /\ p1.sets \in Nat /\ p1.version \in Nat /\ p1.password \in Nat /\ p1.secret \in Nat /\ p1.secrets \in Nat
          /\ p1.step \in Nat /\ p1.on \in BOOLEAN
      BY DEF UserRow
    <3>2. /\ u.version = p1.version /\ u.password = p1.password /\ u.secret = p1.secret /\ u.on = p1.on
          /\ u.secrets = p1.secrets /\ u.sets = p1.sets
      BY <2>3
    <3> QED
      BY <2>2, <2>3, <3>1, <3>2 DEF UserRow
  <2> QED
    BY <2>3, <2>4
<1> QED
  BY <1>1, <1>2 DEF CodeShown

LEMMA VersionsChange ==
  ASSUME VersionsInvariant, NEW r \in Requests, U!ChangeCommits(r)
  PROVE  VersionsInvariant'
<1>1. PICK q : q = p4[r]
  OBVIOUS
<1>2. /\ q.op \in {"disable", "codes"} /\ p2' = p2 /\ p8 \subseteq p8'
      /\ p4' = [p4 EXCEPT ![r] = U!Idle] /\ U!Idle.op = "idle"
  BY <1>1 DEF U!ChangeCommits, U!Finish, U!Idle
<1>3. UserRow(p1) /\ UserRow(q.saw) /\ q.saw.sets <= p1.sets /\ CodeShown(q.saw, q.code) /\ p1.sets \in Nat
  BY <1>1, <1>2 DEF VersionsInvariant, VersionRequest, Keeps, UserRow
<1>4. UserRow(p1') /\ p1'.version = p1.version /\ (p1'.on => p1.on) /\ p1'.sets >= p1.sets
  <2>1. CASE q.op = "disable"
    <3>1. p1' = [p1 EXCEPT !.secret = 0, !.on = FALSE, !.step = 0, !.codes = {}]
      BY <1>1, <2>1 DEF U!ChangeCommits, U!None
    <3> QED
      BY <1>3, <3>1 DEF UserRow, UserFields
  <2>2. CASE q.op = "codes"
    <3>1. PICK u : u = U!Spend(p1, q.saw, q.code)
      OBVIOUS
    <3>2. p1' = [u EXCEPT !.sets = @ + 1, !.codes = U!Codes(p1.sets + 1)]
      BY <1>1, <2>2, <3>1 DEF U!ChangeCommits
    <3>3. UserRow(u) /\ u.version = p1.version /\ u.on = p1.on /\ u.sets = p1.sets
      BY <1>3, <3>1, CodeSpent
    <3>4. \A c \in U!Codes(p1.sets + 1) : /\ c = <<c[1], c[2]>> /\ c[1] \in Nat /\ c[2] \in Nat
                                          /\ c[1] <= p1.sets + 1
      BY <1>3 DEF U!Codes
    <3> QED
      BY <1>3, <3>2, <3>3, <3>4 DEF UserRow, UserFields
  <2> QED
    BY <1>2, <2>1, <2>2
<1>5. \A t \in p2' : \E s \in p2 : Alike(t, s)
  BY <1>2 DEF Alike
<1> QED
  BY <1>2, <1>4, <1>5, VersionsDone

\* A pair of a version that was read, and let in as it was then asked.
LEMMA VersionsIssued ==
  ASSUME VersionsInvariant, NEW session, NEW version, NEW parent, NEW steps, NEW late \in BOOLEAN,
         p2' = p2 \cup U!Issued(session, version, parent, steps, late),
         p1'.version = p1.version, p1'.on = p1.on, p8 \subseteq p8',
         "version" \notin p8 =>
           /\ version \in Nat /\ version <= p1.version
           /\ p1.on /\ version = p1.version /\ late = FALSE => steps = 2
  PROVE  \A t \in p2' : (\E q \in p2 : Alike(t, q)) \/ (t.late \in BOOLEAN /\ PairFits(t)')
<1>1. PICK no, own : p2' = p2 \cup {[no |-> no, session |-> own, version |-> version, parent |-> parent,
                                      row |-> "live", steps |-> steps, over |-> FALSE, late |-> late]}
  BY DEF U!Issued
<1> DEFINE new == [no |-> no, session |-> own, version |-> version, parent |-> parent,
                   row |-> "live", steps |-> steps, over |-> FALSE, late |-> late]
<1>2. new.version = version /\ new.over = FALSE /\ new.late = late /\ new.steps = steps /\ p2' = p2 \cup {new}
  BY <1>1
<1> HIDE DEF new
<1>3. PairFits(new)'
  BY <1>2 DEF PairFits, Entered
<1>4. \A q \in p2 : Alike(q, q)
  BY DEF Alike
<1> QED
  BY <1>2, <1>3, <1>4

LEMMA VersionsStep ==
  ASSUME PairsInvariant, VersionsInvariant, [U!Next]_U!vars PROVE VersionsInvariant'
<1>0. UserRow(p1) /\ DOMAIN p4 = Requests /\ p1.sets \in Nat /\ \A t \in p2 : DOMAIN t = PairFields
  BY DEF VersionsInvariant, UserRow, PairsInvariant
<1>1. ASSUME NEW r \in Requests,
             \/ U!Login(r) \/ U!Exchange(r) \/ U!EndAll(r) \/ U!Replay(r) \/ U!Operator(r) \/ U!ChangePassword(r)
             \/ U!Reset(r) \/ U!Enable(r) \/ U!Setup(r) \/ U!Disable(r) \/ U!NewCodes(r) \/ U!Second(r)
      PROVE  VersionsInvariant'
  <2>1. ASSUME NEW op \in {"end", "replay", "operator", "reset", "setup"}, U!Begin(r, U!Saw(op))
        PROVE  VersionsInvariant'
    <3>1. PICK what : what = U!Saw(op)
      OBVIOUS
    <3>2. what.op = op /\ what.saw = p1
      BY <3>1 DEF U!Saw
    <3> QED
      BY <2>1, <3>1, <3>2, VersionsBegin DEF Keeps, U!Begin
  <2>2. ASSUME NEW op, NEW t, NEW code, p4' = [p4 EXCEPT ![r] = U!With(op, t, code)], UNCHANGED <<p1, p2, p8>>,
               \/ op = "login"
               \/ op \in {"exchange", "password"} /\ t \in p2 /\ t.version = p1.version
               \/ op = "enable" /\ t \in p2 /\ t.version = p1.version /\ code[2] \in Nat
               \/ op \in {"second", "disable", "codes"} /\ CodeShown(p1, code)
        PROVE  VersionsInvariant'
    <3>1. PICK what : what = U!With(op, t, code)
      OBVIOUS
    <3>2. what.op = op /\ what.saw = p1 /\ what.token = t /\ what.code = code
      BY <3>1 DEF U!With
    <3> QED
      BY <2>2, <3>1, <3>2, VersionsBegin DEF Keeps
  <2>3. CASE U!Login(r)
    BY <2>3, <2>2 DEF U!Login, U!Begin
  <2>4. CASE U!EndAll(r) \/ U!Replay(r) \/ U!Operator(r) \/ U!Reset(r) \/ U!Setup(r)
    BY <2>4, <2>1 DEF U!EndAll, U!Replay, U!Operator, U!Reset, U!Setup
  <2>5. CASE U!Exchange(r) \/ U!ChangePassword(r)
    BY <2>5, <2>2 DEF U!Exchange, U!ChangePassword, U!Exchangeable, U!Current, U!Begin
  <2>6. CASE U!Enable(r)
    <3>1. PICK t \in p2, s \in U!Moments : U!Current(t) /\ U!Begin(r, U!With("enable", t, <<"totp", s>>))
      BY <2>6 DEF U!Enable
    <3>2. s \in Nat
      BY DEF U!Moments
    <3> QED
      BY <2>2, <3>1, <3>2 DEF U!Current, U!Begin
  <2>7. \A code \in U!Shown(p1) : CodeShown(p1, code)
    BY DEF U!Shown, U!Moments, CodeShown
  <2>8. CASE U!Disable(r) \/ U!NewCodes(r)
    BY <2>8, <2>2, <2>7 DEF U!Disable, U!NewCodes, U!Change, U!Begin
  <2>9. CASE U!Second(r)
    BY <2>9, <2>2, <2>7 DEF U!Second
  <2> QED
    BY <1>1, <2>3, <2>4, <2>5, <2>6, <2>8, <2>9
<1>2. ASSUME NEW what, NEW r \in Requests, p4' = [p4 EXCEPT ![r] = what], what.op \in {"idle", "challenge"},
             UNCHANGED <<p1, p8>>, \A t \in p2' : (\E q \in p2 : Alike(t, q)) \/ (t.late \in BOOLEAN /\ PairFits(t)')
      PROVE  VersionsInvariant'
  <2>1. UserRow(p1') /\ p1'.version = p1.version /\ (p1'.on => p1.on) /\ p1'.sets >= p1.sets /\ p8 \subseteq p8'
    BY <1>0, <1>2
  <2> QED
    BY <1>2, <2>1, VersionsDone
<1>3. U!Idle.op = "idle" /\ \A t \in p2 : Alike(t, t)
  BY DEF U!Idle, Alike
<1>4. ASSUME NEW r \in Requests, U!LoginCommits(r) PROVE VersionsInvariant'
  <2>1. CASE p2' = p2
    <3>1. PICK what : p4' = [p4 EXCEPT ![r] = what]
                      /\ (what = U!Idle \/ \E v : what = [op |-> "challenge", version |-> v])
      BY <1>4 DEF U!LoginCommits, U!Finish
    <3>2. what.op \in {"idle", "challenge"}
      BY <3>1, <1>3
    <3> QED
      BY <1>2, <1>3, <1>4, <2>1, <3>1, <3>2 DEF U!LoginCommits
  <2>2. CASE p2' # p2
    <3>1. /\ ~p4[r].saw.on /\ p4[r].op = "login"
          /\ p2' = p2 \cup U!Issued(U!None, p4[r].saw.version, U!None, 1, FALSE)
          /\ p4' = [p4 EXCEPT ![r] = U!Idle] /\ UNCHANGED <<p1, p8>>
      BY <1>4, <2>2 DEF U!LoginCommits, U!Finish
    <3>2. "version" \notin p8 =>
             /\ p4[r].saw.version \in Nat /\ p4[r].saw.version <= p1.version
             /\ ~(p1.on /\ p4[r].saw.version = p1.version)
      BY <3>1 DEF VersionsInvariant, VersionRequest, Keeps, UserRow
    <3>3. \A t \in p2' : (\E q \in p2 : Alike(t, q)) \/ (t.late \in BOOLEAN /\ PairFits(t)')
      BY <3>1, <3>2, VersionsIssued
    <3> QED
      BY <1>2, <1>3, <3>1, <3>3
  <2> QED
    BY <2>1, <2>2
<1>5. ASSUME NEW r \in Requests, U!SecondCommits(r) PROVE VersionsInvariant'
  <2>1. /\ p4[r].op = "second" /\ p1' = U!Spend(p1, p4[r].saw, p4[r].code) /\ p8 \subseteq p8'
        /\ p2' = p2 \cup U!Issued(U!None, p4[r].saw.version, U!None, 2, FALSE)
        /\ p4' = [p4 EXCEPT ![r] = U!Idle]
    BY <1>5 DEF U!SecondCommits, U!Finish
  <2>2. UserRow(p4[r].saw) /\ p4[r].saw.sets <= p1.sets /\ CodeShown(p4[r].saw, p4[r].code)
    BY <2>1 DEF VersionsInvariant, VersionRequest, Keeps
  <2>3. UserRow(p1') /\ p1'.version = p1.version /\ p1'.on = p1.on /\ p1'.sets = p1.sets
    BY <1>0, <2>1, <2>2, CodeSpent
  <2>4. "version" \notin p8 => p4[r].saw.version \in Nat /\ p4[r].saw.version <= p1.version
    BY <2>1, <2>2 DEF VersionsInvariant, VersionRequest, Keeps, UserRow
  <2>5. \A t \in p2' : (\E q \in p2 : Alike(t, q)) \/ (t.late \in BOOLEAN /\ PairFits(t)')
    BY <2>1, <2>3, <2>4, VersionsIssued
  <2>6. (p1'.on => p1.on) /\ p1'.sets >= p1.sets
    BY <1>0, <2>3
  <2> QED
    BY <1>3, <2>1, <2>3, <2>5, <2>6, VersionsDone
<1>6. ASSUME NEW r \in Requests, U!ExchangeCommits(r) PROVE VersionsInvariant'
  <2>1. p4[r].op = "exchange" /\ UNCHANGED <<p1, p8>>
    BY <1>6 DEF U!ExchangeCommits
  <2>2. CASE p2' = p2 /\ U!Finish(r)
    BY <1>2, <1>3, <2>1, <2>2 DEF U!Finish
  <2>3. CASE ~(p2' = p2 /\ U!Finish(r))
    <3>1. /\ p2' = {IF q.no = p4[r].token.no THEN [q EXCEPT !.row = "rotated"] ELSE q : q \in p2}
          /\ U!IssuesNext(r, p4[r].saw.version)
      BY <1>6, <2>3 DEF U!ExchangeCommits
    <3>2. \A t \in p2' : \E q \in p2 : Alike(t, q)
      BY <3>1, <1>0 DEF Alike, PairFields
    <3>3. /\ p4'[r].op = "issue" /\ p4'[r].left = p4[r].saw.version /\ p4'[r].late = p4[r].token.late
          /\ p4'[r].steps = p4[r].token.steps
          /\ DOMAIN p4' = Requests /\ \A o \in Requests \ {r} : p4'[o] = p4[o]
      BY <1>0, <2>1, <3>1 DEF U!IssuesNext
    <3>4. VersionRequest(r)'
      BY <2>1, <3>3 DEF VersionsInvariant, VersionRequest, Keeps, UserRow
    <3> QED
      BY <1>0, <2>1, <3>2, <3>3, <3>4, VersionsStand
  <2> QED
    BY <2>2, <2>3
<1>7. ASSUME NEW r \in Requests, U!Issue(r) PROVE VersionsInvariant'
  <2>1. PICK late : late = (p4[r].late \/ p1.version # p4[r].left)
    OBVIOUS
  <2>2. /\ p4[r].op = "issue" /\ UNCHANGED <<p1, p8>>
        /\ p2' = p2 \cup U!Issued(p4[r].session, p1.version, p4[r].parent, p4[r].steps, late)
        /\ p4' = [p4 EXCEPT ![r] = U!Idle]
    BY <1>7, <2>1 DEF U!Issue, U!Finish
  <2>3. late \in BOOLEAN /\ p1.version \in Nat
    BY <1>0, <2>1 DEF UserRow
  <2>4. "version" \notin p8 =>
          /\ p1.version \in Nat /\ p1.version <= p1.version
          /\ p1.on /\ p1.version = p1.version /\ late = FALSE => p4[r].steps = 2
    <3>1. VersionRequest(r)
      BY DEF VersionsInvariant
    <3>2. late = FALSE => p4[r].late = FALSE /\ p1.version = p4[r].left
      BY <2>1, <2>2, <3>1 DEF VersionRequest
    <3> QED
      BY <2>2, <2>3, <3>1, <3>2 DEF VersionRequest
  <2>5. \A t \in p2' : (\E q \in p2 : Alike(t, q)) \/ (t.late \in BOOLEAN /\ PairFits(t)')
    BY <2>2, <2>3, <2>4, VersionsIssued
  <2> QED
    BY <1>2, <1>3, <2>2, <2>5
<1>8. ASSUME NEW r \in Requests, U!SetupCommits(r) PROVE VersionsInvariant'
  <2>1. /\ p1' = [p1 EXCEPT !.secret = p1.secrets + 1, !.secrets = @ + 1] /\ p2' = p2 /\ p8' = p8
        /\ p4' = [p4 EXCEPT ![r] = U!Idle]
    BY <1>8 DEF U!SetupCommits, U!Finish
  <2>2. UserRow(p1') /\ p1'.version = p1.version /\ p1'.on = p1.on /\ p1'.sets = p1.sets
    BY <1>0, <2>1 DEF UserRow, UserFields
  <2>3. (p1'.on => p1.on) /\ p1'.sets >= p1.sets /\ p8 \subseteq p8'
    BY <1>0, <2>1, <2>2
  <2> QED
    BY <1>3, <2>1, <2>2, <2>3, VersionsDone
<1>9. ASSUME NEW r \in Requests, U!GivesUp(r) PROVE VersionsInvariant'
  BY <1>2, <1>3, <1>9 DEF U!GivesUp, U!Finish
<1>10. ASSUME UNCHANGED <<p1, p4, p8>>, \A t \in p2' : \E q \in p2 : Alike(t, q) PROVE VersionsInvariant'
  BY <1>0, <1>10, VersionsStand
<1>11. CASE U!GraceEnds \/ U!Logout
  <2>1. PICK t \in p2, to \in {"old", "none"} : p2' = (p2 \ {t}) \cup {[t EXCEPT !.row = to]}
    BY <1>11 DEF U!GraceEnds, U!Logout
  <2>2. \A u \in p2' : \E q \in p2 : Alike(u, q)
    BY <1>0, <2>1 DEF Alike, PairFields
  <2> QED
    BY <1>10, <1>11, <2>2 DEF U!GraceEnds, U!Logout
<1>12. CASE U!EndSession
  <2>1. PICK s : p2' = {IF q.session = s THEN [q EXCEPT !.row = "none"] ELSE q : q \in p2}
    BY <1>12 DEF U!EndSession
  <2>2. \A u \in p2' : \E q \in p2 : Alike(u, q)
    BY <1>0, <2>1 DEF Alike, PairFields
  <2> QED
    BY <1>10, <1>12, <2>2 DEF U!EndSession
<1>13. CASE U!RequestReset \/ U!Tick \/ UNCHANGED U!vars
  BY <1>3, <1>10, <1>13 DEF U!RequestReset, U!Tick, U!vars
<1>14. ASSUME NEW r \in Requests, U!EndsCommit(r) \/ U!ChangeCommits(r) PROVE VersionsInvariant'
  BY <1>0, <1>14, VersionsEnd, VersionsChange
<1> QED
  BY <1>1, <1>4, <1>5, <1>6, <1>7, <1>8, <1>9, <1>11, <1>12, <1>13, <1>14 DEF U!Next

--------------------------------------------------------------------------------
\* Whoever shows a code has seen a secret that is not another's since; and where it is the
\* one that counts, the second step is on. Whoever puts it on saw it off.
CodeRequest(r) ==
  LET q == p4[r] IN
  /\ q.op \in {"second", "disable", "codes", "enable"} => q.saw.secret # 0 /\ q.saw.secret <= p1.secrets
  /\ q.op \in {"second", "disable", "codes"} /\ q.saw.secret = p1.secret => p1.on = TRUE
  /\ q.op = "enable" => q.saw.step = 0 /\ \E s \in Nat \ {0} : q.code = <<"totp", s>>

\* What was spent is behind what counts now.
SpentIsPast(x) ==
  /\ \A n, s \in Nat : x = <<"totp", n, s>> =>
       n # 0 /\ n <= p1.secrets /\ (n = p1.secret => p1.on = TRUE /\ s <= p1.step)
  /\ \A n, i \in Nat : x = <<"recovery", n, i>> => n <= p1.sets /\ <<n, i>> \notin p1.codes

StepIsSound ==
  /\ p1.secret <= p1.secrets
  /\ p1.on = TRUE => p1.secret # 0 /\ p1.step # 0
  /\ p1.on # TRUE => p1.step = 0

CodesInvariant ==
  "codes" \notin p8 => StepIsSound /\ (\A x \in p6 : SpentIsPast(x)) /\ \A r \in Requests : CodeRequest(r)

\* The secret stays, and its steps rise; or it goes; or another comes that there never was.
SecretMoves ==
  \/ p1'.secret = p1.secret /\ (p1.on = TRUE => p1'.on = TRUE) /\ p1'.step >= p1.step
  \/ p1'.secret = 0
  \/ p1'.secret > p1.secrets

LEMMA CodesMove ==
  ASSUME VersionsInvariant, CodesInvariant, UserRow(p1'), p8 \subseteq p8',
         "codes" \notin p8' =>
           /\ SecretMoves /\ StepIsSound' /\ p1'.secrets >= p1.secrets /\ p1'.sets >= p1.sets
           /\ p1'.codes \subseteq p1.codes \cup U!Codes(p1.sets + 1)
           /\ \A x \in p6' : x \in p6 \/ SpentIsPast(x)'
           /\ \A r \in Requests : p4'[r] = p4[r] \/ CodeRequest(r)'
  PROVE  CodesInvariant'
<1> SUFFICES ASSUME "codes" \notin p8' PROVE (\A x \in p6' : SpentIsPast(x)') /\ \A r \in Requests : CodeRequest(r)'
  BY DEF CodesInvariant
<1>1. UserRow(p1) /\ UserRow(p1') /\ StepIsSound /\ (\A x \in p6 : SpentIsPast(x)) /\ \A r \in Requests : CodeRequest(r)
  BY DEF CodesInvariant, VersionsInvariant
<1>2. /\ p1.secret \in Nat /\ p1.step \in Nat /\ p1.secrets \in Nat /\ p1.sets \in Nat
      /\ p1'.secret \in Nat /\ p1'.step \in Nat /\ p1'.secrets \in Nat /\ p1'.sets \in Nat
  BY <1>1 DEF UserRow
<1>3. ASSUME NEW x \in p6 PROVE SpentIsPast(x)'
  <2>1. SpentIsPast(x)
    BY <1>1
  <2>2. ASSUME NEW n \in Nat, NEW s \in Nat, x = <<"totp", n, s>>
        PROVE  n # 0 /\ n <= p1'.secrets /\ (n = p1'.secret => p1'.on = TRUE /\ s <= p1'.step)
    BY <1>2, <2>1, <2>2 DEF SpentIsPast, SecretMoves
  <2>3. ASSUME NEW n \in Nat, NEW i \in Nat, x = <<"recovery", n, i>>
        PROVE  n <= p1'.sets /\ <<n, i>> \notin p1'.codes
    BY <1>2, <2>1, <2>3 DEF SpentIsPast, U!Codes
  <2> QED
    BY <2>2, <2>3 DEF SpentIsPast
<1>4. ASSUME NEW r \in Requests, p4'[r] = p4[r] PROVE CodeRequest(r)'
  <2>1. CodeRequest(r)
    BY <1>1
  <2>2. p4[r].op \in {"second", "disable", "codes", "enable"} => p4[r].saw.secret \in Nat
    BY DEF VersionsInvariant, VersionRequest, Keeps, UserRow
  <2> QED
    BY <1>2, <1>4, <2>1, <2>2 DEF CodeRequest, SecretMoves
<1> QED
  BY <1>3, <1>4

\* What a code is remembered by.
LEMMA CodeNoted ==
  ASSUME NEW saw, NEW code, CodeShown(saw, code), UserRow(saw)
  PROVE  \/ \E s \in Nat : s > saw.step /\ code = <<"totp", s>> /\ U!Note(saw, code) = <<"totp", saw.secret, s>>
         \/ \E c \in saw.codes : /\ code = <<"recovery", c>> /\ U!Note(saw, code) = <<"recovery", c[1], c[2]>>
                                 /\ c = <<c[1], c[2]>> /\ c[1] \in Nat /\ c[2] \in Nat /\ c[1] <= saw.sets
<1>1. ASSUME NEW s \in Nat, s > saw.step, code = <<"totp", s>>
      PROVE  U!Note(saw, code) = <<"totp", saw.secret, s>>
  BY <1>1 DEF U!Note
<1>2. ASSUME NEW c \in saw.codes, code = <<"recovery", c>>
      PROVE  /\ U!Note(saw, code) = <<"recovery", c[1], c[2]>>
             /\ c = <<c[1], c[2]>> /\ c[1] \in Nat /\ c[2] \in Nat /\ c[1] <= saw.sets
  BY <1>2 DEF U!Note, UserRow
<1> QED
  BY <1>1, <1>2 DEF CodeShown

LEMMA CodesWork ==
  ASSUME VersionsInvariant, CodesInvariant
  PROVE  U!CodesWorkOnce
<1> SUFFICES ASSUME NEW r \in Requests, p4[r].op \in {"second", "disable", "codes"},
                    U!Note(p4[r].saw, p4[r].code) \in p6, ~U!CodesRacedBy(p4[r].saw), "codes" \notin p8
             PROVE  FALSE
  BY DEF U!CodesWorkOnce
<1>1. PICK saw : saw = p4[r].saw
  OBVIOUS
<1>2. PICK code : code = p4[r].code
  OBVIOUS
<1>3. UserRow(saw) /\ CodeShown(saw, code)
  BY <1>1, <1>2 DEF VersionsInvariant, VersionRequest, Keeps
<1>4. saw.secret = p1.secret /\ saw.step = p1.step /\ saw.codes = p1.codes
  BY <1>1 DEF U!CodesRacedBy
<1>5. U!Note(saw, code) \in p6 /\ SpentIsPast(U!Note(saw, code))
  BY <1>1, <1>2 DEF CodesInvariant
<1>6. saw.step \in Nat /\ saw.secret \in Nat
  BY <1>3 DEF UserRow
<1>7. CASE \E s \in Nat : s > saw.step /\ code = <<"totp", s>> /\ U!Note(saw, code) = <<"totp", saw.secret, s>>
  <2>1. PICK s \in Nat : s > saw.step /\ U!Note(saw, code) = <<"totp", saw.secret, s>>
    BY <1>7
  <2>2. s <= p1.step
    BY <1>4, <1>5, <1>6, <2>1 DEF SpentIsPast
  <2> QED
    BY <1>4, <1>6, <2>1, <2>2
<1>8. CASE \E c \in saw.codes : /\ U!Note(saw, code) = <<"recovery", c[1], c[2]>>
                                /\ c = <<c[1], c[2]>> /\ c[1] \in Nat /\ c[2] \in Nat
  <2>1. PICK c \in saw.codes : /\ U!Note(saw, code) = <<"recovery", c[1], c[2]>>
                               /\ c = <<c[1], c[2]>> /\ c[1] \in Nat /\ c[2] \in Nat
    BY <1>8
  <2>2. <<c[1], c[2]>> \notin p1.codes
    BY <1>5, <2>1 DEF SpentIsPast
  <2> QED
    BY <1>4, <2>1, <2>2
<1> QED
  BY <1>3, <1>7, <1>8, CodeNoted

\* Nothing of the second step moves, and whoever reads it sees it as it is.
LEMMA CodesStand ==
  ASSUME VersionsInvariant, CodesInvariant, UserRow(p1'), p8 \subseteq p8', p6' = p6,
         \A f \in {"secret", "on", "step", "codes", "secrets", "sets"} : p1'[f] = p1[f],
         NEW r, \A o \in Requests : \/ p4'[o] = p4[o]
                                    \/ /\ o = r
                                       /\ p4'[r].op \in {"second", "disable", "codes", "enable"} =>
                                            p4'[r].saw = p1 /\ p1.secret # 0
                                       /\ p4'[r].op \in {"second", "disable", "codes"} => p1.on = TRUE
                                       /\ p4'[r].op = "enable" =>
                                            p1.on # TRUE /\ \E s \in Nat \ {0} : p4'[r].code = <<"totp", s>>
  PROVE  CodesInvariant'
<1>1. /\ p1'.secret = p1.secret /\ p1'.on = p1.on /\ p1'.step = p1.step /\ p1'.codes = p1.codes
      /\ p1'.secrets = p1.secrets /\ p1'.sets = p1.sets
  OBVIOUS
<1>2. p1.secret \in Nat /\ p1.step \in Nat /\ p1.secrets \in Nat /\ p1.sets \in Nat
  BY DEF VersionsInvariant, UserRow
<1>3. SUFFICES ASSUME "codes" \notin p8'
               PROVE  /\ SecretMoves /\ StepIsSound' /\ p1'.secrets >= p1.secrets /\ p1'.sets >= p1.sets
                      /\ p1'.codes \subseteq p1.codes \cup U!Codes(p1.sets + 1)
                      /\ \A x \in p6' : x \in p6 \/ SpentIsPast(x)'
                      /\ \A o \in Requests : p4'[o] = p4[o] \/ CodeRequest(o)'
  BY CodesMove
<1>4. StepIsSound
  BY <1>3 DEF CodesInvariant
<1>5. ASSUME NEW o \in Requests, p4'[o] # p4[o] PROVE CodeRequest(o)'
  BY <1>1, <1>2, <1>4, <1>5 DEF CodeRequest, StepIsSound
<1>6. SecretMoves
  BY <1>1, <1>2 DEF SecretMoves
<1>7. StepIsSound'
  BY <1>1, <1>4 DEF StepIsSound
<1> QED
  BY <1>1, <1>2, <1>5, <1>6, <1>7

\* A code is spent, and the request is done.
LEMMA CodesSpent ==
  ASSUME VersionsInvariant, CodesInvariant, NEW r \in Requests, U!SecondCommits(r)
  PROVE  CodesInvariant'
<1>1. PICK saw : saw = p4[r].saw
  OBVIOUS
<1>2. PICK code : code = p4[r].code
  OBVIOUS
<1>3. /\ p4[r].op = "second" /\ p1' = U!Spend(p1, saw, code) /\ p6' = p6 \cup {U!Note(saw, code)}
      /\ p8 \subseteq p8' /\ ("codes" \notin p8' => ~U!CodesRacedBy(saw))
      /\ p4' = [p4 EXCEPT ![r] = U!Idle]
  BY <1>1, <1>2 DEF U!SecondCommits, U!Finish
<1>4. UserRow(p1) /\ UserRow(saw) /\ saw.sets <= p1.sets /\ CodeShown(saw, code)
  BY <1>1, <1>2, <1>3 DEF VersionsInvariant, VersionRequest, Keeps
<1>5. UserRow(p1') /\ \A f \in {"version", "password", "secret", "on", "secrets", "sets"} : p1'[f] = p1[f]
  BY <1>3, <1>4, CodeSpent
<1>6. /\ p1'.secret = p1.secret /\ p1'.on = p1.on /\ p1'.secrets = p1.secrets /\ p1'.sets = p1.sets
      /\ p1.secret \in Nat /\ p1.step \in Nat /\ p1.secrets \in Nat /\ p1.sets \in Nat /\ saw.sets \in Nat
  BY <1>4, <1>5 DEF UserRow
<1> SUFFICES ASSUME "codes" \notin p8'
             PROVE  /\ SecretMoves /\ StepIsSound' /\ p1'.codes \subseteq p1.codes
                    /\ SpentIsPast(U!Note(saw, code))' /\ CodeRequest(r)'
  <2>1. \A o \in Requests \ {r} : p4'[o] = p4[o]
    BY <1>3 DEF VersionsInvariant
  <2> QED
    BY <1>3, <1>5, <1>6, <2>1, CodesMove
<1>7. saw.secret = p1.secret /\ saw.step = p1.step /\ saw.codes = p1.codes /\ StepIsSound /\ CodeRequest(r)
  BY <1>3 DEF U!CodesRacedBy, CodesInvariant
<1>8. p1.secret # 0 /\ p1.on = TRUE
  BY <1>1, <1>3, <1>7 DEF CodeRequest
<1>9. CodeRequest(r)'
  BY <1>3 DEF CodeRequest, U!Idle, VersionsInvariant
<1>10. ASSUME NEW s \in Nat, s > saw.step, code = <<"totp", s>>
       PROVE  /\ SecretMoves /\ StepIsSound' /\ p1'.codes \subseteq p1.codes
              /\ SpentIsPast(U!Note(saw, code))'
  <2>1. p1'.step = s /\ p1'.codes = p1.codes
    BY <1>3, <1>4, <1>10, CodeSpent
  <2>2. U!Note(saw, code) = <<"totp", p1.secret, s>>
    BY <1>7, <1>10 DEF U!Note
  <2>3. SpentIsPast(U!Note(saw, code))'
    BY <1>6, <1>7, <1>8, <2>1, <2>2 DEF SpentIsPast, StepIsSound
  <2>4. SecretMoves
    BY <1>6, <1>7, <1>8, <1>10, <2>1 DEF SecretMoves
  <2>5. StepIsSound'
    <3>1. p1'.step # 0 /\ p1'.on = TRUE /\ p1'.secret # 0
      BY <1>6, <1>7, <1>8, <1>10, <2>1
    <3> QED
      BY <1>6, <1>7, <3>1 DEF StepIsSound
  <2> QED
    BY <2>1, <2>3, <2>4, <2>5
<1>11. ASSUME NEW c \in saw.codes, code = <<"recovery", c>>
       PROVE  /\ SecretMoves /\ StepIsSound' /\ p1'.codes \subseteq p1.codes
              /\ SpentIsPast(U!Note(saw, code))'
  <2>1. p1'.step = p1.step /\ p1'.codes = saw.codes \ {c}
    BY <1>3, <1>4, <1>11, CodeSpent
  <2>2. /\ U!Note(saw, code) = <<"recovery", c[1], c[2]>> /\ c = <<c[1], c[2]>>
        /\ c[1] \in Nat /\ c[2] \in Nat /\ c[1] <= p1.sets
    BY <1>4, <1>6, <1>11 DEF U!Note, UserRow
  <2>3. SpentIsPast(U!Note(saw, code))'
    BY <1>6, <2>1, <2>2 DEF SpentIsPast
  <2>4. SecretMoves
    BY <1>6, <1>7, <1>8, <2>1 DEF SecretMoves
  <2>5. StepIsSound'
    BY <1>6, <1>7, <1>8, <2>1 DEF StepIsSound
  <2> QED
    BY <1>7, <2>1, <2>3, <2>4, <2>5
<1> QED
  BY <1>4, <1>9, <1>10, <1>11 DEF CodeShown

\* The second step is taken off, with a code, or its recovery codes replaced.
LEMMA CodesChanged ==
  ASSUME VersionsInvariant, CodesInvariant, NEW r \in Requests, U!ChangeCommits(r)
  PROVE  CodesInvariant'
<1>1. PICK saw : saw = p4[r].saw
  OBVIOUS
<1>2. PICK code : code = p4[r].code
  OBVIOUS
<1>3. /\ p4[r].op \in {"disable", "codes"} /\ p6' = p6 \cup {U!Note(saw, code)}
      /\ p8 \subseteq p8' /\ ("codes" \notin p8' => ~U!CodesRacedBy(saw))
      /\ p4' = [p4 EXCEPT ![r] = U!Idle]
  BY <1>1, <1>2 DEF U!ChangeCommits, U!Finish
<1>4. UserRow(p1) /\ UserRow(saw) /\ saw.sets <= p1.sets /\ CodeShown(saw, code)
  BY <1>1, <1>2, <1>3 DEF VersionsInvariant, VersionRequest, Keeps
<1>5. /\ p1.secret \in Nat /\ p1.step \in Nat /\ p1.secrets \in Nat /\ p1.sets \in Nat /\ saw.sets \in Nat
      /\ saw.step \in Nat
  BY <1>4 DEF UserRow
<1>6. UserRow(p1')
  BY VersionsChange DEF VersionsInvariant
<1> SUFFICES ASSUME "codes" \notin p8'
             PROVE  /\ SecretMoves /\ StepIsSound' /\ p1'.secrets = p1.secrets /\ p1'.sets >= p1.sets
                    /\ p1'.codes \subseteq U!Codes(p1.sets + 1)
                    /\ SpentIsPast(U!Note(saw, code))'
  <2>1. DOMAIN p4 = Requests /\ \A o \in Requests \ {r} : p4'[o] = p4[o]
    BY <1>3 DEF VersionsInvariant
  <2>2. CodeRequest(r)'
    BY <1>3, <2>1 DEF CodeRequest, U!Idle
  <2> QED
    BY <1>3, <1>5, <1>6, <2>1, <2>2, CodesMove
<1>7. saw.secret = p1.secret /\ saw.step = p1.step /\ saw.codes = p1.codes /\ StepIsSound /\ CodeRequest(r)
  BY <1>3 DEF U!CodesRacedBy, CodesInvariant
<1>8. p1.secret # 0 /\ p1.on = TRUE
  BY <1>1, <1>3, <1>7 DEF CodeRequest
<1>9. \/ \E s \in Nat : s > saw.step /\ code = <<"totp", s>> /\ U!Note(saw, code) = <<"totp", p1.secret, s>>
      \/ \E c \in saw.codes : /\ code = <<"recovery", c>> /\ U!Note(saw, code) = <<"recovery", c[1], c[2]>>
                              /\ c[1] \in Nat /\ c[2] \in Nat /\ c[1] <= p1.sets
  BY <1>4, <1>5, <1>7, CodeNoted
<1>10. CASE p4[r].op = "disable"
  <2>1. p1' = [p1 EXCEPT !.secret = 0, !.on = FALSE, !.step = 0, !.codes = {}]
    BY <1>10 DEF U!ChangeCommits, U!None
  <2>2. /\ p1'.secret = 0 /\ p1'.on = FALSE /\ p1'.step = 0 /\ p1'.codes = {} /\ p1'.secrets = p1.secrets
        /\ p1'.sets = p1.sets
    BY <1>4, <2>1 DEF UserRow, UserFields
  <2>3. SpentIsPast(U!Note(saw, code))'
    BY <1>5, <1>7, <1>8, <1>9, <2>2 DEF SpentIsPast, StepIsSound
  <2> QED
    BY <1>5, <2>2, <2>3 DEF SecretMoves, StepIsSound
<1>11. CASE p4[r].op = "codes"
  <2>1. PICK u : u = U!Spend(p1, saw, code)
    OBVIOUS
  <2>2. p1' = [u EXCEPT !.sets = @ + 1, !.codes = U!Codes(p1.sets + 1)]
    BY <1>1, <1>2, <1>11, <2>1 DEF U!ChangeCommits
  <2>3. /\ UserRow(u) /\ u.secret = p1.secret /\ u.on = p1.on /\ u.sets = p1.sets /\ u.secrets = p1.secrets
        /\ \/ \E s \in Nat : s > saw.step /\ code = <<"totp", s>> /\ u.step = s
           \/ \E c \in saw.codes : code = <<"recovery", c>> /\ u.step = p1.step
    BY <1>4, <2>1, CodeSpent
  <2>4. /\ p1'.secret = p1.secret /\ p1'.on = p1.on /\ p1'.step = u.step /\ p1'.secrets = p1.secrets
        /\ p1'.sets = p1.sets + 1 /\ p1'.codes = U!Codes(p1.sets + 1)
    BY <2>2, <2>3 DEF UserRow, UserFields
  <2>5. p1'.step >= p1.step /\ p1'.step # 0
    BY <1>5, <1>7, <1>8, <2>3, <2>4 DEF StepIsSound
  <2>6. SpentIsPast(U!Note(saw, code))'
    <3>1. ASSUME NEW s \in Nat, s > saw.step, code = <<"totp", s>>, U!Note(saw, code) = <<"totp", p1.secret, s>>
          PROVE  SpentIsPast(U!Note(saw, code))'
      <4>1. p1'.step = s
        BY <2>3, <2>4, <3>1
      <4> QED
        BY <1>5, <1>7, <1>8, <2>4, <3>1, <4>1 DEF SpentIsPast, StepIsSound
    <3>2. ASSUME NEW c, U!Note(saw, code) = <<"recovery", c[1], c[2]>>, c[1] \in Nat, c[2] \in Nat, c[1] <= p1.sets
          PROVE  SpentIsPast(U!Note(saw, code))'
      BY <1>5, <2>4, <3>2 DEF SpentIsPast, U!Codes
    <3> QED
      BY <1>9, <3>1, <3>2
  <2>7. SecretMoves
    BY <1>5, <1>8, <2>4, <2>5 DEF SecretMoves
  <2>8. StepIsSound'
    BY <1>7, <1>8, <2>4, <2>5 DEF StepIsSound
  <2> QED
    BY <1>5, <2>4, <2>6, <2>7, <2>8
<1> QED
  BY <1>3, <1>10, <1>11

\* All sessions end, with what that writes of the second step.
LEMMA CodesEnd ==
  ASSUME VersionsInvariant, CodesInvariant, NEW r \in Requests, U!EndsCommit(r)
  PROVE  CodesInvariant'
<1>1. PICK q : q = p4[r]
  OBVIOUS
<1>2. PICK w : w = U!Written(r)
  OBVIOUS
<1>3. /\ q.op \in U!Ends /\ p1' = [w EXCEPT !.version = q.saw.version + 1]
      /\ p6' = IF q.op = "enable" THEN p6 \cup {U!Note(q.saw, q.code)} ELSE p6
      /\ p8 \subseteq p8' /\ ("codes" \notin p8' /\ q.op = "enable" => ~U!CodesRacedBy(q.saw))
  BY <1>1, <1>2 DEF U!EndsCommit, U!Raised
<1>4. UserRow(p1) /\ q.op \in Keeps /\ VersionRequest(r)
  BY <1>3 DEF VersionsInvariant, U!Ends, Keeps
<1>5. UserRow(q.saw) /\ (q.op = "enable" => q.code[2] \in Nat)
  BY <1>1, <1>4 DEF VersionRequest
<1>6. /\ UserRow(w)
      /\ q.op \notin {"operator", "enable"} =>
           /\ w.on = p1.on /\ w.secret = p1.secret /\ w.step = p1.step
           /\ w.codes = p1.codes /\ w.secrets = p1.secrets /\ w.sets = p1.sets
      /\ q.op = "operator" =>
           /\ w.on = FALSE /\ w.secret = 0 /\ w.step = 0
           /\ w.codes = {} /\ w.secrets = p1.secrets /\ w.sets = p1.sets
      /\ q.op = "enable" =>
           /\ w.on = TRUE /\ w.secret = p1.secret /\ w.step = q.code[2]
           /\ w.codes = U!Codes(p1.sets + 1) /\ w.secrets = p1.secrets /\ w.sets = p1.sets + 1
  <2>1. p4[r].op \in U!Ends /\ (p4[r].op = "enable" => p4[r].code[2] \in Nat)
    BY <1>1, <1>3, <1>5
  <2>2. UserRow(U!Written(r))
    BY <1>4, <2>1, UserWritten
  <2>3. p4[r].op \notin {"operator", "enable"} =>
          /\ U!Written(r).on = p1.on /\ U!Written(r).secret = p1.secret /\ U!Written(r).step = p1.step
          /\ U!Written(r).codes = p1.codes /\ U!Written(r).secrets = p1.secrets /\ U!Written(r).sets = p1.sets
    BY <1>4, <2>1, UserWritten
  <2>4. p4[r].op = "operator" =>
          /\ U!Written(r).on = FALSE /\ U!Written(r).secret = 0 /\ U!Written(r).step = 0
          /\ U!Written(r).codes = {} /\ U!Written(r).secrets = p1.secrets /\ U!Written(r).sets = p1.sets
    BY <1>4, <2>1, UserWritten
  <2>5. p4[r].op = "enable" =>
          /\ U!Written(r).on = TRUE /\ U!Written(r).secret = p1.secret /\ U!Written(r).step = p4[r].code[2]
          /\ U!Written(r).codes = U!Codes(p1.sets + 1) /\ U!Written(r).secrets = p1.secrets
          /\ U!Written(r).sets = p1.sets + 1
    BY <1>4, <2>1, UserWritten
  <2> QED
    BY <1>1, <1>2, <2>2, <2>3, <2>4, <2>5
<1>7. /\ UserRow(p1') /\ p1'.on = w.on /\ p1'.secret = w.secret /\ p1'.step = w.step
      /\ p1'.codes = w.codes /\ p1'.secrets = w.secrets /\ p1'.sets = w.sets
  <2>1. q.saw.version + 1 \in Nat
    BY <1>5 DEF UserRow
  <2> QED
    BY <1>3, <1>6, <2>1 DEF UserRow, UserFields
<1>8. p1.secret \in Nat /\ p1.step \in Nat /\ p1.secrets \in Nat /\ p1.sets \in Nat
  BY <1>4 DEF UserRow
<1>9. /\ \A o \in Requests \ {r} : p4'[o] = p4[o]
      /\ p4'[r].op \in {"idle", "issue"}
  <2>1. CASE U!Finish(r)
    BY <2>1 DEF U!Finish, U!Idle, VersionsInvariant
  <2>2. ASSUME NEW v, U!IssuesNext(r, v)
        PROVE  p4'[r].op = "issue" /\ \A o \in Requests \ {r} : p4'[o] = p4[o]
    BY <2>2 DEF U!IssuesNext, VersionsInvariant
  <2> QED
    BY <2>1, <2>2 DEF U!EndsCommit
<1>10. CodeRequest(r)'
  BY <1>9 DEF CodeRequest
<1> SUFFICES ASSUME "codes" \notin p8'
             PROVE  /\ SecretMoves /\ StepIsSound' /\ p1'.secrets = p1.secrets /\ p1'.sets >= p1.sets
                    /\ p1'.codes \subseteq p1.codes \cup U!Codes(p1.sets + 1)
                    /\ \A x \in p6' : x \in p6 \/ SpentIsPast(x)'
  BY <1>3, <1>7, <1>8, <1>9, <1>10, CodesMove
<1>11. StepIsSound /\ CodeRequest(r)
  BY <1>3 DEF CodesInvariant
<1>12. CASE q.op # "enable"
  <2>1. SecretMoves
    BY <1>6, <1>7, <1>8, <1>12 DEF SecretMoves
  <2>2. StepIsSound'
    <3>1. CASE q.op = "operator"
      <4>1. p1'.on = FALSE /\ p1'.secret = 0 /\ p1'.step = 0 /\ p1'.secrets = p1.secrets
        BY <1>6, <1>7, <3>1
      <4> QED
        BY <1>8, <4>1 DEF StepIsSound
    <3>2. CASE q.op # "operator"
      <4>1. p1'.on = p1.on /\ p1'.secret = p1.secret /\ p1'.step = p1.step /\ p1'.secrets = p1.secrets
        BY <1>6, <1>7, <1>12, <3>2
      <4> QED
        BY <1>11, <4>1 DEF StepIsSound
    <3> QED
      BY <3>1, <3>2
  <2> QED
    BY <1>3, <1>6, <1>7, <1>8, <1>12, <2>1, <2>2
<1>13. CASE q.op = "enable"
  <2>1. q.saw.secret = p1.secret /\ q.saw.step = p1.step
    BY <1>3, <1>13 DEF U!CodesRacedBy
  <2>2. PICK s \in Nat \ {0} : q.code = <<"totp", s>>
    BY <1>1, <1>11, <1>13 DEF CodeRequest
  <2>3. p1.secret # 0 /\ p1.step = 0
    BY <1>1, <1>11, <1>13, <2>1 DEF CodeRequest
  <2>4. U!Note(q.saw, q.code) = <<"totp", p1.secret, s>> /\ p1'.step = s
    BY <1>6, <1>7, <1>13, <2>1, <2>2 DEF U!Note
  <2>5. SpentIsPast(U!Note(q.saw, q.code))'
    BY <1>6, <1>7, <1>8, <1>11, <1>13, <2>3, <2>4 DEF SpentIsPast, StepIsSound
  <2>6. SecretMoves
    BY <1>6, <1>7, <1>8, <1>13, <2>3, <2>4 DEF SecretMoves
  <2>7. StepIsSound'
    BY <1>6, <1>7, <1>11, <1>13, <2>3, <2>4 DEF StepIsSound
  <2> QED
    BY <1>3, <1>6, <1>7, <1>8, <1>13, <2>5, <2>6, <2>7
<1> QED
  BY <1>12, <1>13

LEMMA CodesSetUp ==
  ASSUME VersionsInvariant, CodesInvariant, NEW r \in Requests, U!SetupCommits(r)
  PROVE  CodesInvariant'
<1>1. /\ p1' = [p1 EXCEPT !.secret = p1.secrets + 1, !.secrets = @ + 1] /\ p6' = p6 /\ p8' = p8
      /\ p4' = [p4 EXCEPT ![r] = U!Idle]
  BY DEF U!SetupCommits, U!Finish
<1>2. UserRow(p1) /\ p1.secret \in Nat /\ p1.secrets \in Nat /\ p1.sets \in Nat /\ DOMAIN p4 = Requests
  BY DEF VersionsInvariant, UserRow
<1>3. /\ UserRow(p1') /\ p1'.secret = p1.secrets + 1 /\ p1'.secrets = p1.secrets + 1 /\ p1'.on = p1.on
      /\ p1'.step = p1.step /\ p1'.codes = p1.codes /\ p1'.sets = p1.sets
  BY <1>1, <1>2 DEF UserRow, UserFields
<1>4. CodeRequest(r)' /\ \A o \in Requests \ {r} : p4'[o] = p4[o]
  BY <1>1, <1>2 DEF CodeRequest, U!Idle
<1>5. "codes" \notin p8' => SecretMoves /\ StepIsSound'
  <2> SUFFICES ASSUME "codes" \notin p8' PROVE SecretMoves /\ StepIsSound'
    OBVIOUS
  <2>1. StepIsSound
    BY <1>1 DEF CodesInvariant
  <2>2. SecretMoves
    BY <1>2, <1>3 DEF SecretMoves
  <2>3. /\ p1'.secret <= p1'.secrets /\ p1'.secret # 0
        /\ p1'.on = TRUE => p1'.step # 0
        /\ p1'.on # TRUE => p1'.step = 0
    <3>1. p1.secrets + 1 <= p1.secrets + 1 /\ p1.secrets + 1 # 0
      BY <1>2
    <3> QED
      BY <1>3, <2>1, <3>1 DEF StepIsSound
  <2>4. StepIsSound'
    BY <2>3 DEF StepIsSound
  <2> QED
    BY <2>2, <2>4
<1> QED
  BY <1>1, <1>2, <1>3, <1>4, <1>5, CodesMove

LEMMA CodesStep ==
  ASSUME VersionsInvariant, VersionsInvariant', CodesInvariant, [U!Next]_U!vars PROVE CodesInvariant'
<1>0. UserRow(p1) /\ UserRow(p1') /\ DOMAIN p4 = Requests
  BY DEF VersionsInvariant
<1>1. ASSUME NEW r \in Requests, NEW what, p4' = [p4 EXCEPT ![r] = what],
             what.op \notin {"second", "disable", "codes", "enable"}, UNCHANGED <<p1, p6, p8>>
      PROVE  CodesInvariant'
  <2>1. p4'[r] = what /\ \A o \in Requests \ {r} : p4'[o] = p4[o]
    BY <1>0, <1>1
  <2> QED
    BY <1>0, <1>1, <2>1, CodesStand
<1>2. ASSUME NEW r \in Requests, NEW op, NEW t, NEW code, p4' = [p4 EXCEPT ![r] = U!With(op, t, code)],
             UNCHANGED <<p1, p6, p8>>,
             \/ op \in {"second", "disable", "codes"} /\ p1.on = TRUE
             \/ op = "enable" /\ p1.on # TRUE /\ p1.secret # 0 /\ \E s \in Nat \ {0} : code = <<"totp", s>>
      PROVE  CodesInvariant'
  <2>1. PICK what : what = U!With(op, t, code)
    OBVIOUS
  <2>2. what.op = op /\ what.saw = p1 /\ what.code = code
    BY <2>1 DEF U!With
  <2>3. p4'[r] = what /\ \A o \in Requests \ {r} : p4'[o] = p4[o]
    BY <1>0, <1>2, <2>1
  <2>4. CASE "codes" \in p8
    BY <1>2, <2>4 DEF CodesInvariant
  <2>5. CASE "codes" \notin p8
    <3>1. p1.on = TRUE => p1.secret # 0
      BY <2>5 DEF CodesInvariant, StepIsSound
    <3>2. /\ op \in {"second", "disable", "codes", "enable"} => p1.secret # 0
          /\ op \in {"second", "disable", "codes"} => p1.on = TRUE
          /\ op = "enable" => p1.on # TRUE /\ \E s \in Nat \ {0} : code = <<"totp", s>>
      BY <1>2, <3>1
    <3>3. /\ p4'[r].op \in {"second", "disable", "codes", "enable"} => p4'[r].saw = p1 /\ p1.secret # 0
          /\ p4'[r].op \in {"second", "disable", "codes"} => p1.on = TRUE
          /\ p4'[r].op = "enable" => p1.on # TRUE /\ \E s \in Nat \ {0} : p4'[r].code = <<"totp", s>>
      BY <2>2, <2>3, <3>2
    <3>4. p8 \subseteq p8' /\ p6' = p6 /\ UserRow(p1')
      BY <1>0, <1>2
    <3>5. \A f \in {"secret", "on", "step", "codes", "secrets", "sets"} : p1'[f] = p1[f]
      BY <1>2
    <3>6. \A o \in Requests : p4'[o] = p4[o] \/ o = r
      BY <2>3
    <3> QED
      BY <3>3, <3>4, <3>5, <3>6, CodesStand
  <2> QED
    BY <2>4, <2>5
<1>3. ASSUME NEW r \in Requests,
             \/ U!Login(r) \/ U!Exchange(r) \/ U!ChangePassword(r)
             \/ U!EndAll(r) \/ U!Replay(r) \/ U!Operator(r) \/ U!Reset(r) \/ U!Setup(r)
      PROVE  CodesInvariant'
  <2>1. ASSUME NEW op \in {"login", "exchange", "password"}, NEW t, NEW code, U!Begin(r, U!With(op, t, code))
        PROVE  CodesInvariant'
    <3>1. U!With(op, t, code).op = op
      BY DEF U!With
    <3> QED
      BY <1>1, <2>1, <3>1 DEF U!Begin
  <2>2. ASSUME NEW op \in {"end", "replay", "operator", "reset", "setup"}, U!Begin(r, U!Saw(op))
        PROVE  CodesInvariant'
    <3>1. U!Saw(op).op = op
      BY DEF U!Saw
    <3> QED
      BY <1>1, <2>2, <3>1 DEF U!Begin
  <2>3. CASE U!Login(r) \/ U!Exchange(r) \/ U!ChangePassword(r)
    BY <2>1, <2>3 DEF U!Login, U!Exchange, U!ChangePassword
  <2>4. CASE U!EndAll(r) \/ U!Replay(r) \/ U!Operator(r) \/ U!Reset(r) \/ U!Setup(r)
    BY <2>2, <2>4 DEF U!EndAll, U!Replay, U!Operator, U!Reset, U!Setup
  <2> QED
    BY <1>3, <2>3, <2>4
<1>4. ASSUME NEW r \in Requests, U!Second(r) \/ U!Disable(r) \/ U!NewCodes(r) PROVE CodesInvariant'
  <2>0. p1.on => p1.on = TRUE
    BY <1>0 DEF UserRow
  <2>1. CASE U!Second(r)
    <3>1. PICK code : p4' = [p4 EXCEPT ![r] = U!With("second", U!None, code)] /\ p1.on
      BY <2>1 DEF U!Second
    <3>2. UNCHANGED <<p1, p6, p8>>
      BY <2>1 DEF U!Second
    <3> QED
      BY <1>2, <2>0, <3>1, <3>2
  <2>2. CASE U!Disable(r) \/ U!NewCodes(r)
    <3>1. PICK op \in {"disable", "codes"} : U!Change(r, op)
      BY <2>2 DEF U!Disable, U!NewCodes
    <3>2. PICK t, code : U!Begin(r, U!With(op, t, code)) /\ p1.on
      BY <3>1 DEF U!Change
    <3>3. p4' = [p4 EXCEPT ![r] = U!With(op, t, code)] /\ UNCHANGED <<p1, p6, p8>>
      BY <3>2 DEF U!Begin
    <3> QED
      BY <1>2, <2>0, <3>1, <3>2, <3>3
  <2> QED
    BY <1>4, <2>1, <2>2
<1>5. ASSUME NEW r \in Requests, U!Enable(r) PROVE CodesInvariant'
  <2>1. PICK t \in p2, s \in U!Moments :
          /\ ~p1.on /\ p1.secret # 0
          /\ U!Begin(r, U!With("enable", t, <<"totp", s>>))
    BY <1>5 DEF U!Enable, U!None
  <2>2. s \in Nat \ {0}
    BY DEF U!Moments
  <2> QED
    BY <1>2, <2>1, <2>2 DEF U!Begin
<1>6. U!Idle.op = "idle"
  BY DEF U!Idle
<1>7. ASSUME NEW r \in Requests, U!LoginCommits(r) PROVE CodesInvariant'
  <2>1. PICK what : p4' = [p4 EXCEPT ![r] = what]
                    /\ (what = U!Idle \/ \E v : what = [op |-> "challenge", version |-> v])
    BY <1>7 DEF U!LoginCommits, U!Finish
  <2>2. what.op \in {"idle", "challenge"}
    BY <2>1, <1>6
  <2> QED
    BY <1>1, <1>7, <2>1, <2>2 DEF U!LoginCommits
<1>8. ASSUME NEW r \in Requests, U!ExchangeCommits(r) PROVE CodesInvariant'
  <2>1. CASE U!Finish(r)
    BY <1>1, <1>6, <1>8, <2>1 DEF U!ExchangeCommits, U!Finish
  <2>2. CASE U!IssuesNext(r, p4[r].saw.version)
    <3>1. p4'[r].op = "issue" /\ \A o \in Requests \ {r} : p4'[o] = p4[o]
      BY <1>0, <2>2 DEF U!IssuesNext
    <3>2. UNCHANGED <<p1, p6, p8>>
      BY <1>8 DEF U!ExchangeCommits
    <3> QED
      BY <1>0, <3>1, <3>2, CodesStand
  <2> QED
    BY <1>8, <2>1, <2>2 DEF U!ExchangeCommits
<1>9. ASSUME NEW r \in Requests, U!Issue(r) \/ U!GivesUp(r) PROVE CodesInvariant'
  BY <1>1, <1>6, <1>9 DEF U!Issue, U!GivesUp, U!Finish
<1>10. ASSUME UNCHANGED <<p1, p4, p6, p8>> PROVE CodesInvariant'
  BY <1>0, <1>10, CodesStand
<1>11. CASE U!GraceEnds \/ U!Logout \/ U!EndSession \/ U!RequestReset \/ U!Tick \/ UNCHANGED U!vars
  BY <1>10, <1>11 DEF U!GraceEnds, U!Logout, U!EndSession, U!RequestReset, U!Tick, U!vars
<1>12. ASSUME NEW r \in Requests, U!SecondCommits(r) \/ U!ChangeCommits(r) \/ U!EndsCommit(r) \/ U!SetupCommits(r)
       PROVE  CodesInvariant'
  BY <1>12, CodesSpent, CodesChanged, CodesEnd, CodesSetUp
<1> QED
  BY <1>3, <1>4, <1>5, <1>7, <1>8, <1>9, <1>11, <1>12 DEF U!Next

--------------------------------------------------------------------------------
\* A link is for a password there was, and used up once there is another.
LinksInvariant ==
  \A l \in p3 : /\ DOMAIN l = {"no", "used", "made"} /\ l.made \in Nat /\ l.made <= p1.password
                /\ l.made < p1.password => l.used = TRUE

LEMMA LinksStep ==
  ASSUME VersionsInvariant, LinksInvariant, [U!Next]_U!vars PROVE LinksInvariant'
<1>0. UserRow(p1) /\ p1.password \in Nat
  BY DEF VersionsInvariant, UserRow
<1>1. ASSUME p1'.password = p1.password, p3' = p3 PROVE LinksInvariant'
  BY <1>1 DEF LinksInvariant
<1>2. CASE U!RequestReset
  <2>1. PICK n : p3' = p3 \cup {[no |-> n, used |-> FALSE, made |-> p1.password]} /\ p1' = p1
    BY <1>2 DEF U!RequestReset
  <2>2. \A l \in p3' : l \in p3 \/ (DOMAIN l = {"no", "used", "made"} /\ l.made = p1.password)
    BY <2>1
  <2> QED
    BY <1>0, <2>1, <2>2 DEF LinksInvariant
<1>3. ASSUME NEW r \in Requests, U!EndsCommit(r) PROVE LinksInvariant'
  <2>1. p4[r].op \in U!Ends /\ (p4[r].op = "enable" => p4[r].code[2] \in Nat) /\ p4[r].op \in Keeps
    BY <1>3 DEF U!EndsCommit, U!Ends, Keeps, VersionsInvariant, VersionRequest
  <2>2. PICK w : w = U!Written(r)
    OBVIOUS
  <2>3. UserRow(w)
    BY <1>0, <2>1, <2>2, UserWritten
  <2>4. p4[r].op \in {"password", "reset"} => w.password = p1.password + 1
    BY <1>0, <2>1, <2>2, UserWritten
  <2>5. p4[r].op \notin {"password", "reset"} => w.password = p1.password
    BY <1>0, <2>1, <2>2, UserWritten
  <2>6. p1'.password = w.password
    BY <1>3, <2>2, <2>3 DEF U!EndsCommit, UserRow, UserFields
  <2>7. CASE p4[r].op \in {"password", "reset"}
    <3>1. p3' = {[l EXCEPT !.used = TRUE] : l \in p3} /\ p1'.password = p1.password + 1
      BY <1>3, <2>4, <2>6, <2>7 DEF U!EndsCommit
    <3>2. ASSUME NEW l \in p3'
          PROVE  DOMAIN l = {"no", "used", "made"} /\ l.made \in Nat /\ l.made <= p1.password /\ l.used = TRUE
      <4>1. PICK k \in p3 : l = [k EXCEPT !.used = TRUE]
        BY <3>1
      <4>2. DOMAIN k = {"no", "used", "made"} /\ k.made \in Nat /\ k.made <= p1.password
        BY DEF LinksInvariant
      <4> QED
        BY <4>1, <4>2
    <3> QED
      BY <1>0, <3>1, <3>2 DEF LinksInvariant
  <2>8. CASE p4[r].op \notin {"password", "reset"}
    BY <1>1, <1>3, <2>5, <2>6, <2>8 DEF U!EndsCommit
  <2> QED
    BY <2>7, <2>8
<1>4. ASSUME NEW r \in Requests, U!SecondCommits(r) \/ U!ChangeCommits(r) \/ U!SetupCommits(r) PROVE LinksInvariant'
  <2>1. p3' = p3
    BY <1>4 DEF U!SecondCommits, U!ChangeCommits, U!SetupCommits
  <2>2. CASE U!SetupCommits(r)
    BY <1>0, <1>1, <2>1, <2>2 DEF U!SetupCommits, UserRow, UserFields
  <2>3. CASE U!SecondCommits(r) \/ U!ChangeCommits(r)
    <3>1. p4[r].op \in {"second", "disable", "codes"}
      BY <2>3 DEF U!SecondCommits, U!ChangeCommits
    <3>2. UserRow(p4[r].saw) /\ p4[r].saw.sets <= p1.sets /\ CodeShown(p4[r].saw, p4[r].code)
      BY <3>1 DEF VersionsInvariant, VersionRequest, Keeps
    <3>3. PICK u : u = U!Spend(p1, p4[r].saw, p4[r].code)
      OBVIOUS
    <3>4. UserRow(u) /\ u.password = p1.password
      BY <1>0, <3>2, <3>3, CodeSpent
    <3>5. \/ p1' = u
          \/ p1' = [p1 EXCEPT !.secret = U!None, !.on = FALSE, !.step = U!None, !.codes = {}]
          \/ p1' = [u EXCEPT !.sets = @ + 1, !.codes = U!Codes(p1.sets + 1)]
      BY <2>3, <3>3 DEF U!SecondCommits, U!ChangeCommits
    <3>6. p1'.password = p1.password
      BY <1>0, <3>4, <3>5 DEF UserRow, UserFields
    <3> QED
      BY <1>1, <2>1, <3>6
  <2> QED
    BY <1>4, <2>2, <2>3
<1>5. ASSUME UNCHANGED <<p1, p3>> PROVE LinksInvariant'
  BY <1>1, <1>5
<1>6. CASE U!GraceEnds \/ U!Logout \/ U!EndSession \/ U!Tick \/ UNCHANGED U!vars
  BY <1>5, <1>6 DEF U!GraceEnds, U!Logout, U!EndSession, U!Tick, U!vars
<1>7. ASSUME NEW r \in Requests,
             \/ U!Login(r) \/ U!Exchange(r) \/ U!ChangePassword(r) \/ U!Enable(r) \/ U!Second(r)
             \/ U!EndAll(r) \/ U!Replay(r) \/ U!Operator(r) \/ U!Reset(r) \/ U!Setup(r) \/ U!Disable(r) \/ U!NewCodes(r)
      PROVE  LinksInvariant'
  <2>1. (\E what : U!Begin(r, what)) \/ U!Second(r)
    BY <1>7 DEF U!Login, U!Exchange, U!ChangePassword, U!Enable, U!EndAll, U!Replay, U!Operator, U!Reset, U!Setup,
                U!Disable, U!NewCodes, U!Change
  <2> QED
    BY <1>5, <2>1 DEF U!Begin, U!Second
<1>8. ASSUME NEW r \in Requests, U!LoginCommits(r) \/ U!ExchangeCommits(r) \/ U!Issue(r) \/ U!GivesUp(r)
      PROVE  LinksInvariant'
  BY <1>5, <1>8 DEF U!LoginCommits, U!ExchangeCommits, U!Issue, U!GivesUp
<1> QED
  BY <1>2, <1>3, <1>4, <1>6, <1>7, <1>8 DEF U!Next

--------------------------------------------------------------------------------
SessionsInvariant == PairsInvariant /\ VersionsInvariant /\ CodesInvariant /\ LinksInvariant

LEMMA SessionsStart == U!Init => SessionsInvariant
<1> SUFFICES ASSUME U!Init PROVE SessionsInvariant
  OBVIOUS
<1>1. /\ p1 = [version |-> 0, password |-> 1, secret |-> 0, on |-> FALSE, step |-> 0, codes |-> {},
               secrets |-> 0, sets |-> 0]
      /\ p2 = {} /\ p3 = {} /\ p6 = {} /\ DOMAIN p4 = Requests
  BY DEF U!Init, U!None
<1>2. \A r \in Requests : p4[r].op = "idle"
  BY DEF U!Init, U!Idle
<1>3. PairsInvariant
  BY <1>1, <1>2, FS_EmptySet DEF PairsInvariant, PairRequest, Numbered, Issues
<1>4. UserRow(p1)
  BY <1>1 DEF UserRow, UserFields
<1>5. VersionsInvariant
  BY <1>1, <1>2, <1>4 DEF VersionsInvariant, VersionRequest, Keeps
<1>6. CodesInvariant
  BY <1>1, <1>2 DEF CodesInvariant, StepIsSound, CodeRequest
<1>7. LinksInvariant
  BY <1>1 DEF LinksInvariant
<1> QED
  BY <1>3, <1>5, <1>6, <1>7 DEF SessionsInvariant

LEMMA SessionsStep == SessionsInvariant /\ [U!Next]_U!vars => SessionsInvariant'
BY PairsStep, VersionsStep, CodesStep, LinksStep DEF SessionsInvariant

LEMMA SessionsHold == SessionsInvariant => U!SessionsEndForGood /\ U!LinksDoNotUndo /\ U!CodesWorkOnce
<1> SUFFICES ASSUME SessionsInvariant PROVE U!SessionsEndForGood /\ U!LinksDoNotUndo /\ U!CodesWorkOnce
  OBVIOUS
<1>1. PairsInvariant /\ VersionsInvariant /\ CodesInvariant /\ LinksInvariant
  BY DEF SessionsInvariant
<1>2. U!EndedStaysEnded
  <2> SUFFICES ASSUME NEW t \in p2, t.over PROVE t.row = "none" /\ (U!Current(t) => "version" \in p8)
    BY DEF U!EndedStaysEnded
  <2>1. t.row = "none" /\ PairFits(t) /\ p1.version \in Nat
    BY <1>1 DEF PairsInvariant, VersionsInvariant, UserRow
  <2> QED
    BY <2>1 DEF PairFits, U!Current
<1>3. U!ExchangedOnce
  BY <1>1 DEF U!ExchangedOnce, U!None, PairsInvariant
<1>4. U!OnMeansTwoSteps
  BY <1>1 DEF U!OnMeansTwoSteps, U!Current, VersionsInvariant, PairFits, Entered
<1>5. U!LinksDoNotUndo
  BY <1>1 DEF U!LinksDoNotUndo, LinksInvariant
<1>6. U!CodesWorkOnce
  BY <1>1, CodesWork
<1> QED
  BY <1>2, <1>3, <1>4, <1>5, <1>6 DEF U!SessionsEndForGood

--------------------------------------------------------------------------------
(* Upgrades: p2 is the schema, p3 the users, p4 their organizations, p5    *)
(* the rows, p6 the settings, p7 the processes.                            *)

OrgFields == {"owner", "no", "default", "slug"}
ProcessFields == {"pc", "looked", "found", "knew"}

OrgRecord(o) == o = [f \in OrgFields |-> o[f]]

\* Whoever has a company has a first one.
OrgsInvariant ==
  /\ \A o \in p4 : /\ DOMAIN o = OrgFields /\ OrgRecord(o) /\ o.no \in Nat /\ o.no >= 1
                   /\ o.default \in BOOLEAN /\ o.slug \in BOOLEAN /\ o.owner \in p3
                   /\ \E f \in p4 : f.owner = o.owner /\ f.no = 1
  /\ \A u \in p3 : IsFiniteSet(G!Seats(u))

Seated(u) == \E o \in p4 : o.owner = u

\* A row that names a company names its author's first one.
RowsInvariant ==
  /\ OldOwners \subseteq p3 /\ p3 \cap Others = {}
  /\ \A r \in p5 : /\ DOMAIN r = {"author", "no", "org"}
                   /\ r.author \in p3 \cup Others
                   /\ r.org = 0 \/ (r.org = 1 /\ Seated(r.author))

\* The settings of the users from before are there, by company once they are kept so.
ConfigInvariant ==
  /\ \A c \in p6 : DOMAIN c = {"author", "org"}
  /\ \A u \in OldOwners : \E c \in p6 : c.author = u
  /\ G!Keyed \in p2 => \A c \in p6 : c.org = 1 /\ Seated(c.author)

\* What a step was to add is there.
Made(k, s) == IF k = 4 THEN G!Keyed \in s \/ G!Bare \in s ELSE G!Adds(k) \subseteq s

Known(p, r) == <<r.author, r.no>> \in p7[p].knew

\* Whose companies a process sees to: the users from before, and the authors it found.
Meant(p, u) == u \in OldOwners \/ \E r \in p5 : r.author = u /\ Known(p, r)

\* How far a process has come, and what there is since.
Progress(p) ==
  LET b == p7[p] IN
  /\ DOMAIN b = ProcessFields /\ b.pc \in 0..11 /\ b.looked \in BOOLEAN
  /\ b.looked = TRUE => b.pc \in 1..10
  /\ \A n \in b.knew : \E r \in p5 : n = <<r.author, r.no>>
  /\ \A k \in 1..(b.pc - 1) : Made(k, p2)
  /\ b.pc > 5 => G!Unique \in p2
  /\ b.looked = TRUE /\ b.pc # 2 => b.found \subseteq G!Adds(b.pc) /\ Made(b.pc, p2 \cup b.found)
  /\ b.looked = TRUE /\ b.pc = 2 => b.found \subseteq p3 /\ \A u \in p3 : Meant(p, u) => Seated(u) \/ u \in b.found
  /\ b.pc > 2 => \A u \in p3 : Meant(p, u) => Seated(u)
  /\ b.pc > 3 => \A r \in p5 : Known(p, r) /\ r.author \in p3 => r.org = 1

\* An organization with no default seat, or no short name, has a process to come that sees
\* to it.
OrgsToCome ==
  /\ \A o \in p4 : o.default # TRUE => \E p \in Processes : p7[p].pc <= 7
  /\ \A o \in p4 : o.slug # TRUE => \E p \in Processes : p7[p].pc <= 8

UpgradesInvariant ==
  /\ OrgsInvariant /\ RowsInvariant /\ ConfigInvariant /\ DOMAIN p7 = Processes
  /\ \A p \in Processes : Progress(p)
  /\ OrgsToCome

\* Whoever has a company has a seat in one.
LEMMA SeatsOf == \A u : Seated(u) <=> G!Seats(u) # {}
BY DEF Seated, G!Seats

\* The company a row is filled with is its author's first.
LEMMA HomeIsFirst ==
  ASSUME OrgsInvariant, NEW u
  PROVE  G!Home(u) = IF Seated(u) THEN 1 ELSE 0
<1>1. CASE ~Seated(u)
  BY <1>1, SeatsOf DEF G!Home, G!None
<1>2. CASE Seated(u)
  <2> DEFINE nos == {o.no : o \in G!Seats(u)}
             Least(n) == \A o \in G!Seats(u) : n <= o.no
  <2>1. \A o \in G!Seats(u) : o.no \in Nat /\ o.no >= 1
    BY DEF OrgsInvariant, G!Seats
  <2>2. 1 \in nos
    BY <1>2 DEF OrgsInvariant, Seated, G!Seats
  <2>3. Least(1)
    BY <2>1
  <2>4. ASSUME NEW n \in nos, Least(n) PROVE n = 1
    <3>1. n \in Nat /\ n >= 1
      BY <2>1
    <3>2. n <= 1
      BY <2>2, <2>4
    <3> QED
      BY <3>1, <3>2
  <2>5. G!Home(u) = CHOOSE n \in nos : Least(n)
    BY <1>2, SeatsOf DEF G!Home
  <2> HIDE DEF nos, Least
  <2>6. (CHOOSE n \in nos : Least(n)) = 1
    BY <2>2, <2>3, <2>4
  <2> QED
    BY <1>2, <2>5, <2>6
<1> QED
  BY <1>1, <1>2

\* What each step adds to the schema.
LEMMA StepsAdd ==
  /\ G!Adds(1) = {<<1, 1>>} /\ G!Adds(2) = {} /\ G!Adds(3) = {} /\ G!Adds(4) = {G!Keyed} /\ G!Adds(5) = {}
  /\ G!Adds(6) = {} /\ G!Adds(7) = {} /\ G!Adds(8) = {} /\ G!Adds(9) = {<<9, 1>>}
  /\ G!Adds(10) = {<<10, 1>>, <<10, 2>>}
BY DEF G!Adds, G!Rebuilt, G!Additive, G!Keyed

\* What a step made stays made while the schema grows.
LEMMA MadeStays == \A k, s, t : s \subseteq t /\ Made(k, s) => Made(k, t)
BY DEF Made

\* A database of whatever release starts so.
LEMMA UpgradesStart == G!Init => UpgradesInvariant
<1> SUFFICES ASSUME G!Init PROVE UpgradesInvariant
  OBVIOUS
<1>1. PICK h \in {0} \cup (4..10) :
        /\ p2 = (UNION {G!Adds(k) : k \in 1..h}) \cup (IF h >= 5 THEN {G!Unique} ELSE {})
        /\ p4 = IF h = 0 THEN {} ELSE {[G!Org(u, 1) EXCEPT !.default = h >= 7, !.slug = h >= 8] : u \in OldOwners}
        /\ \E authors \in {OldOwners, G!Authors} :
             p5 = {[author |-> u, no |-> 1, org |-> IF h > 0 /\ u \in OldOwners THEN 1 ELSE 0] : u \in authors}
        /\ p6 = {[author |-> u, org |-> IF h = 0 THEN 0 ELSE 1] : u \in (IF h = 0 THEN G!Authors ELSE OldOwners)}
  BY DEF G!Init, G!Last, G!None
<1>2. p3 = OldOwners /\ p7 = [p \in Processes |-> G!Down]
  BY DEF G!Init
<1>3. ASSUME NEW o \in p4
      PROVE  /\ DOMAIN o = OrgFields /\ OrgRecord(o) /\ o.no = 1 /\ o.default \in BOOLEAN /\ o.slug \in BOOLEAN
             /\ \E u \in OldOwners : o = [G!Org(u, 1) EXCEPT !.default = h >= 7, !.slug = h >= 8] /\ o.owner = u
             /\ h # 0
  <2>1. PICK u \in OldOwners : o = [G!Org(u, 1) EXCEPT !.default = h >= 7, !.slug = h >= 8]
    BY <1>1
  <2>2. o = [owner |-> u, no |-> 1, default |-> h >= 7, slug |-> h >= 8]
    BY <2>1 DEF G!Org
  <2>3. (h >= 7) \in BOOLEAN /\ (h >= 8) \in BOOLEAN
    OBVIOUS
  <2>4. DOMAIN o = OrgFields /\ OrgRecord(o) /\ o.no = 1 /\ o.owner = u
    BY <2>2 DEF OrgFields, OrgRecord
  <2>5. o.default \in BOOLEAN /\ o.slug \in BOOLEAN
    BY <2>2, <2>3
  <2>6. h # 0
    BY <1>1
  <2> QED
    BY <2>1, <2>4, <2>5, <2>6
<1>4. OrgsInvariant
  <2>1. ASSUME NEW u \in p3 PROVE IsFiniteSet(G!Seats(u))
    <3>1. PICK one : one = [G!Org(u, 1) EXCEPT !.default = h >= 7, !.slug = h >= 8]
      OBVIOUS
    <3>2. ASSUME NEW o \in G!Seats(u) PROVE o = one
      <4>1. o \in p4 /\ o.owner = u
        BY DEF G!Seats
      <4>2. PICK v \in OldOwners : o = [G!Org(v, 1) EXCEPT !.default = h >= 7, !.slug = h >= 8] /\ o.owner = v
        BY <1>3, <4>1
      <4> QED
        BY <3>1, <4>1, <4>2
    <3> QED
      BY <3>2, FS_Singleton, FS_Subset
  <2>2. ASSUME NEW o \in p4
        PROVE  o.no \in Nat /\ o.no >= 1 /\ o.owner \in p3 /\ \E f \in p4 : f.owner = o.owner /\ f.no = 1
    <3>1. o.no = 1 /\ o.owner \in OldOwners
      BY <1>3
    <3> QED
      BY <1>2, <3>1
  <2> QED
    BY <1>3, <2>1, <2>2 DEF OrgsInvariant
<1>5. h # 0 => \A u \in OldOwners : Seated(u)
  <2> SUFFICES ASSUME h # 0, NEW u \in OldOwners PROVE Seated(u)
    OBVIOUS
  <2>1. PICK o : o = [G!Org(u, 1) EXCEPT !.default = h >= 7, !.slug = h >= 8]
    OBVIOUS
  <2>2. o \in p4
    BY <1>1, <2>1
  <2>3. o.owner = u
    BY <2>1 DEF G!Org
  <2> QED
    BY <2>2, <2>3 DEF Seated
<1>6. OldOwners \cap Others = {}
  BY AccessAssumption DEF G!MigrationAssumption
<1>7. RowsInvariant
  <2> SUFFICES ASSUME NEW r \in p5
               PROVE  /\ DOMAIN r = {"author", "no", "org"} /\ r.author \in p3 \cup Others
                      /\ r.org = 0 \/ (r.org = 1 /\ Seated(r.author))
    BY <1>2, <1>6 DEF RowsInvariant
  <2>1. PICK u \in G!Authors : r = [author |-> u, no |-> 1, org |-> IF h > 0 /\ u \in OldOwners THEN 1 ELSE 0]
    BY <1>1 DEF G!Authors
  <2>2. u \in OldOwners \cup Others
    BY DEF G!Authors
  <2> QED
    BY <1>2, <1>5, <2>1, <2>2
<1>8. G!Keyed \in p2 => h # 0
  <2>1. h = 0 => {G!Adds(k) : k \in 1..h} = {}
    OBVIOUS
  <2>2. h = 0 => p2 = {}
    BY <1>1, <2>1
  <2> QED
    BY <2>2
<1>9. ConfigInvariant
  <2>1. ASSUME NEW c \in p6
        PROVE  DOMAIN c = {"author", "org"} /\ (h # 0 => c.org = 1 /\ c.author \in OldOwners)
    <3>1. PICK u \in (IF h = 0 THEN G!Authors ELSE OldOwners) : c = [author |-> u, org |-> IF h = 0 THEN 0 ELSE 1]
      BY <1>1
    <3> QED
      BY <3>1
  <2>2. ASSUME NEW u \in OldOwners PROVE \E c \in p6 : c.author = u
    <3>1. PICK c : c = [author |-> u, org |-> IF h = 0 THEN 0 ELSE 1]
      OBVIOUS
    <3>2. u \in IF h = 0 THEN G!Authors ELSE OldOwners
      BY DEF G!Authors
    <3>3. c \in p6
      BY <1>1, <3>1, <3>2
    <3> QED
      BY <3>1, <3>3
  <2>3. h # 0 => \A c \in p6 : c.org = 1 /\ Seated(c.author)
    BY <1>5, <2>1
  <2> QED
    BY <1>8, <2>1, <2>2, <2>3 DEF ConfigInvariant
<1>10. ASSUME NEW p \in Processes PROVE Progress(p) /\ p7[p].pc = 0
  <2>1. /\ DOMAIN p7[p] = ProcessFields /\ p7[p].pc = 0 /\ p7[p].looked = FALSE /\ p7[p].found = {} /\ p7[p].knew = {}
    BY <1>2 DEF G!Down, ProcessFields
  <2>2. /\ 1..(p7[p].pc - 1) = {} /\ p7[p].pc \in 0..11
        /\ ~(p7[p].pc > 5) /\ ~(p7[p].pc > 2) /\ ~(p7[p].pc > 3)
    <3>1. 1..(0 - 1) = {} /\ 0 \in 0..11 /\ ~(0 > 5) /\ ~(0 > 2) /\ ~(0 > 3)
      OBVIOUS
    <3> QED
      BY <2>1, <3>1, Zenon
  <2>4. p7[p].looked \in BOOLEAN /\ p7[p].looked # TRUE
    BY <2>1
  <2> QED
    BY <2>1, <2>2, <2>4, Zenon DEF Progress
<1>11. OrgsToCome
  <2>1. \E p \in Processes : TRUE
    BY AccessAssumption DEF G!MigrationAssumption
  <2>2. \E p \in Processes : p7[p].pc <= 7 /\ p7[p].pc <= 8
    BY <1>10, <2>1
  <2> QED
    BY <2>2 DEF OrgsToCome
<1> QED
  BY <1>2, <1>4, <1>7, <1>9, <1>10, <1>11 DEF UpgradesInvariant

--------------------------------------------------------------------------------
\* What no step takes away: the schema and the users grow, whoever has a company keeps one,
\* and a row stays in its company; one that comes is new.
Onward ==
  /\ p2 \subseteq p2' /\ p3 \subseteq p3'
  /\ \A u : Seated(u) => Seated(u)'
  /\ \A r \in p5 : /\ r.author \in p3' => r.author \in p3
                   /\ \E s \in p5' : s.author = r.author /\ s.no = r.no
  /\ \A s \in p5' : \/ \E r \in p5 : r.author = s.author /\ r.no = s.no /\ (r.org = 1 => s.org = 1)
                    \/ \A r \in p5 : <<r.author, r.no>> # <<s.author, s.no>>

\* Whom a process sees to does not grow: it found those there were.
LEMMA MeantStays ==
  ASSUME Onward, RowsInvariant, NEW p \in Processes, NEW b, b.knew = p7[p].knew, p7'[p] = b,
         \A n \in p7[p].knew : \E r \in p5 : n = <<r.author, r.no>>
  PROVE  /\ \A n \in b.knew : \E s \in p5' : n = <<s.author, s.no>>
         /\ \A u \in p3' : Meant(p, u)' => u \in p3 /\ Meant(p, u)
         /\ \A s \in p5' : Known(p, s)' /\ s.author \in p3' =>
              \E r \in p5 : /\ r.author = s.author /\ r.no = s.no /\ Known(p, r) /\ r.author \in p3
                            /\ r.org = 1 => s.org = 1
<1>1. ASSUME NEW n \in b.knew PROVE \E s \in p5' : n = <<s.author, s.no>>
  <2>1. PICK r \in p5 : n = <<r.author, r.no>>
    OBVIOUS
  <2>2. PICK s \in p5' : s.author = r.author /\ s.no = r.no
    BY DEF Onward
  <2> QED
    BY <2>1, <2>2
<1>2. ASSUME NEW s \in p5', Known(p, s)'
      PROVE  \E r \in p5 : /\ r.author = s.author /\ r.no = s.no /\ Known(p, r)
                           /\ r.org = 1 => s.org = 1
  <2>1. <<s.author, s.no>> \in p7[p].knew
    BY <1>2 DEF Known
  <2>2. PICK r \in p5 : <<s.author, s.no>> = <<r.author, r.no>>
    BY <2>1
  <2>3. PICK q \in p5 : q.author = s.author /\ q.no = s.no /\ (q.org = 1 => s.org = 1)
    BY <2>2 DEF Onward
  <2> QED
    BY <2>1, <2>3 DEF Known
<1>3. \A r \in p5 : r.author \in p3' => r.author \in p3
  BY DEF Onward
<1>4. OldOwners \subseteq p3
  BY DEF RowsInvariant
<1>5. ASSUME NEW u \in p3', Meant(p, u)' PROVE u \in p3 /\ Meant(p, u)
  <2>1. CASE u \in OldOwners
    BY <1>4, <2>1 DEF Meant
  <2>2. CASE u \notin OldOwners
    <3>1. PICK s \in p5' : s.author = u /\ Known(p, s)'
      BY <1>5, <2>2 DEF Meant
    <3>2. PICK r \in p5 : r.author = u /\ Known(p, r)
      BY <1>2, <3>1
    <3> QED
      BY <1>3, <3>2 DEF Meant
  <2> QED
    BY <2>1, <2>2
<1> QED
  BY <1>1, <1>2, <1>3, <1>5

\* A process that stands still comes no less far while the tables move on.
LEMMA ProgressOnward ==
  ASSUME Onward, RowsInvariant, NEW p \in Processes, Progress(p), p7'[p] = p7[p]
  PROVE  Progress(p)'
<1>1. PICK b : b = p7[p]
  OBVIOUS
<1>2. p7'[p] = b /\ b.knew = p7[p].knew
  BY <1>1
<1>3. /\ DOMAIN b = ProcessFields /\ b.pc \in 0..11 /\ b.looked \in BOOLEAN /\ (b.looked = TRUE => b.pc \in 1..10)
      /\ \A n \in p7[p].knew : \E r \in p5 : n = <<r.author, r.no>>
  BY <1>1 DEF Progress
<1>4. /\ \A n \in b.knew : \E s \in p5' : n = <<s.author, s.no>>
      /\ \A u \in p3' : Meant(p, u)' => u \in p3 /\ Meant(p, u)
      /\ \A s \in p5' : Known(p, s)' /\ s.author \in p3' =>
           \E r \in p5 : r.author = s.author /\ Known(p, r) /\ r.author \in p3 /\ (r.org = 1 => s.org = 1)
  BY <1>2, <1>3, MeantStays
<1>5. p2 \subseteq p2' /\ p3 \subseteq p3' /\ \A u : Seated(u) => Seated(u)'
  BY DEF Onward
<1>6. \A k \in 1..(b.pc - 1) : Made(k, p2')
  BY <1>1, <1>5, MadeStays DEF Progress
<1>7. b.looked = TRUE /\ b.pc # 2 => b.found \subseteq G!Adds(b.pc) /\ Made(b.pc, p2' \cup b.found)
  <2>1. p2 \cup b.found \subseteq p2' \cup b.found
    BY <1>5
  <2> QED
    BY <1>1, <2>1, MadeStays DEF Progress
<1>8. b.looked = TRUE /\ b.pc = 2 =>
        b.found \subseteq p3' /\ \A u \in p3' : Meant(p, u)' => Seated(u)' \/ u \in b.found
  BY <1>1, <1>4, <1>5 DEF Progress
<1>9. b.pc > 2 => \A u \in p3' : Meant(p, u)' => Seated(u)'
  BY <1>1, <1>4, <1>5 DEF Progress
<1>10. b.pc > 3 => \A s \in p5' : Known(p, s)' /\ s.author \in p3' => s.org = 1
  BY <1>1, <1>4 DEF Progress
<1>11. b.pc > 5 => G!Unique \in p2'
  BY <1>1, <1>5 DEF Progress
<1> QED
  BY <1>2, <1>3, <1>4, <1>6, <1>7, <1>8, <1>9, <1>10, <1>11 DEF Progress

\* A process that has taken a step: what the step is for is there.
LEMMA ProgressStepped ==
  ASSUME Onward, RowsInvariant, NEW p \in Processes, NEW k, NEW b, Progress(p), k = p7[p].pc, k \in 1..10, p7'[p] = b,
         DOMAIN b = ProcessFields, b.pc = k + 1, b.looked = FALSE, b.knew = p7[p].knew,
         Made(k, p2'), k = 5 => G!Unique \in p2',
         k = 2 => \A u \in p3 : Meant(p, u) => Seated(u)',
         k = 3 => \A s \in p5' : Known(p, s)' /\ s.author \in p3' => s.org = 1
  PROVE  Progress(p)'
<1>1. \A n \in p7[p].knew : \E r \in p5 : n = <<r.author, r.no>>
  BY DEF Progress
<1>2. /\ \A n \in b.knew : \E s \in p5' : n = <<s.author, s.no>>
      /\ \A u \in p3' : Meant(p, u)' => u \in p3 /\ Meant(p, u)
      /\ \A s \in p5' : Known(p, s)' /\ s.author \in p3' =>
           \E r \in p5 : r.author = s.author /\ Known(p, r) /\ r.author \in p3 /\ (r.org = 1 => s.org = 1)
  BY <1>1, MeantStays
<1>3. p2 \subseteq p2' /\ \A u : Seated(u) => Seated(u)'
  BY DEF Onward
<1>4. \A i \in 1..(b.pc - 1) : Made(i, p2')
  <2>1. \A i \in 1..(k - 1) : Made(i, p2')
    BY <1>3, MadeStays DEF Progress
  <2>2. \A i \in 1..(b.pc - 1) : i \in 1..(k - 1) \/ i = k
    OBVIOUS
  <2> QED
    BY <2>1, <2>2
<1>5. b.pc > 5 => G!Unique \in p2'
  <2>1. k > 5 => G!Unique \in p2
    BY DEF Progress
  <2>2. b.pc > 5 => k > 5 \/ k = 5
    OBVIOUS
  <2> QED
    BY <1>3, <2>1, <2>2
<1>6. b.pc > 2 => \A u \in p3' : Meant(p, u)' => Seated(u)'
  <2>1. k > 2 => \A u \in p3 : Meant(p, u) => Seated(u)
    BY DEF Progress
  <2>2. b.pc > 2 => k > 2 \/ k = 2
    OBVIOUS
  <2> QED
    BY <1>2, <1>3, <2>1, <2>2
<1>7. b.pc > 3 => \A s \in p5' : Known(p, s)' /\ s.author \in p3' => s.org = 1
  <2>1. k > 3 => \A r \in p5 : Known(p, r) /\ r.author \in p3 => r.org = 1
    BY DEF Progress
  <2>2. b.pc > 3 => k > 3 \/ k = 3
    OBVIOUS
  <2> QED
    BY <1>2, <2>1, <2>2
<1>8. b.pc \in 0..11 /\ b.looked \in BOOLEAN /\ b.looked # TRUE
  <2>1. b.pc \in 0..11
    OBVIOUS
  <2>2. b.looked \in BOOLEAN /\ b.looked # TRUE
    BY Zenon
  <2> QED
    BY <2>1, <2>2
<1> QED
  BY <1>2, <1>4, <1>5, <1>6, <1>7, <1>8 DEF Progress

\* A process that is down, or starts: it knows of no row that is not there.
LEMMA ProgressBegun ==
  ASSUME NEW p \in Processes, NEW b, p7'[p] = b, DOMAIN b = ProcessFields, b.looked = FALSE, b.pc \in {0, 1},
         \A n \in b.knew : \E s \in p5' : n = <<s.author, s.no>>
  PROVE  Progress(p)'
<1>1. 1..(b.pc - 1) = {}
  <2>1. 1..(0 - 1) = {} /\ 1..(1 - 1) = {}
    OBVIOUS
  <2> QED
    BY <2>1
<1>2. b.pc \in 0..11 /\ ~(b.pc > 2) /\ ~(b.pc > 3) /\ ~(b.pc > 5) /\ b.looked \in BOOLEAN /\ b.looked # TRUE
  <2>1. b.pc \in 0..11 /\ ~(b.pc > 2) /\ ~(b.pc > 3) /\ ~(b.pc > 5)
    OBVIOUS
  <2>2. b.looked \in BOOLEAN /\ b.looked # TRUE
    BY Zenon
  <2> QED
    BY <2>1, <2>2
<1> QED
  BY <1>1, <1>2, Zenon DEF Progress

\* The invariant, once the process that moves and the tables are seen to.
LEMMA UpgradesMove ==
  ASSUME UpgradesInvariant, NEW p \in Processes, DOMAIN p7' = Processes, \A q \in Processes \ {p} : p7'[q] = p7[q],
         Onward, Progress(p)', OrgsInvariant', RowsInvariant', ConfigInvariant', OrgsToCome'
  PROVE  UpgradesInvariant'
<1>1. ASSUME NEW q \in Processes \ {p} PROVE Progress(q)'
  BY ProgressOnward DEF UpgradesInvariant
<1> QED
  BY <1>1 DEF UpgradesInvariant

\* What is unmarked keeps a process to come while none goes past it.
LEMMA ToCome ==
  ASSUME OrgsToCome, NEW p \in Processes, \A q \in Processes \ {p} : p7'[q] = p7[q],
         \A o \in p4' : o.default # TRUE => p7'[p].pc <= 7 \/ ((p7[p].pc <= 7 => p7'[p].pc <= 7) /\ \E f \in p4 : f.default # TRUE),
         \A o \in p4' : o.slug # TRUE => p7'[p].pc <= 8 \/ ((p7[p].pc <= 8 => p7'[p].pc <= 8) /\ \E f \in p4 : f.slug # TRUE)
  PROVE  OrgsToCome'
<1>1. ASSUME NEW o \in p4', o.default # TRUE PROVE \E q \in Processes : p7'[q].pc <= 7
  BY <1>1 DEF OrgsToCome
<1>2. ASSUME NEW o \in p4', o.slug # TRUE PROVE \E q \in Processes : p7'[q].pc <= 8
  BY <1>2 DEF OrgsToCome
<1> QED
  BY <1>1, <1>2 DEF OrgsToCome

\* The tables stand.
LEMMA TablesStand ==
  ASSUME UpgradesInvariant, UNCHANGED <<p3, p4, p5, p6>>, p2 \subseteq p2', G!Keyed \in p2' => G!Keyed \in p2
  PROVE  Onward /\ OrgsInvariant' /\ RowsInvariant' /\ ConfigInvariant'
<1>1. \A u : Seated(u)' <=> Seated(u)
  BY DEF Seated
<1>2. Onward
  BY <1>1 DEF Onward
<1>3. \A u : G!Seats(u)' = G!Seats(u)
  BY DEF G!Seats
<1>4. OrgsInvariant'
  BY <1>3 DEF UpgradesInvariant, OrgsInvariant
<1>5. RowsInvariant'
  BY <1>1 DEF UpgradesInvariant, RowsInvariant
<1>6. ConfigInvariant'
  BY <1>1 DEF UpgradesInvariant, ConfigInvariant
<1> QED
  BY <1>2, <1>4, <1>5, <1>6

\* A process starts.
LEMMA UpgradesStarted ==
  ASSUME UpgradesInvariant, NEW p \in Processes, G!Start(p) PROVE UpgradesInvariant'
<1>1. PICK b : b = [G!Down EXCEPT !.pc = 1, !.knew = {<<r.author, r.no>> : r \in p5}]
  OBVIOUS
<1>2. p7' = [p7 EXCEPT ![p] = b] /\ UNCHANGED <<p2, p3, p4, p5, p6>> /\ p7[p].pc = 0
  BY <1>1 DEF G!Start
<1>3. b = [pc |-> 1, looked |-> FALSE, found |-> {}, knew |-> {<<r.author, r.no>> : r \in p5}]
  BY <1>1 DEF G!Down
<1>4. DOMAIN b = ProcessFields /\ b.pc = 1 /\ b.looked = FALSE /\ b.knew = {<<r.author, r.no>> : r \in p5}
  BY <1>3 DEF ProcessFields
<1>5. DOMAIN p7' = Processes /\ p7'[p] = b /\ \A q \in Processes \ {p} : p7'[q] = p7[q]
  BY <1>2 DEF UpgradesInvariant
<1>6. \A n \in b.knew : \E s \in p5' : n = <<s.author, s.no>>
  BY <1>2, <1>4
<1>7. Progress(p)'
  BY <1>4, <1>5, <1>6, ProgressBegun
<1>8. OrgsToCome'
  <2>1. p7'[p].pc <= 7 /\ p7'[p].pc <= 8
    BY <1>4, <1>5
  <2> QED
    BY <1>5, <2>1, ToCome DEF UpgradesInvariant
<1>9. Onward /\ OrgsInvariant' /\ RowsInvariant' /\ ConfigInvariant'
  BY <1>2, TablesStand
<1> QED
  BY <1>5, <1>7, <1>8, <1>9, UpgradesMove

\* A process is down, and what was cut short of its step is kept.
LEMMA UpgradesDown ==
  ASSUME UpgradesInvariant, NEW p \in Processes, p7' = [p7 EXCEPT ![p] = G!Down], UNCHANGED <<p3, p4, p5, p6>>,
         p2 \subseteq p2', G!Keyed \in p2' => G!Keyed \in p2
  PROVE  UpgradesInvariant'
<1>1. PICK b : b = G!Down
  OBVIOUS
<1>2. DOMAIN b = ProcessFields /\ b.pc = 0 /\ b.looked = FALSE /\ b.knew = {}
  BY <1>1 DEF G!Down, ProcessFields
<1>3. DOMAIN p7' = Processes /\ p7'[p] = b /\ \A q \in Processes \ {p} : p7'[q] = p7[q]
  BY <1>1 DEF UpgradesInvariant
<1>4. Progress(p)'
  BY <1>2, <1>3, ProgressBegun
<1>5. OrgsToCome'
  <2>1. p7'[p].pc <= 7 /\ p7'[p].pc <= 8
    BY <1>2, <1>3
  <2> QED
    BY <1>3, <2>1, ToCome DEF UpgradesInvariant
<1>6. Onward /\ OrgsInvariant' /\ RowsInvariant' /\ ConfigInvariant'
  BY TablesStand
<1> QED
  BY <1>3, <1>4, <1>5, <1>6, UpgradesMove

\* A process breaks off between two statements of a step.
LEMMA UpgradesCutShort ==
  ASSUME UpgradesInvariant, NEW p \in Processes, G!CutShort(p) PROVE UpgradesInvariant'
<1>1. p7' = [p7 EXCEPT ![p] = G!Down] /\ UNCHANGED <<p3, p4, p5, p6>> /\ p7[p].looked = TRUE
  BY DEF G!CutShort, UpgradesInvariant, Progress
<1>2. \/ p7[p].pc \in G!Additive /\ \E c \in p7[p].found : p2' = p2 \cup {c}
      \/ p2' = p2 \cup {G!Bare}
  BY DEF G!CutShort
<1>3. CASE p2' = p2 \cup {G!Bare}
  <2>1. G!Bare # G!Keyed
    BY DEF G!Bare, G!Keyed
  <2>2. p2 \subseteq p2' /\ (G!Keyed \in p2' => G!Keyed \in p2)
    BY <1>3, <2>1
  <2> QED
    BY <1>1, <2>2, UpgradesDown
<1>4. CASE p7[p].pc \in G!Additive /\ \E c \in p7[p].found : p2' = p2 \cup {c}
  <2>1. PICK c \in p7[p].found : p2' = p2 \cup {c}
    BY <1>4
  <2>2. p7[p].pc \in {9, 10} /\ p7[p].found \subseteq G!Adds(p7[p].pc)
    <3>1. p7[p].pc = 9 \/ p7[p].pc = 10
      BY <1>4 DEF G!Additive, G!Rebuilt
    <3>2. Progress(p) /\ p7[p].pc # 2
      BY <3>1 DEF UpgradesInvariant
    <3> QED
      BY <1>1, <3>1, <3>2 DEF Progress
  <2>3. G!Keyed \notin G!Adds(9) /\ G!Keyed \notin G!Adds(10)
    BY StepsAdd DEF G!Keyed
  <2> QED
    BY <1>1, <2>1, <2>2, <2>3, UpgradesDown
<1> QED
  BY <1>2, <1>3, <1>4

\* A process looks at what its step is to do.
LEMMA UpgradesLooked ==
  ASSUME UpgradesInvariant, NEW p \in Processes, G!Look(p) PROVE UpgradesInvariant'
<1>1. PICK k : k = p7[p].pc
  OBVIOUS
<1>2. PICK found : found = G!Missing(k)
  OBVIOUS
<1>3. Progress(p)
  BY DEF UpgradesInvariant
<1>4. PICK b : b = [p7[p] EXCEPT !.looked = TRUE, !.found = found]
  OBVIOUS
<1>5. k \in 1..10 /\ p7' = [p7 EXCEPT ![p] = b] /\ UNCHANGED <<p2, p3, p4, p5, p6>>
  <2>1. p7' = [p7 EXCEPT ![p].looked = TRUE, ![p].found = found] /\ UNCHANGED <<p2, p3, p4, p5, p6>>
    BY <1>1, <1>2 DEF G!Look
  <2>2. p7' = [p7 EXCEPT ![p] = b]
    BY <1>4, <2>1 DEF UpgradesInvariant
  <2> QED
    BY <1>1, <2>1, <2>2 DEF G!Look, G!Last
<1>6. DOMAIN b = ProcessFields /\ b.pc = k /\ b.looked = TRUE /\ b.found = found /\ b.knew = p7[p].knew
  BY <1>1, <1>3, <1>4 DEF Progress, ProcessFields
<1>7. DOMAIN p7' = Processes /\ p7'[p] = b /\ \A q \in Processes \ {p} : p7'[q] = p7[q]
  BY <1>5 DEF UpgradesInvariant
<1>8. Onward /\ OrgsInvariant' /\ RowsInvariant' /\ ConfigInvariant'
  BY <1>5, TablesStand
<1>9. OrgsToCome'
  BY <1>1, <1>5, <1>6, <1>7, ToCome DEF UpgradesInvariant
<1>10. k # 2 => found \subseteq G!Adds(k) /\ Made(k, p2 \cup found)
  <2> SUFFICES ASSUME k # 2 PROVE found \subseteq G!Adds(k) /\ Made(k, p2 \cup found)
    OBVIOUS
  <2>1. CASE k = 4 /\ G!Bare \in p2
    BY <1>2, <2>1 DEF G!Missing, Made
  <2>2. CASE ~(k = 4 /\ G!Bare \in p2)
    <3>1. found = G!Adds(k) \ p2
      BY <1>2, <2>2 DEF G!Missing
    <3>2. k = 4 => G!Keyed \in G!Adds(k)
      BY StepsAdd
    <3> QED
      BY <3>1, <3>2 DEF Made
  <2> QED
    BY <2>1, <2>2
<1>11. k = 2 => found \subseteq p3 /\ \A u \in p3 : Seated(u) \/ u \in found
  BY <1>2, SeatsOf DEF G!Missing
<1>12. /\ \A n \in b.knew : \E s \in p5' : n = <<s.author, s.no>>
       /\ \A u \in p3' : Meant(p, u)' => u \in p3 /\ Meant(p, u)
       /\ \A s \in p5' : Known(p, s)' /\ s.author \in p3' =>
            \E r \in p5 : r.author = s.author /\ Known(p, r) /\ r.author \in p3 /\ (r.org = 1 => s.org = 1)
  <2>1. \A n \in p7[p].knew : \E r \in p5 : n = <<r.author, r.no>>
    BY <1>3 DEF Progress
  <2> QED
    BY <1>6, <1>7, <1>8, <2>1, MeantStays DEF UpgradesInvariant
<1>13. p2' = p2 /\ \A u : Seated(u)' <=> Seated(u)
  BY <1>5 DEF Seated
<1>14. /\ \A i \in 1..(k - 1) : Made(i, p2')
       /\ k > 5 => G!Unique \in p2'
  BY <1>1, <1>3, <1>13 DEF Progress
<1>15. k > 2 => \A u \in p3' : Meant(p, u)' => Seated(u)'
  BY <1>1, <1>3, <1>12, <1>13 DEF Progress
<1>16. k > 3 => \A s \in p5' : Known(p, s)' /\ s.author \in p3' => s.org = 1
  BY <1>1, <1>3, <1>12 DEF Progress
<1>17. k = 2 => found \subseteq p3' /\ \A u \in p3' : Meant(p, u)' => Seated(u)' \/ u \in found
  BY <1>5, <1>11, <1>13
<1>18. k \in 0..11 /\ b.looked \in BOOLEAN
  <2>1. k \in 0..11
    BY <1>5
  <2>2. b.looked \in BOOLEAN
    BY <1>6, Zenon
  <2> QED
    BY <2>1, <2>2
<1>19. Progress(p)'
  BY <1>5, <1>6, <1>7, <1>10, <1>12, <1>13, <1>14, <1>15, <1>16, <1>17, <1>18 DEF Progress
<1> QED
  BY <1>7, <1>8, <1>9, <1>19, UpgradesMove

\* The older release adds a row.
LEMMA UpgradesOlder ==
  ASSUME UpgradesInvariant, NEW u \in OldOwners \cup Late, G!OlderRelease(u) PROVE UpgradesInvariant'
<1>1. PICK new : new = [author |-> u, no |-> 2, org |-> 0]
  OBVIOUS
<1>2. /\ p3' = p3 \cup {u} /\ p5' = p5 \cup {new} /\ UNCHANGED <<p2, p4, p6, p7>>
      /\ ~\E r \in p5 : r.author = u /\ r.no = 2
  BY <1>1 DEF G!OlderRelease, G!None
<1>3. u \notin Others
  BY AccessAssumption DEF G!MigrationAssumption
<1>4. \A v : (Seated(v)' <=> Seated(v)) /\ G!Seats(v)' = G!Seats(v)
  BY <1>2 DEF Seated, G!Seats
<1>5. OldOwners \subseteq p3 /\ p3 \cap Others = {} /\ \A r \in p5 : r.author \in p3 \cup Others
  BY DEF UpgradesInvariant, RowsInvariant
<1>6. Onward
  <2>1. \A r \in p5 : r.author \in p3' => r.author \in p3
    BY <1>2, <1>3, <1>5
  <2>2. \A r \in p5 : \E s \in p5' : s.author = r.author /\ s.no = r.no
    BY <1>2
  <2>3. \A r \in p5 : <<r.author, r.no>> # <<new.author, new.no>>
    BY <1>1, <1>2
  <2>4. \A s \in p5' : \/ \E r \in p5 : r.author = s.author /\ r.no = s.no /\ (r.org = 1 => s.org = 1)
                       \/ \A r \in p5 : <<r.author, r.no>> # <<s.author, s.no>>
    BY <1>2, <2>3
  <2> QED
    BY <1>2, <1>4, <2>1, <2>2, <2>4 DEF Onward
<1>7. OrgsInvariant'
  <2>1. ASSUME NEW v \in p3' PROVE IsFiniteSet(G!Seats(v))'
    <3>1. CASE v \in p3
      BY <1>4, <3>1 DEF UpgradesInvariant, OrgsInvariant
    <3>2. CASE v \notin p3
      <4>1. G!Seats(v) = {}
        BY <3>2 DEF UpgradesInvariant, OrgsInvariant, G!Seats
      <4> QED
        BY <1>4, <4>1, FS_EmptySet
    <3> QED
      BY <3>1, <3>2
  <2> QED
    BY <1>2, <2>1 DEF UpgradesInvariant, OrgsInvariant
<1>8. RowsInvariant'
  BY <1>1, <1>2, <1>3, <1>4, <1>5 DEF UpgradesInvariant, RowsInvariant
<1>9. ConfigInvariant'
  BY <1>2, <1>4 DEF UpgradesInvariant, ConfigInvariant
<1>10. OrgsToCome'
  BY <1>2 DEF UpgradesInvariant, OrgsToCome
<1>11. \A p \in Processes : Progress(p)'
  BY <1>2, <1>6, ProgressOnward DEF UpgradesInvariant
<1> QED
  BY <1>2, <1>7, <1>8, <1>9, <1>10, <1>11 DEF UpgradesInvariant

\* What a step adds to the schema: what it is for, and the settings' key in its turn alone.
LEMMA StepGains ==
  ASSUME UpgradesInvariant, NEW p \in Processes, NEW k \in 1..10, k = p7[p].pc, p7[p].looked = TRUE,
         p2' = p2 \cup G!Gains(k, p7[p].found)
  PROVE  /\ p2 \subseteq p2' /\ Made(k, p2')
         /\ k = 5 => G!Unique \in p2'
         /\ G!Keyed \in p2' /\ G!Keyed \notin p2 => k = 4 /\ p7[p].found # {}
<1>1. k # 2 => p7[p].found \subseteq G!Adds(k) /\ Made(k, p2 \cup p7[p].found)
  BY DEF UpgradesInvariant, Progress
<1>2. CASE k = 2
  BY <1>2, StepsAdd DEF G!Gains, Made
<1>3. CASE k = 5
  <2>1. G!Gains(k, p7[p].found) \subseteq {G!Unique} \cup G!Adds(9) /\ G!Unique \in G!Gains(k, p7[p].found)
    BY <1>3 DEF G!Gains, G!Rebuilt
  <2>2. G!Keyed \notin {G!Unique} \cup G!Adds(9)
    BY StepsAdd DEF G!Keyed, G!Unique
  <2> QED
    BY <1>3, <2>1, <2>2, StepsAdd DEF Made
<1>4. CASE k = 6
  <2>1. G!Gains(k, p7[p].found) \subseteq {G!Required}
    BY <1>4 DEF G!Gains
  <2>2. G!Keyed # G!Required
    BY DEF G!Keyed, G!Required
  <2> QED
    BY <1>4, <2>1, <2>2, StepsAdd DEF Made
<1>5. CASE k \notin {2, 5, 6}
  <2>1. G!Gains(k, p7[p].found) = p7[p].found
    BY <1>5 DEF G!Gains
  <2>2. Made(k, p2')
    BY <1>1, <1>5, <2>1
  <2>3. k # 4 => G!Keyed \notin G!Adds(k)
    <3>1. k \in {1, 3, 7, 8, 9, 10} \/ k = 4
      BY <1>5
    <3>2. \A i \in {1, 3, 7, 8, 9, 10} : G!Keyed \notin G!Adds(i)
      BY StepsAdd DEF G!Keyed
    <3> QED
      BY <3>1, <3>2
  <2> QED
    BY <1>1, <1>5, <2>1, <2>2, <2>3
<1> QED
  BY <1>2, <1>3, <1>4, <1>5

\* A process has taken its step: the invariant, from what the step does to the tables.
LEMMA UpgradesStepped ==
  ASSUME UpgradesInvariant, NEW p \in Processes, NEW k \in 1..10, k = p7[p].pc, p7[p].looked = TRUE,
         p2' = p2 \cup G!Gains(k, p7[p].found),
         p7' = [p7 EXCEPT ![p] = [@ EXCEPT !.pc = k + 1, !.looked = FALSE, !.found = {}]],
         Onward, OrgsInvariant', RowsInvariant', ConfigInvariant',
         k = 2 => \A u \in p3 : Meant(p, u) => Seated(u)',
         k = 3 => \A s \in p5' : Known(p, s)' /\ s.author \in p3' => s.org = 1,
         k = 7 => \A o \in p4' : o.default = TRUE,
         k = 8 => \A o \in p4' : o.slug = TRUE /\ \E f \in p4 : f.default = o.default,
         k \in {9, 10} => p4' = p4
  PROVE  UpgradesInvariant'
<1>1. PICK b : b = [p7[p] EXCEPT !.pc = k + 1, !.looked = FALSE, !.found = {}]
  OBVIOUS
<1>2. DOMAIN p7' = Processes /\ p7'[p] = b /\ \A q \in Processes \ {p} : p7'[q] = p7[q]
  BY <1>1 DEF UpgradesInvariant
<1>3. Progress(p)
  BY DEF UpgradesInvariant
<1>4. DOMAIN b = ProcessFields /\ b.pc = k + 1 /\ b.looked = FALSE /\ b.knew = p7[p].knew
  BY <1>1, <1>3 DEF Progress, ProcessFields
<1>5. Made(k, p2') /\ (k = 5 => G!Unique \in p2')
  BY StepGains
<1>6. Progress(p)'
  BY <1>2, <1>3, <1>4, <1>5, ProgressStepped DEF UpgradesInvariant
<1>7. ASSUME NEW o \in p4', o.default # TRUE
      PROVE  p7'[p].pc <= 7 \/ ((p7[p].pc <= 7 => p7'[p].pc <= 7) /\ \E f \in p4 : f.default # TRUE)
  <2>0. p7'[p].pc = k + 1 /\ p7[p].pc = k
    BY <1>2, <1>4
  <2>1. CASE k <= 6
    <3>1. k + 1 <= 7
      BY <2>1
    <3> QED
      BY <2>0, <3>1
  <2>2. CASE k >= 8
    <3>1. k = 8 \/ k \in {9, 10}
      BY <2>2
    <3>2. \E f \in p4 : f.default # TRUE
      BY <1>7, <3>1
    <3>3. ~(p7[p].pc <= 7)
      BY <2>0, <2>2
    <3> QED
      BY <3>2, <3>3
  <2>3. k <= 6 \/ k = 7 \/ k >= 8
    OBVIOUS
  <2> QED
    BY <1>7, <2>1, <2>2, <2>3
<1>8. ASSUME NEW o \in p4', o.slug # TRUE
      PROVE  p7'[p].pc <= 8 \/ ((p7[p].pc <= 8 => p7'[p].pc <= 8) /\ \E f \in p4 : f.slug # TRUE)
  <2>0. p7'[p].pc = k + 1 /\ p7[p].pc = k
    BY <1>2, <1>4
  <2>1. CASE k <= 7
    <3>1. k + 1 <= 8
      BY <2>1
    <3> QED
      BY <2>0, <3>1
  <2>2. CASE k >= 9
    <3>1. k \in {9, 10}
      BY <2>2
    <3>2. \E f \in p4 : f.slug # TRUE
      BY <1>8, <3>1
    <3>3. ~(p7[p].pc <= 8)
      BY <2>0, <2>2
    <3> QED
      BY <3>2, <3>3
  <2>3. k <= 7 \/ k = 8 \/ k >= 9
    OBVIOUS
  <2> QED
    BY <1>8, <2>1, <2>2, <2>3
<1>9. OrgsToCome'
  BY <1>2, <1>7, <1>8, ToCome DEF UpgradesInvariant
<1> QED
  BY <1>2, <1>6, <1>9, UpgradesMove

\* Organizations that are marked stay who they are.
LEMMA OrgsMarked ==
  ASSUME OrgsInvariant, p3' = p3, NEW f, DOMAIN f = p4, p4' = {f[o] : o \in p4},
         \A o \in p4 : /\ DOMAIN f[o] = OrgFields /\ OrgRecord(f[o]) /\ f[o].owner = o.owner /\ f[o].no = o.no
                       /\ f[o].default \in BOOLEAN /\ f[o].slug \in BOOLEAN
  PROVE  OrgsInvariant' /\ \A u : Seated(u)' <=> Seated(u)
<1>1. ASSUME NEW u \in p3 PROVE IsFiniteSet(G!Seats(u))'
  <2> DEFINE g == [o \in G!Seats(u) |-> f[o]]
             T == {f[o] : o \in G!Seats(u)}
  <2>1. G!Seats(u)' = T
    BY DEF G!Seats
  <2>2. g \in Surjection(G!Seats(u), T)
    BY DEF Surjection
  <2>3. IsFiniteSet(G!Seats(u))
    BY DEF OrgsInvariant
  <2> HIDE DEF g, T
  <2>4. IsFiniteSet(T)
    BY <2>2, <2>3, FS_Surjection
  <2> QED
    BY <2>1, <2>4
<1>2. \A u : Seated(u)' <=> Seated(u)
  BY DEF Seated
<1>3. ASSUME NEW o \in p4' PROVE \E e \in p4' : e.owner = o.owner /\ e.no = 1
  <2>1. PICK h \in p4 : o = f[h]
    OBVIOUS
  <2>2. PICK e \in p4 : e.owner = h.owner /\ e.no = 1
    BY DEF OrgsInvariant
  <2> QED
    BY <2>1, <2>2
<1>4. \A o \in p4' : /\ DOMAIN o = OrgFields /\ OrgRecord(o) /\ o.no \in Nat /\ o.no >= 1
                     /\ o.default \in BOOLEAN /\ o.slug \in BOOLEAN /\ o.owner \in p3'
  BY DEF OrgsInvariant
<1> QED
  BY <1>1, <1>2, <1>3, <1>4 DEF OrgsInvariant

\* Whoever had no company has her first.
LEMMA OrgsProvisioned ==
  ASSUME OrgsInvariant, p3' = p3, NEW found, found \subseteq p3, G!Provision(found)
  PROVE  OrgsInvariant' /\ (\A u : Seated(u) => Seated(u)') /\ \A u \in found : Seated(u)'
<1>1. p4' = p4 \cup {G!Org(u, Cardinality(G!Seats(u)) + 1) : u \in found}
  BY DEF G!Provision, G!Cardinality, Cardinality
<1>2. ASSUME NEW u \in found, NEW o, o = G!Org(u, Cardinality(G!Seats(u)) + 1)
      PROVE  /\ DOMAIN o = OrgFields /\ OrgRecord(o) /\ o.no \in Nat /\ o.no >= 1
             /\ o.default \in BOOLEAN /\ o.slug \in BOOLEAN /\ o.owner = u
             /\ ~Seated(u) => o.no = 1
  <2>1. PICK n : n = Cardinality(G!Seats(u)) + 1
    OBVIOUS
  <2>2. o = [owner |-> u, no |-> n, default |-> FALSE, slug |-> FALSE]
    BY <1>2, <2>1 DEF G!Org
  <2>3. Cardinality(G!Seats(u)) \in Nat
    BY FS_CardinalityType DEF OrgsInvariant
  <2>4. ~Seated(u) => Cardinality(G!Seats(u)) = 0
    BY SeatsOf, FS_EmptySet
  <2>5. n \in Nat /\ n >= 1 /\ (~Seated(u) => n = 1)
    BY <2>1, <2>3, <2>4
  <2> QED
    BY <2>2, <2>5 DEF OrgFields, OrgRecord
<1>3. \A u \in found : \E o \in p4' : o.owner = u
  BY <1>1, <1>2
<1>4. \A u : Seated(u) => Seated(u)'
  BY <1>1 DEF Seated
<1>5. ASSUME NEW o \in p4'
      PROVE  /\ DOMAIN o = OrgFields /\ OrgRecord(o) /\ o.no \in Nat /\ o.no >= 1
             /\ o.default \in BOOLEAN /\ o.slug \in BOOLEAN /\ o.owner \in p3'
             /\ \E f \in p4' : f.owner = o.owner /\ f.no = 1
  <2>1. CASE o \in p4
    BY <1>1, <2>1 DEF OrgsInvariant
  <2>2. CASE o \notin p4
    <3>1. PICK u \in found : o = G!Org(u, Cardinality(G!Seats(u)) + 1)
      BY <1>1, <2>2
    <3>2. /\ DOMAIN o = OrgFields /\ OrgRecord(o) /\ o.no \in Nat /\ o.no >= 1
          /\ o.default \in BOOLEAN /\ o.slug \in BOOLEAN /\ o.owner = u
          /\ ~Seated(u) => o.no = 1
      BY <1>2, <3>1
    <3>3. Seated(u) => \E f \in p4 : f.owner = u /\ f.no = 1
      BY DEF Seated, OrgsInvariant
    <3> QED
      BY <1>1, <3>2, <3>3
  <2> QED
    BY <2>1, <2>2
<1>6. ASSUME NEW u \in p3 PROVE IsFiniteSet(G!Seats(u))'
  <2>1. PICK new : new = G!Org(u, Cardinality(G!Seats(u)) + 1)
    OBVIOUS
  <2>2. ASSUME NEW o \in G!Seats(u)' PROVE o \in G!Seats(u) \cup {new}
    <3>1. o \in p4' /\ o.owner = u
      BY DEF G!Seats
    <3>2. CASE o \in p4
      BY <3>1, <3>2 DEF G!Seats
    <3>3. CASE o \notin p4
      <4>1. PICK v \in found : o = G!Org(v, Cardinality(G!Seats(v)) + 1)
        BY <1>1, <3>1, <3>3
      <4>2. v = u
        BY <1>2, <3>1, <4>1
      <4> QED
        BY <2>1, <4>1, <4>2
    <3> QED
      BY <3>2, <3>3
  <2>3. IsFiniteSet(G!Seats(u))
    BY DEF OrgsInvariant
  <2>4. IsFiniteSet(G!Seats(u) \cup {new})
    BY <2>3, FS_AddElement
  <2>5. G!Seats(u)' \subseteq G!Seats(u) \cup {new}
    BY <2>2
  <2> QED
    BY <2>4, <2>5, FS_Subset
<1> QED
  BY <1>3, <1>4, <1>5, <1>6 DEF OrgsInvariant, Seated

\* The rows and the settings stand while companies come or are marked.
LEMMA RowsStand ==
  ASSUME UpgradesInvariant, UNCHANGED <<p3, p5, p6>>, p2 \subseteq p2', G!Keyed \in p2' => G!Keyed \in p2,
         \A u : Seated(u) => Seated(u)'
  PROVE  Onward /\ RowsInvariant' /\ ConfigInvariant'
<1>1. Onward
  BY DEF Onward
<1>2. RowsInvariant'
  BY DEF UpgradesInvariant, RowsInvariant
<1>3. ConfigInvariant'
  BY DEF UpgradesInvariant, ConfigInvariant
<1> QED
  BY <1>1, <1>2, <1>3

\* The backfill: every row of somebody who has a company is in the first of them.
LEMMA RowsFilled ==
  ASSUME UpgradesInvariant, UNCHANGED <<p3, p4, p6>>, p2 \subseteq p2', G!Keyed \in p2' => G!Keyed \in p2, G!Backfill
  PROVE  /\ Onward /\ OrgsInvariant' /\ RowsInvariant' /\ ConfigInvariant'
         /\ \A s \in p5' : Seated(s.author) => s.org = 1
<1>1. \A u : (Seated(u)' <=> Seated(u)) /\ G!Seats(u)' = G!Seats(u)
  BY DEF Seated, G!Seats
<1>2. \A u : G!Home(u) = IF Seated(u) THEN 1 ELSE 0
  BY HomeIsFirst DEF UpgradesInvariant
<1>3. G!Repaired = {r \in p5 : r.org = 0 /\ Seated(r.author)}
  BY <1>2 DEF G!Repaired, G!Orphans, G!None
<1>4. \A r \in p5 : /\ DOMAIN r = {"author", "no", "org"} /\ r.author \in p3 \cup Others
                    /\ r.org = 0 \/ (r.org = 1 /\ Seated(r.author))
  BY DEF UpgradesInvariant, RowsInvariant
<1>5. p5' = (p5 \ G!Repaired) \cup {[r EXCEPT !.org = G!Home(r.author)] : r \in G!Repaired}
  BY DEF G!Backfill
<1>6. ASSUME NEW s \in p5'
      PROVE  \E r \in p5 : /\ r.author = s.author /\ r.no = s.no /\ DOMAIN s = {"author", "no", "org"}
                           /\ s.org = IF Seated(s.author) THEN 1 ELSE 0
  <2>1. CASE s \in p5 \ G!Repaired
    BY <1>3, <1>4, <2>1
  <2>2. CASE s \notin p5 \ G!Repaired
    <3>1. PICK r \in G!Repaired : s = [r EXCEPT !.org = G!Home(r.author)]
      BY <1>5, <2>2
    <3>2. r \in p5 /\ Seated(r.author) /\ DOMAIN r = {"author", "no", "org"}
      BY <1>3, <1>4, <3>1
    <3>3. G!Home(r.author) = 1
      BY <1>2, <3>2
    <3> QED
      BY <3>1, <3>2, <3>3
  <2> QED
    BY <2>1, <2>2
<1>7. ASSUME NEW r \in p5 PROVE \E s \in p5' : s.author = r.author /\ s.no = r.no
  <2>1. CASE r \in G!Repaired
    <3>1. PICK s : s = [r EXCEPT !.org = G!Home(r.author)]
      OBVIOUS
    <3>2. s \in p5' /\ s.author = r.author /\ s.no = r.no
      BY <1>4, <1>5, <2>1, <3>1
    <3> QED
      BY <3>2
  <2>2. CASE r \notin G!Repaired
    BY <1>5, <2>2
  <2> QED
    BY <2>1, <2>2
<1>8. \A s \in p5' : \E r \in p5 : r.author = s.author /\ r.no = s.no /\ (r.org = 1 => s.org = 1)
  <2> SUFFICES ASSUME NEW s \in p5' PROVE \E r \in p5 : r.author = s.author /\ r.no = s.no /\ (r.org = 1 => s.org = 1)
    OBVIOUS
  <2>1. PICK r \in p5 : r.author = s.author /\ r.no = s.no /\ (s.org = IF Seated(s.author) THEN 1 ELSE 0)
    BY <1>6
  <2>2. r.org = 1 => Seated(s.author)
    BY <1>4, <2>1
  <2> QED
    BY <2>1, <2>2
<1>9. Onward
  BY <1>1, <1>7, <1>8 DEF Onward
<1>10. RowsInvariant'
  <2>1. ASSUME NEW s \in p5'
        PROVE  /\ DOMAIN s = {"author", "no", "org"} /\ s.author \in p3' \cup Others
               /\ s.org = 0 \/ (s.org = 1 /\ Seated(s.author)')
    BY <1>1, <1>4, <1>6
  <2> QED
    BY <2>1 DEF UpgradesInvariant, RowsInvariant
<1>11. ConfigInvariant'
  BY <1>1 DEF UpgradesInvariant, ConfigInvariant
<1>12. OrgsInvariant'
  BY <1>1 DEF UpgradesInvariant, OrgsInvariant
<1>13. \A s \in p5' : Seated(s.author) => s.org = 1
  BY <1>6
<1> QED
  BY <1>9, <1>10, <1>11, <1>12, <1>13

\* The re-keying, by a process before which everybody has a company: nobody's settings go.
LEMMA ConfigKeyed ==
  ASSUME UpgradesInvariant, NEW found, G!Rekey(found), p4' = p4, \A u \in OldOwners : Seated(u),
         G!Keyed \in p2' /\ G!Keyed \notin p2 => found # {}
  PROVE  ConfigInvariant'
<1>1. \A u : Seated(u)' <=> Seated(u)
  BY DEF Seated
<1>2. \A u : G!Home(u) = IF Seated(u) THEN 1 ELSE 0
  BY HomeIsFirst DEF UpgradesInvariant
<1>3. CASE found = {}
  <2>1. p6' = p6
    BY <1>3 DEF G!Rekey
  <2> QED
    BY <1>1, <1>3, <2>1 DEF UpgradesInvariant, ConfigInvariant
<1>4. CASE found # {}
  <2>1. p6' = {[c EXCEPT !.org = G!Home(c.author)] : c \in {d \in p6 : G!Home(d.author) # 0}}
    BY <1>4 DEF G!Rekey, G!None
  <2>2. \A c \in p6 : DOMAIN c = {"author", "org"}
    BY DEF UpgradesInvariant, ConfigInvariant
  <2>3. ASSUME NEW c \in p6' PROVE DOMAIN c = {"author", "org"} /\ c.org = 1 /\ Seated(c.author)
    <3>1. PICK d \in p6 : c = [d EXCEPT !.org = G!Home(d.author)] /\ G!Home(d.author) # 0
      BY <2>1
    <3>2. G!Home(d.author) = 1 /\ Seated(d.author)
      BY <1>2, <3>1
    <3> QED
      BY <2>2, <3>1, <3>2
  <2>4. ASSUME NEW u \in OldOwners PROVE \E c \in p6' : c.author = u
    <3>1. PICK d \in p6 : d.author = u
      BY DEF UpgradesInvariant, ConfigInvariant
    <3>2. G!Home(u) = 1
      BY <1>2
    <3>3. PICK c : c = [d EXCEPT !.org = G!Home(d.author)]
      OBVIOUS
    <3>4. c \in p6'
      BY <2>1, <3>1, <3>2, <3>3
    <3>5. c.author = u
      BY <2>2, <3>1, <3>3
    <3> QED
      BY <3>4, <3>5
  <2> QED
    BY <1>1, <2>3, <2>4 DEF ConfigInvariant
<1> QED
  BY <1>3, <1>4

\* Every step, by what it does to the tables.
LEMMA UpgradesStep ==
  ASSUME UpgradesInvariant, NEW p \in Processes, G!Step(p) PROVE UpgradesInvariant'
<1>1. PICK k : k = p7[p].pc
  OBVIOUS
<1>2. PICK found : found = p7[p].found
  OBVIOUS
<1>3. Progress(p) /\ OrgsInvariant /\ RowsInvariant /\ ConfigInvariant
  BY DEF UpgradesInvariant
<1>4. p7[p].looked = TRUE /\ k \in 1..10
  BY <1>1, <1>3 DEF G!Step, Progress
<1>5. /\ p2' = p2 \cup G!Gains(k, found) /\ p3' = p3
      /\ p7' = [p7 EXCEPT ![p] = [@ EXCEPT !.pc = k + 1, !.looked = FALSE, !.found = {}]]
  BY <1>1, <1>2 DEF G!Step
<1>6. /\ p2 \subseteq p2'
      /\ G!Keyed \in p2' /\ G!Keyed \notin p2 => k = 4 /\ found # {}
  BY <1>1, <1>2, <1>4, <1>5, StepGains
<1>0. /\ k \in 1..10 /\ k = p7[p].pc /\ p7[p].looked = TRUE
      /\ p2' = p2 \cup G!Gains(k, p7[p].found)
      /\ p7' = [p7 EXCEPT ![p] = [@ EXCEPT !.pc = k + 1, !.looked = FALSE, !.found = {}]]
  BY <1>1, <1>2, <1>4, <1>5
<1>7. CASE k = 2
  <2>1. G!Provision(found) /\ UNCHANGED <<p5, p6>>
    BY <1>1, <1>2, <1>7 DEF G!Step
  <2>2. found \subseteq p3 /\ \A u \in p3 : Meant(p, u) => Seated(u) \/ u \in found
    BY <1>1, <1>2, <1>3, <1>4, <1>7 DEF Progress
  <2>3. OrgsInvariant' /\ (\A u : Seated(u) => Seated(u)') /\ \A u \in found : Seated(u)'
    BY <1>3, <1>5, <2>1, <2>2, OrgsProvisioned
  <2>4. Onward /\ RowsInvariant' /\ ConfigInvariant'
    BY <1>5, <1>6, <1>7, <2>1, <2>3, RowsStand
  <2> QED
    <3>1. \A u \in p3 : Meant(p, u) => Seated(u)'
      BY <2>2, <2>3
    <3>2. k # 3 /\ k # 7 /\ k # 8 /\ k \notin {9, 10}
      BY <1>7
    <3> QED
      BY <1>0, <2>3, <2>4, <3>1, <3>2, UpgradesStepped
<1>8. CASE k = 3
  <2>1. G!Backfill /\ UNCHANGED <<p4, p6>>
    BY <1>1, <1>8 DEF G!Step
  <2>2. /\ Onward /\ OrgsInvariant' /\ RowsInvariant' /\ ConfigInvariant'
        /\ \A s \in p5' : Seated(s.author) => s.org = 1
    BY <1>5, <1>6, <1>8, <2>1, RowsFilled
  <2>3. p7'[p].knew = p7[p].knew
    BY <1>3, <1>5 DEF Progress, ProcessFields, UpgradesInvariant
  <2>4. \A n \in p7[p].knew : \E r \in p5 : n = <<r.author, r.no>>
    BY <1>3 DEF Progress
  <2>5. ASSUME NEW s \in p5', Known(p, s)', s.author \in p3' PROVE s.org = 1
    <3>1. \E r \in p5 : r.author = s.author /\ Known(p, r) /\ r.author \in p3
      BY <1>3, <2>2, <2>3, <2>4, <2>5, MeantStays
    <3>2. Meant(p, s.author) /\ s.author \in p3
      BY <3>1 DEF Meant
    <3>3. Seated(s.author)
      BY <1>1, <1>3, <1>8, <3>2 DEF Progress
    <3> QED
      BY <2>2, <3>3
  <2> QED
    <3>1. \A s \in p5' : Known(p, s)' /\ s.author \in p3' => s.org = 1
      BY <2>5
    <3>2. k # 2 /\ k # 7 /\ k # 8 /\ k \notin {9, 10}
      BY <1>8
    <3> QED
      BY <1>0, <2>2, <3>1, <3>2, UpgradesStepped
<1>9. CASE k = 4
  <2>1. G!Rekey(found) /\ UNCHANGED <<p4, p5>>
    BY <1>1, <1>2, <1>9 DEF G!Step
  <2>2. \A u \in OldOwners : Seated(u)
    <3>1. \A u \in p3 : Meant(p, u) => Seated(u)
      BY <1>1, <1>3, <1>9 DEF Progress
    <3> QED
      BY <1>3, <3>1 DEF RowsInvariant, Meant
  <2>3. ConfigInvariant'
    BY <1>6, <2>1, <2>2, ConfigKeyed
  <2>4. \A u : (Seated(u)' <=> Seated(u)) /\ G!Seats(u)' = G!Seats(u)
    BY <2>1 DEF Seated, G!Seats
  <2>5. Onward
    BY <1>5, <1>6, <2>1, <2>4 DEF Onward
  <2>6. OrgsInvariant'
    BY <1>3, <1>5, <2>1, <2>4 DEF OrgsInvariant
  <2>7. RowsInvariant'
    BY <1>3, <1>5, <2>1, <2>4 DEF RowsInvariant
  <2> QED
    <3>1. k # 2 /\ k # 3 /\ k # 7 /\ k # 8 /\ k \notin {9, 10}
      BY <1>9
    <3> QED
      BY <1>0, <2>3, <2>5, <2>6, <2>7, <3>1, UpgradesStepped
<1>10. CASE k \in {7, 8}
  <2>1. UNCHANGED <<p5, p6>> /\ (k = 7 => G!Defaults) /\ (k = 8 => G!Slugs)
    BY <1>1, <1>10 DEF G!Step
  <2> DEFINE f == [o \in p4 |-> IF k = 7 THEN [o EXCEPT !.default = TRUE] ELSE [o EXCEPT !.slug = TRUE]]
  <2>2. DOMAIN f = p4 /\ p4' = {f[o] : o \in p4}
    BY <1>10, <2>1 DEF G!Defaults, G!Slugs
  <2>3. ASSUME NEW o \in p4
        PROVE  /\ DOMAIN f[o] = OrgFields /\ OrgRecord(f[o]) /\ f[o].owner = o.owner /\ f[o].no = o.no
               /\ f[o].default \in BOOLEAN /\ f[o].slug \in BOOLEAN
               /\ k = 7 => f[o].default = TRUE
               /\ k = 8 => f[o].slug = TRUE /\ f[o].default = o.default
    <3>1. DOMAIN o = OrgFields /\ OrgRecord(o) /\ o.default \in BOOLEAN /\ o.slug \in BOOLEAN
      BY <1>3 DEF OrgsInvariant
    <3>2. CASE k = 7
      <4>1. f[o] = [o EXCEPT !.default = TRUE]
        BY <3>2
      <4> HIDE DEF f
      <4>2. PICK e : e = f[o]
        OBVIOUS
      <4>3. /\ DOMAIN e = OrgFields /\ e.default = TRUE
            /\ \A x \in OrgFields \ {"default"} : e[x] = o[x]
        BY <3>1, <4>1, <4>2
      <4>4. e.owner = o.owner /\ e.no = o.no /\ e.slug = o.slug
        BY <4>3 DEF OrgFields
      <4>5. e = [x \in OrgFields |-> e[x]]
        <5>1. e = [x \in OrgFields |-> IF x = "default" THEN TRUE ELSE o[x]]
          BY <3>1, <4>1, <4>2
        <5> QED
          BY <5>1
      <4>6. OrgRecord(f[o])
        BY <4>2, <4>5, Zenon DEF OrgRecord
      <4>7. /\ DOMAIN f[o] = OrgFields /\ f[o].owner = o.owner /\ f[o].no = o.no
            /\ f[o].default = TRUE /\ f[o].slug = o.slug
        BY <4>2, <4>3, <4>4
      <4>8. k # 8
        BY <3>2
      <4> QED
        BY <3>1, <4>6, <4>7, <4>8, Zenon
    <3>3. CASE k = 8
      <4>1. f[o] = [o EXCEPT !.slug = TRUE]
        BY <3>3
      <4> HIDE DEF f
      <4>2. PICK e : e = f[o]
        OBVIOUS
      <4>3. /\ DOMAIN e = OrgFields /\ e.slug = TRUE
            /\ \A x \in OrgFields \ {"slug"} : e[x] = o[x]
        BY <3>1, <4>1, <4>2
      <4>4. e.owner = o.owner /\ e.no = o.no /\ e.default = o.default
        BY <4>3 DEF OrgFields
      <4>5. e = [x \in OrgFields |-> e[x]]
        <5>1. e = [x \in OrgFields |-> IF x = "slug" THEN TRUE ELSE o[x]]
          BY <3>1, <4>1, <4>2
        <5> QED
          BY <5>1
      <4>6. OrgRecord(f[o])
        BY <4>2, <4>5, Zenon DEF OrgRecord
      <4>7. /\ DOMAIN f[o] = OrgFields /\ f[o].owner = o.owner /\ f[o].no = o.no
            /\ f[o].slug = TRUE /\ f[o].default = o.default
        BY <4>2, <4>3, <4>4
      <4>8. k # 7
        BY <3>3
      <4> QED
        BY <3>1, <4>6, <4>7, <4>8, Zenon
    <3> QED
      BY <1>10, <3>2, <3>3
  <2> HIDE DEF f
  <2>4. OrgsInvariant' /\ \A u : Seated(u)' <=> Seated(u)
    BY <1>3, <1>5, <2>2, <2>3, OrgsMarked
  <2>5. Onward /\ RowsInvariant' /\ ConfigInvariant'
    BY <1>5, <1>6, <1>10, <2>1, <2>4, RowsStand
  <2>6. /\ k = 7 => \A o \in p4' : o.default = TRUE
        /\ k = 8 => \A o \in p4' : o.slug = TRUE /\ \E e \in p4 : e.default = o.default
    <3>1. ASSUME NEW o \in p4'
          PROVE  /\ k = 7 => o.default = TRUE
                 /\ k = 8 => o.slug = TRUE /\ \E e \in p4 : e.default = o.default
      <4>1. PICK e \in p4 : o = f[e]
        BY <2>2
      <4>2. /\ k = 7 => f[e].default = TRUE
            /\ k = 8 => f[e].slug = TRUE /\ f[e].default = e.default
        BY <2>3
      <4>3. /\ k = 7 => o.default = TRUE
            /\ k = 8 => o.slug = TRUE /\ e.default = o.default
        BY <4>1, <4>2, Zenon
      <4> QED
        BY <4>3
    <3> QED
      BY <3>1
  <2> QED
    <3>1. k # 2 /\ k # 3 /\ k \notin {9, 10}
      BY <1>10
    <3> QED
      BY <1>0, <2>4, <2>5, <2>6, <3>1, UpgradesStepped
<1>11. CASE k \notin {2, 3, 4, 7, 8}
  <2>1. UNCHANGED <<p4, p5, p6>>
    BY <1>1, <1>11 DEF G!Step
  <2>2. Onward /\ OrgsInvariant' /\ RowsInvariant' /\ ConfigInvariant'
    BY <1>5, <1>6, <1>11, <2>1, TablesStand
  <2> QED
    BY <1>0, <1>11, <2>1, <2>2, UpgradesStepped
<1> QED
  BY <1>7, <1>8, <1>9, <1>10, <1>11

\* Every action keeps the invariant.
LEMMA UpgradesKept == UpgradesInvariant /\ [G!Next]_G!vars => UpgradesInvariant'
<1> SUFFICES ASSUME UpgradesInvariant, [G!Next]_G!vars PROVE UpgradesInvariant'
  OBVIOUS
<1>1. ASSUME NEW p \in Processes, G!Fails(p) \/ G!Dies(p) PROVE UpgradesInvariant'
  <2>1. p7' = [p7 EXCEPT ![p] = G!Down] /\ UNCHANGED <<p2, p3, p4, p5, p6>>
    BY <1>1 DEF G!Fails, G!Dies
  <2> QED
    BY <2>1, UpgradesDown
<1>2. CASE UNCHANGED G!vars
  <2>1. UNCHANGED <<p2, p3, p4, p5, p6, p7>>
    BY <1>2 DEF G!vars
  <2>2. Onward /\ OrgsInvariant' /\ RowsInvariant' /\ ConfigInvariant'
    BY <2>1, TablesStand
  <2>3. \A p \in Processes : Progress(p)'
    BY <2>1, <2>2, ProgressOnward DEF UpgradesInvariant
  <2>4. OrgsToCome'
    BY <2>1 DEF UpgradesInvariant, OrgsToCome
  <2> QED
    BY <2>1, <2>2, <2>3, <2>4 DEF UpgradesInvariant
<1> QED
  BY <1>1, <1>2, UpgradesStarted, UpgradesLooked, UpgradesStep, UpgradesCutShort, UpgradesOlder DEF G!Next

\* The whole shape is what the steps add, and the constraint.
LEMMA WholeIsAll == \A x : x \in G!Whole <=> x = G!Unique \/ \E k \in 1..10 : x \in G!Adds(k)
<1>1. G!Last = 10
  BY DEF G!Last
<1>2. \A x : x \in UNION {G!Adds(k) : k \in 1..G!Last} <=> \E k \in 1..G!Last : x \in G!Adds(k)
  OBVIOUS
<1>3. \A x : x \in G!Whole <=> x \in UNION {G!Adds(k) : k \in 1..G!Last} \/ x = G!Unique
  BY DEF G!Whole
<1> QED
  BY <1>1, <1>2, <1>3, Zenon

\* Once every process is up, all is there, and whoever had rows reaches them.
LEMMA UpgradesHold == UpgradesInvariant => G!ReachesTheShape /\ G!NobodyLosesAccess
<1> SUFFICES ASSUME UpgradesInvariant, G!Settled
             PROVE  /\ G!Whole \ (IF G!Cut THEN {G!Keyed} ELSE {}) \subseteq p2
                    /\ \A r \in p5 : r.author \in p3 /\ (\E p \in Processes : <<r.author, r.no>> \in p7[p].knew)
                                       => \E o \in G!Seats(r.author) : o.no = r.org
                    /\ \A u \in OldOwners : \E c \in p6 : /\ c.author = u
                                                          /\ ~G!Cut => \E o \in G!Seats(u) : o.no = c.org
                    /\ \A o \in p4 : o.default /\ o.slug
  BY DEF G!ReachesTheShape, G!NobodyLosesAccess
<1>1. \A p \in Processes : p7[p].pc = 11 /\ Progress(p)
  BY DEF G!Settled, G!Up, G!Last, UpgradesInvariant
<1>2. PICK p \in Processes : TRUE
  BY AccessAssumption DEF G!MigrationAssumption
<1>3. OrgsInvariant /\ RowsInvariant /\ ConfigInvariant /\ OrgsToCome
  BY DEF UpgradesInvariant
<1>4. ASSUME NEW u, Seated(u) PROVE \E o \in G!Seats(u) : o.no = 1
  BY <1>3, <1>4 DEF Seated, OrgsInvariant, G!Seats
<1>5. \A k \in 1..10 : Made(k, p2)
  <2>1. \A k \in 1..(p7[p].pc - 1) : Made(k, p2)
    BY <1>1, <1>2 DEF Progress
  <2>2. 1..10 = 1..(p7[p].pc - 1)
    <3>1. 1..10 = 1..(11 - 1)
      OBVIOUS
    <3> QED
      BY <1>1, <1>2, <3>1
  <2> QED
    BY <2>1, <2>2
<1>6. G!Unique \in p2
  <2>1. p7[p].pc > 5
    BY <1>1, <1>2
  <2> QED
    BY <1>1, <1>2, <2>1 DEF Progress
<1>7. G!Whole \ (IF G!Cut THEN {G!Keyed} ELSE {}) \subseteq p2
  <2> SUFFICES ASSUME NEW x \in G!Whole, ~(G!Cut /\ x = G!Keyed) PROVE x \in p2
    OBVIOUS
  <2>1. CASE x = G!Unique
    BY <1>6, <2>1
  <2>2. CASE x # G!Unique
    <3>1. PICK k \in 1..10 : x \in G!Adds(k)
      BY <2>2, WholeIsAll
    <3>2. CASE k = 4
      <4>1. x = G!Keyed /\ ~G!Cut
        BY <3>1, <3>2, StepsAdd
      <4> QED
        BY <1>5, <3>2, <4>1 DEF Made, G!Cut
    <3>3. CASE k # 4
      BY <1>5, <3>1, <3>3 DEF Made
    <3> QED
      BY <3>2, <3>3
  <2> QED
    BY <2>1, <2>2
<1>8. ASSUME NEW r \in p5, r.author \in p3, NEW q \in Processes, <<r.author, r.no>> \in p7[q].knew
      PROVE  \E o \in G!Seats(r.author) : o.no = r.org
  <2>1. p7[q].pc > 3
    BY <1>1
  <2>2. r.org = 1
    BY <1>1, <1>8, <2>1 DEF Progress, Known
  <2>3. Seated(r.author)
    BY <1>3, <2>2 DEF RowsInvariant
  <2> QED
    BY <1>4, <2>2, <2>3
<1>9. ASSUME NEW u \in OldOwners
      PROVE  \E c \in p6 : c.author = u /\ (~G!Cut => \E o \in G!Seats(u) : o.no = c.org)
  <2>1. PICK c \in p6 : c.author = u
    BY <1>3 DEF ConfigInvariant
  <2>2. ~G!Cut => c.org = 1 /\ Seated(u)
    BY <1>3, <1>5, <2>1 DEF ConfigInvariant, Made, G!Cut
  <2> QED
    BY <1>4, <2>1, <2>2
<1>10. ASSUME NEW o \in p4 PROVE o.default /\ o.slug
  <2>1. \A q \in Processes : ~(p7[q].pc <= 7) /\ ~(p7[q].pc <= 8)
    BY <1>1
  <2> QED
    BY <1>3, <2>1 DEF OrgsToCome
<1> QED
  BY <1>7, <1>8, <1>9, <1>10

\* A process that has nothing left to do does nothing.
LEMMA BootsAreSafe == UpgradesInvariant /\ [G!Next]_G!vars => G!SafeOnEachBoot
<1> SUFFICES ASSUME UpgradesInvariant, [G!Next]_G!vars,
                    G!Whole \subseteq p2, {r \in G!Orphans : r.author \in p3} = {},
                    \A o \in p4 : o.default /\ o.slug, \A p \in Processes : p7[p].found = {}, p7' # p7
             PROVE  UNCHANGED <<p4, p5, p6>> /\ p2' \ p2 \subseteq {G!Required}
  BY DEF G!SafeOnEachBoot
<1>1. ASSUME NEW p \in Processes, G!Start(p) \/ G!Look(p) \/ G!Fails(p) \/ G!Dies(p)
      PROVE  UNCHANGED <<p2, p4, p5, p6>>
  BY <1>1 DEF G!Start, G!Look, G!Fails, G!Dies
<1>2. ASSUME NEW p \in Processes, G!CutShort(p) PROVE FALSE
  BY <1>2 DEF G!CutShort
<1>3. ASSUME NEW p \in Processes, G!Step(p) PROVE UNCHANGED <<p4, p5, p6>> /\ p2' \ p2 \subseteq {G!Required}
  <2>1. PICK k : k = p7[p].pc
    OBVIOUS
  <2>2. /\ p2' = p2 \cup G!Gains(k, {})
        /\ \/ k = 2 /\ G!Provision({}) /\ UNCHANGED <<p5, p6>>
           \/ k = 3 /\ G!Backfill /\ UNCHANGED <<p4, p6>>
           \/ k = 4 /\ G!Rekey({}) /\ UNCHANGED <<p4, p5>>
           \/ k = 7 /\ G!Defaults /\ UNCHANGED <<p5, p6>>
           \/ k = 8 /\ G!Slugs /\ UNCHANGED <<p5, p6>>
           \/ k \notin {2, 3, 4, 7, 8} /\ UNCHANGED <<p4, p5, p6>>
    BY <1>3, <2>1 DEF G!Step
  <2>3. \A o \in p4 : DOMAIN o = OrgFields /\ o.default = TRUE /\ o.slug = TRUE /\ o.owner \in p3 /\ OrgRecord(o)
    BY DEF UpgradesInvariant, OrgsInvariant
  <2>4. G!Gains(k, {}) \ p2 \subseteq {G!Required}
    <3>1. G!Unique \in p2 /\ G!Adds(9) \subseteq p2
      <4>1. 9 \in 1..10
        OBVIOUS
      <4> QED
        BY <4>1, WholeIsAll
    <3>2. CASE k = 5
      BY <3>1, <3>2 DEF G!Gains, G!Rebuilt
    <3>3. CASE k # 5
      BY <3>3 DEF G!Gains
    <3> QED
      BY <3>2, <3>3
  <2>5. CASE k = 2
    <3>1. G!Provision({}) /\ UNCHANGED <<p5, p6>>
      BY <2>2, <2>5
    <3> QED
      BY <2>2, <2>4, <3>1 DEF G!Provision
  <2>6. CASE k = 3
    <3>1. \A u : G!Home(u) # 0 => Seated(u)
      BY HomeIsFirst DEF UpgradesInvariant
    <3>2. \A u : Seated(u) => u \in p3
      BY <2>3 DEF Seated
    <3>3. G!Repaired = {}
      BY <3>1, <3>2 DEF G!Repaired, G!None
    <3>4. G!Backfill /\ UNCHANGED <<p4, p6>>
      BY <2>2, <2>6
    <3> QED
      BY <2>2, <2>4, <3>3, <3>4 DEF G!Backfill
  <2>7. CASE k = 4
    <3>1. G!Rekey({}) /\ UNCHANGED <<p4, p5>>
      BY <2>2, <2>7
    <3> QED
      BY <2>2, <2>4, <3>1 DEF G!Rekey
  <2>8. CASE k = 7
    <3>1. \A o \in p4 : [o EXCEPT !.default = TRUE] = o
      BY <2>3 DEF OrgFields, OrgRecord
    <3>2. G!Defaults /\ UNCHANGED <<p5, p6>>
      BY <2>2, <2>8
    <3>3. p4' = p4
      BY <3>1, <3>2 DEF G!Defaults
    <3> QED
      BY <2>2, <2>4, <3>2, <3>3
  <2>9. CASE k = 8
    <3>1. \A o \in p4 : [o EXCEPT !.slug = TRUE] = o
      BY <2>3 DEF OrgFields, OrgRecord
    <3>2. G!Slugs /\ UNCHANGED <<p5, p6>>
      BY <2>2, <2>9
    <3>3. p4' = p4
      BY <3>1, <3>2 DEF G!Slugs
    <3> QED
      BY <2>2, <2>4, <3>2, <3>3
  <2> QED
    BY <2>2, <2>4, <2>5, <2>6, <2>7, <2>8, <2>9
<1>4. ASSUME NEW u \in OldOwners \cup Late, G!OlderRelease(u) PROVE FALSE
  BY <1>4 DEF G!OlderRelease
<1>5. CASE UNCHANGED G!vars
  BY <1>5 DEF G!vars
<1> QED
  BY <1>1, <1>2, <1>3, <1>4, <1>5 DEF G!Next

--------------------------------------------------------------------------------
(* The parts together: a behaviour is one part's, and the others' places   *)
(* stand still.                                                            *)

AccessInvariant ==
  /\ part = "invitations" => InvitationsInvariant
  /\ part = "support" => SupportInvariant
  /\ part = "keys" => KeysInvariant /\ KeysEnd
  /\ part = "definitions" => FlowsInvariant
  /\ part = "sessions" => SessionsInvariant
  /\ part = "migrations" => UpgradesInvariant

\* Each part's invariant is kept by its steps, and no other part is the one of a behaviour.
LEMMA PartsHold == AccessSpec => []AccessInvariant
<1>1. AccessInit => AccessInvariant
  BY InvitationsStart, SupportStart, KeysStart, KeysEndStart, FlowsStart, SessionsStart, UpgradesStart
     DEF AccessInit, AccessInvariant
<1>2. AccessInvariant /\ [AccessNext]_allVars => AccessInvariant'
  <2> SUFFICES ASSUME AccessInvariant, [AccessNext]_allVars PROVE AccessInvariant'
    OBVIOUS
  <2>1. part' = part
    BY DEF AccessNext, allVars
  <2>2. part = "invitations" => [V!Next]_V!vars
    BY DEF AccessNext, allVars, places, V!vars
  <2>3. part = "support" => [S!Next]_S!vars
    BY DEF AccessNext, allVars, places, S!vars
  <2>4. part = "keys" => [K!Next]_K!vars
    BY DEF AccessNext, allVars, places, more, K!vars
  <2>5. part = "definitions" => [W!Next]_W!vars
    BY DEF AccessNext, allVars, places, W!vars
  <2>6. part = "sessions" => [U!Next]_U!vars
    BY DEF AccessNext, allVars, places, U!vars
  <2>7. part = "migrations" => [G!Next]_G!vars
    BY DEF AccessNext, allVars, places, G!vars
  <2> QED
    BY <2>1, <2>2, <2>3, <2>4, <2>5, <2>6, <2>7, InvitationsStep, SupportStep, KeysStep, KeysEndStep, FlowsStep,
       SessionsStep, UpgradesKept DEF AccessInvariant
<1> QED
  BY <1>1, <1>2, PTL DEF AccessSpec

\* No earlier invitation outlives the one that supersedes it, no support session what
\* closed it; no service account is wider than who made it what it is, and no key is
\* followed by two, unless the changes in question overlapped.
THEOREM ClosedHolds == AccessSpec => []ClosedStaysClosed
<1>1. AccessInvariant => ClosedStaysClosed
  BY InvitationsHold, SupportHoldsOff, KeysHold DEF AccessInvariant, ClosedStaysClosed
<1> QED
  BY <1>1, PartsHold, PTL

\* What is in force of a workflow is one publication's, by somebody else than who prepared
\* it where that is asked for, its working copy says when it differs, and it is due as it
\* is scheduled; each while the requests that could undo it do not overlap.
THEOREM FlowsAreHeldTo == AccessSpec => []FlowsAreAsPublished
<1>1. AccessInvariant => FlowsAreAsPublished
  BY FlowsHold DEF AccessInvariant, FlowsAreAsPublished
<1> QED
  BY <1>1, PartsHold, PTL

\* What ended a person's sessions ended them for good, a token and a code are each good once,
\* and no reset link outlasts its password; a key that ended lets nobody in again, and a call
\* stays in its key's environment; each while the requests that could undo it do not overlap.
THEOREM SessionsEnd == AccessSpec => SessionsEndForGood
<1>1. AccessInvariant => (part = "sessions" => U!SessionsEndForGood /\ U!LinksDoNotUndo)
  BY SessionsHold DEF AccessInvariant
<1>2. AccessInvariant => (part = "sessions" => U!CodesWorkOnce)
  BY SessionsHold DEF AccessInvariant
<1>3. AccessInvariant /\ [AccessNext]_allVars
        => (part = "keys" => K!EndedKeysStayEnded /\ K!CallsStayInTheirEnvironment)
  <2> SUFFICES ASSUME AccessInvariant, [AccessNext]_allVars, part = "keys"
               PROVE  K!EndedKeysStayEnded /\ K!CallsStayInTheirEnvironment
    OBVIOUS
  <2>1. [K!Next]_K!vars
    BY DEF AccessNext, allVars, places, more, K!vars
  <2> QED
    BY <2>1, KeysEndForGood DEF AccessInvariant
<1> QED
  BY <1>1, <1>2, <1>3, PartsHold, PTL DEF SessionsEndForGood, AccessSpec

\* However the boots of a new release interleave, break off and meet each other, the schema
\* reaches its shape once all of them are up, whoever had rows before still reaches them, and
\* a boot that finds everything done does nothing.
THEOREM UpgradesKeep == AccessSpec => UpgradesLoseNothing
<1>1. AccessInvariant => (part = "migrations" => G!ReachesTheShape /\ G!NobodyLosesAccess)
  BY UpgradesHold DEF AccessInvariant
<1>2. AccessInvariant /\ [AccessNext]_allVars => (part = "migrations" => G!SafeOnEachBoot)
  <2> SUFFICES ASSUME AccessInvariant, [AccessNext]_allVars, part = "migrations" PROVE G!SafeOnEachBoot
    OBVIOUS
  <2>1. [G!Next]_G!vars
    BY DEF AccessNext, allVars, places, G!vars
  <2> QED
    BY <2>1, BootsAreSafe DEF AccessInvariant
<1> QED
  BY <1>1, <1>2, PartsHold, PTL DEF UpgradesLoseNothing, AccessSpec

\* A behaviour of this composition is one of the seats, which then stand still unless they
\* are its part: an owner, and settled defaults, with the exceptions named above.
THEOREM SeatsAreAPart == AccessSpec => []AlwaysAnOwner /\ DefaultsStay
<1>1. AccessInit => Init
  BY DEF AccessInit
<1>2. [AccessNext]_allVars => [Next]_vars
  BY DEF AccessNext, allVars, membership, vars
<1>3. AccessSpec => Spec
  BY <1>1, <1>2, PTL DEF AccessSpec, Spec
<1> QED
  BY <1>3, OwnersStand, DefaultsHold, PTL
=================================================================================

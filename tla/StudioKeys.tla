------------------------------- MODULE StudioKeys --------------------------------
(***************************************************************************)
(* A service account of an organization and its API keys: who sets it up,  *)
(* what its keys let in, and how they end.                                 *)
(*                                                                         *)
(*   services/studio/credentials.py  create_account, update_account,       *)
(*                                   issue, rotate, revoke, authenticate   *)
(*   routers/studio.py               one transaction per request           *)
(*   integration/deps.py             get_principal, require, get_company   *)
(*   services/studio/releases.py     set_environment                       *)
(*                                                                         *)
(* A request reads and checks, and writes the columns that differ from     *)
(* what it read at its commit.  Companies, their environments and their    *)
(* managers change meanwhile.  A key is an identity: how one is drawn,     *)
(* stored and compared is left out, as are rate limits.                    *)
(***************************************************************************)
EXTENDS Integers, FiniteSets

CONSTANTS
  People,      \* who may manage companies
  Companies,   \* of the organization
  Scopes,      \* what a key may be good for
  Requests,    \* requests of people under way at one time
  Lives,       \* how long a key may be given
  Graces,      \* how long a rotated key may live on
  KeyBound,    \* bound: keys
  AskBound,    \* bound: requests of people
  TimeBound,   \* bound: time
  ChangeBound  \* bound: changes of a company

KeysAssumption ==
  /\ Lives \subseteq Nat \ {0} /\ Graces \subseteq Nat
  /\ {KeyBound, AskBound, TimeBound, ChangeBound} \subseteq Nat

Keys == 1..KeyBound
None == 0
Environments == {"test", "production"}
Some(set) == (SUBSET set) \ {{}}

VARIABLES
  company,  \* is_active, the environment, and who manages it
  account,  \* studio_service_accounts
  key,      \* studio_credentials
  rq,       \* people's requests between their reads and their commit
  call,     \* a request with a key, between its checks
  now,
  asked,    \* requests of people, so far
  changes,  \* of companies, so far
  backed,   \* whether who set up the account as it is managed every company it names
  raced,    \* whether two changes of the account overlapped
  doubled   \* keys of which two rotations overlapped

vars == <<company, account, key, rq, call, now, asked, changes, backed, raced, doubled>>

NoAccount == [status |-> "absent", env |-> "production", companies |-> {}, scopes |-> {}]
NoKey == [issued |-> FALSE, until |-> 0, revoked |-> FALSE, from |-> None, to |-> None]
Idle == [op |-> "idle"]
NoCall == [pc |-> "none"]

Init ==
  /\ \E owner \in People :
       company = [c \in Companies |-> [active |-> TRUE, env |-> "production", managers |-> {owner}]]
  /\ account = NoAccount
  /\ key = [k \in Keys |-> NoKey]
  /\ rq = [q \in Requests |-> Idle]
  /\ call = NoCall
  /\ now = 0 /\ asked = 0 /\ changes = 0
  /\ backed = TRUE /\ raced = FALSE /\ doubled = {}

--------------------------------------------------------------------------------
(* The account.                                                            *)

Managed(p) == {c \in Companies : company[c].active /\ p \in company[c].managers}

\* _check_companies, and with it the environment where that is asked for.
InCharge(p, cs) == cs # {} /\ cs \subseteq Managed(p)
InChargeIn(p, cs, env) == InCharge(p, cs) /\ \A c \in cs : company[c].env = env

Reads(q, what) ==
  /\ rq[q] = Idle /\ asked < AskBound
  /\ rq' = [rq EXCEPT ![q] = what]
  /\ asked' = asked + 1
  /\ UNCHANGED <<company, account, key, call, now, changes, backed, raced, doubled>>

Done(q) == rq' = [rq EXCEPT ![q] = Idle] /\ UNCHANGED <<company, call, now, asked, changes>>

\* A request that is refused at its commit, or breaks off.
Fails(q) ==
  /\ rq[q] # Idle
  /\ Done(q)
  /\ UNCHANGED <<account, key, backed, raced, doubled>>

CreateReads(q, p) ==
  /\ account.status = "absent"
  /\ \E env \in Environments, cs \in Some(Companies), scopes \in Some(Scopes) :
       /\ InChargeIn(p, cs, env)
       /\ Reads(q, [op |-> "create", managed |-> Managed(p),
                    row |-> [status |-> "active", env |-> env, companies |-> cs, scopes |-> scopes]])

\* Of two of one name the unique index refuses the second.
CreateWrites(q) ==
  /\ rq[q].op = "create"
  /\ account.status = "absent"
  /\ account' = rq[q].row
  /\ backed' = (rq[q].row.companies \subseteq rq[q].managed)
  /\ Done(q)
  /\ UNCHANGED <<key, raced, doubled>>

\* Whoever edits manages the companies it names already, and the ones it is to name.
MayUpdate(p, row) ==
  /\ InChargeIn(p, account.companies, account.env)
  /\ row.companies # account.companies => InChargeIn(p, row.companies, account.env)

UpdateReads(q, p) ==
  /\ account.status # "absent"
  /\ \E status \in {"active", "disabled"}, cs \in Some(Companies), scopes \in Some(Scopes) :
       LET row == [status |-> status, env |-> account.env, companies |-> cs, scopes |-> scopes] IN
       /\ row # account
       /\ MayUpdate(p, row)
       /\ Reads(q, [op |-> "update", managed |-> Managed(p), seen |-> account, row |-> row])

UpdateWrites(q) ==
  LET seen == rq[q].seen
      row == rq[q].row IN
  /\ rq[q].op = "update"
  /\ account' = [f \in DOMAIN account |-> IF row[f] # seen[f] THEN row[f] ELSE account[f]]
  /\ backed' = (account' = row /\ row.companies \subseteq rq[q].managed)
  /\ raced' = (raced \/ account # seen)
  /\ Done(q)
  /\ UNCHANGED <<key, doubled>>

--------------------------------------------------------------------------------
(* The keys.                                                               *)

Earlier(a, b) == IF a < b THEN a ELSE b

NextKey == {k \in Keys : ~key[k].issued /\ \A j \in 1..(k - 1) : key[j].issued}

Fresh(until, from) == [NoKey EXCEPT !.issued = TRUE, !.until = until, !.from = from]

\* issue: of an account that is not disabled, by somebody in charge of its companies.
MayIssue(p) == account.status = "active" /\ InCharge(p, account.companies)

IssueReads(q, p) ==
  /\ MayIssue(p)
  /\ \E life \in Lives : Reads(q, [op |-> "issue", fresh |-> now + life])

IssueWrites(q) ==
  /\ rq[q].op = "issue"
  /\ \E n \in NextKey : key' = [key EXCEPT ![n] = Fresh(rq[q].fresh, None)]
  /\ Done(q)
  /\ UNCHANGED <<account, backed, raced, doubled>>

\* When a rotated key ends: after its overlap, if it lasts that long.
Ending(until, end) == Earlier(until, end)

\* rotate: of a key that is not revoked and was not rotated.
RotateReads(q, p, k) ==
  /\ key[k].issued /\ ~key[k].revoked /\ key[k].to = None
  /\ MayIssue(p)
  /\ \E life \in Lives, grace \in Graces :
       Reads(q, [op |-> "rotate", key |-> k, fresh |-> now + life,
                 successor |-> key[k].to, seen |-> key[k].until, until |-> Ending(key[k].until, now + grace)])

RotateWrites(q) ==
  LET k == rq[q].key IN
  /\ rq[q].op = "rotate"
  /\ \E n \in NextKey :
       key' = [key EXCEPT ![k].to = n, ![k].until = IF rq[q].until # rq[q].seen THEN rq[q].until ELSE @,
                          ![n] = Fresh(rq[q].fresh, k)]
  /\ doubled' = IF key[k].to # rq[q].successor THEN doubled \cup {k} ELSE doubled
  /\ Done(q)
  /\ UNCHANGED <<account, backed, raced>>

\* revoke: by somebody in charge of every company of the account, disabled or not.
RevokeReads(q, p, k) ==
  /\ key[k].issued /\ ~key[k].revoked
  /\ InCharge(p, account.companies)
  /\ Reads(q, [op |-> "revoke", key |-> k])

RevokeWrites(q) ==
  /\ rq[q].op = "revoke"
  /\ key' = [key EXCEPT ![rq[q].key].revoked = TRUE]
  /\ Done(q)
  /\ UNCHANGED <<account, backed, raced, doubled>>

--------------------------------------------------------------------------------
(* Requests with a key.                                                    *)

Ended(k) == key[k].revoked \/ key[k].until <= now

Calls(to) == call' = to /\ UNCHANGED <<company, account, key, rq, now, asked, changes, backed, raced, doubled>>

\* authenticate; what the account may do is as read here.
Authenticate(k) ==
  /\ call = NoCall
  /\ key[k].issued /\ ~Ended(k)
  /\ account.status = "active"
  /\ Calls([pc |-> "known", scopes |-> account.scopes, companies |-> account.companies])

\* get_company: named, active, and still of the account's environment.
MayEnter(c) == c \in call.companies /\ company[c].active /\ company[c].env = account.env

\* require, get_company.
Admit(c, scope) ==
  /\ call.pc = "known"
  /\ scope \in call.scopes
  /\ MayEnter(c)
  /\ Calls([pc |-> "working", company |-> c])

\* Answered, or refused.
Answer == call # NoCall /\ Calls(NoCall)

--------------------------------------------------------------------------------
(* What goes on around them.                                               *)

Tick ==
  /\ now < TimeBound
  /\ now' = now + 1
  /\ UNCHANGED <<company, account, key, rq, call, asked, changes, backed, raced, doubled>>

\* A company is archived or reopened, marked as of another environment (set_environment),
\* or gets or loses a manager.
CompanyChanges(c) ==
  /\ changes < ChangeBound
  /\ changes' = changes + 1
  /\ \/ company' = [company EXCEPT ![c].active = ~@]
     \/ \E env \in Environments : company' = [company EXCEPT ![c].env = env]
     \/ \E p \in People :
          company' = [company EXCEPT ![c].managers = IF p \in @ THEN @ \ {p} ELSE @ \cup {p}]
  /\ UNCHANGED <<account, key, rq, call, now, asked, backed, raced, doubled>>

Asks(q, p) ==
  \/ CreateReads(q, p) \/ UpdateReads(q, p) \/ IssueReads(q, p)
  \/ \E k \in Keys : RotateReads(q, p, k) \/ RevokeReads(q, p, k)

Next ==
  \/ \E q \in Requests : \/ \E p \in People : Asks(q, p)
                         \/ CreateWrites(q) \/ UpdateWrites(q) \/ IssueWrites(q) \/ RotateWrites(q)
                         \/ RevokeWrites(q) \/ Fails(q)
  \/ \E k \in Keys : Authenticate(k)
  \/ \E c \in Companies, scope \in Scopes : Admit(c, scope)
  \/ Answer \/ Tick
  \/ \E c \in Companies : CompanyChanges(c)

Spec == Init /\ [][Next]_vars

--------------------------------------------------------------------------------
(* Properties.                                                             *)

\* "Never wider than its creator" (credentials.py:11): somebody who managed every company the
\* account names gave it, or left it, the scopes it has for them; unless two changes of it
\* overlapped.
NeverWiderThanItsMaker == backed \/ raced

\* A key leads to one successor, which it names, unless two rotations of it overlapped.
OneSuccessor ==
  \A k \in Keys \ doubled : {j \in Keys : key[j].from = k} = {key[k].to} \ {None}

\* A key that was revoked or ran out, with its overlap after a rotation, lets nobody in
\* again, unless two rotations of it overlapped.
EndedKeysStayEnded == \A k \in Keys : key[k].issued /\ Ended(k) => Ended(k)' \/ k \in doubled'

\* A call works only in companies of the environment its key was made for, whatever they
\* were marked when the account was given them.
CallsStayInTheirEnvironment ==
  call.pc = "known" /\ call'.pc = "working" => company[call'.company].env = account.env
================================================================================

------------------------------- MODULE Invitations ------------------------------
(***************************************************************************)
(* Invitations to an organization and the seat they lead to.               *)
(*                                                                         *)
(*   services/invitations.py  create, resend, revoke, lookup, accept,      *)
(*                            remove_member                                *)
(*   routers/org.py           one transaction per request                  *)
(*                                                                         *)
(* One address, invited by the owners of one organization.  A request      *)
(* reads, and writes at its commit the columns it changed, with no guard   *)
(* on what it read.                                                        *)
(***************************************************************************)
EXTENDS Integers

CONSTANTS
  Requests,   \* requests under way at one time
  InviteBound, \* bound: invitations
  TokenBound  \* bound: tokens, one per invitation and per resend

InvitationAssumption == {InviteBound, TokenBound} \subseteq Nat

Invites == 1..InviteBound
Tokens == 1..TokenBound
NoToken == 0

VARIABLES
  inv,     \* org_invitations of the address, in the order of their creation
  seat,    \* whether the person is a member
  drawn,   \* tokens handed out
  rq       \* the requests between their reads and their commit

vars == <<inv, seat, drawn, rq>>

\* `knew` are the invitations there were when it was asked for.
Absent == [state |-> "absent", token |-> NoToken, expired |-> FALSE, knew |-> {}]

\* `about` are the invitations it will write, `knew` those it could see.
Idle == [kind |-> "idle", about |-> {}, knew |-> {}]

Init ==
  /\ inv = [i \in Invites |-> Absent]
  /\ seat = FALSE
  /\ drawn = 0
  /\ rq = [q \in Requests |-> Idle]

--------------------------------------------------------------------------------
Made == {i \in Invites : inv[i].state # "absent"}
Live(i) == inv[i].state = "pending" /\ ~inv[i].expired

Reads(q, kind, about) ==
  /\ rq[q] = Idle
  /\ rq' = [rq EXCEPT ![q] = [kind |-> kind, about |-> about, knew |-> Made]]
  /\ UNCHANGED <<inv, seat, drawn>>

\* Mutant of Prior: those that expired are left as they are.
PriorLive == {i \in Made : Live(i)}
\* The pending invitations of the address, those that have expired among them.
Prior == {i \in Made : inv[i].state = "pending"}

\* create: not for a member.
CreateReads(q) == ~seat /\ Reads(q, "create", Prior)

\* resend: pending or expired.
ResendReads(q, i) == inv[i].state = "pending" /\ Reads(q, "resend", {i})

\* revoke: not accepted.
RevokeReads(q, i) == inv[i].state \in {"pending", "revoked"} /\ Reads(q, "revoke", {i})

\* lookup of a token that was handed out, and accept: the invitation is live, and
\* the person has no seat.
AcceptReads(q, token) ==
  \E i \in Made : inv[i].token = token /\ Live(i) /\ ~seat /\ Reads(q, "accept", {i})

Ends(q) == rq' = [rq EXCEPT ![q] = Idle]

\* The prior ones are revoked and the new one is pending: nothing in the table keeps
\* two of them apart.
CreateCommits(q) ==
  /\ rq[q].kind = "create" /\ drawn < TokenBound
  /\ \E n \in Invites \ Made :
       /\ \A i \in 1..(n - 1) : i \in Made
       /\ inv' = [i \in Invites |->
                    CASE i \in rq[q].about -> [inv[i] EXCEPT !.state = "revoked"]
                      [] i = n -> [state |-> "pending", token |-> drawn + 1, expired |-> FALSE, knew |-> rq[q].knew]
                      [] OTHER -> inv[i]]
  /\ drawn' = drawn + 1
  /\ Ends(q) /\ UNCHANGED seat

\* A new token and a new term; the state, which it read as pending, is not written.
ResendCommits(q) ==
  /\ rq[q].kind = "resend" /\ drawn < TokenBound
  /\ inv' = [i \in Invites |-> IF i \in rq[q].about THEN [inv[i] EXCEPT !.token = drawn + 1, !.expired = FALSE] ELSE inv[i]]
  /\ drawn' = drawn + 1
  /\ Ends(q) /\ UNCHANGED seat

RevokeCommits(q) ==
  /\ rq[q].kind = "revoke"
  /\ inv' = [i \in Invites |-> IF i \in rq[q].about THEN [inv[i] EXCEPT !.state = "revoked"] ELSE inv[i]]
  /\ Ends(q) /\ UNCHANGED <<seat, drawn>>

\* The seat is unique: a second acceptance is refused.
AcceptCommits(q) ==
  /\ rq[q].kind = "accept" /\ ~seat
  /\ inv' = [i \in Invites |-> IF i \in rq[q].about THEN [inv[i] EXCEPT !.state = "accepted"] ELSE inv[i]]
  /\ seat' = TRUE
  /\ Ends(q) /\ UNCHANGED drawn

\* A request that fails, or meets the unique seat.
Fails(q) ==
  /\ rq[q] # Idle
  /\ Ends(q) /\ UNCHANGED <<inv, seat, drawn>>

\* remove_member: the invitation that led there stays accepted.
Remove ==
  /\ seat
  /\ seat' = FALSE
  /\ UNCHANGED <<inv, drawn, rq>>

Expires(i) ==
  /\ Live(i)
  /\ inv' = [inv EXCEPT ![i].expired = TRUE]
  /\ UNCHANGED <<seat, drawn, rq>>

--------------------------------------------------------------------------------
Next ==
  \/ Remove
  \/ \E i \in Invites : Expires(i)
  \/ \E q \in Requests :
       \/ CreateReads(q) \/ CreateCommits(q) \/ ResendCommits(q) \/ RevokeCommits(q) \/ AcceptCommits(q) \/ Fails(q)
       \/ \E i \in Invites : ResendReads(q, i) \/ RevokeReads(q, i)
       \/ \E t \in Tokens : AcceptReads(q, t)

Spec == Init /\ [][Next]_vars

--------------------------------------------------------------------------------
TypeOK ==
  /\ inv \in [Invites -> [state : {"absent", "pending", "revoked", "accepted"}, token : Tokens \cup {NoToken},
                          expired : BOOLEAN, knew : SUBSET Invites]]
  /\ seat \in BOOLEAN
  /\ drawn \in 0..TokenBound
  /\ rq \in [Requests -> [kind : {"idle", "create", "resend", "revoke", "accept"},
                          about : SUBSET Invites, knew : SUBSET Invites]]

\* "A second invitation to the same address supersedes the first ..., so two live
\* tokens never exist for one seat" (invitations.py:209-210): of two invitations
\* that can be accepted, neither was asked for when the other was there already,
\* whatever was resent, revoked, expired or accepted meanwhile.
LaterSupersedesEarlier ==
  \A i, j \in Made : Live(i) /\ Live(j) /\ i # j => i \notin inv[j].knew
================================================================================

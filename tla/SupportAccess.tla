------------------------------ MODULE SupportAccess -----------------------------
(***************************************************************************)
(* Support sessions of platform staff on a client's organization, and the  *)
(* client's switch for them.                                               *)
(*                                                                         *)
(*   services/support_access.py  set_policy, open_grant, approve, end,     *)
(*                               active_grant                              *)
(*   routers/org.py, routers/admin.py: one transaction per request         *)
(*                                                                         *)
(* One organization and one member of staff.  A request reads, and writes  *)
(* at its commit; what it writes has no guard on what it read.             *)
(***************************************************************************)
EXTENDS Integers

CONSTANTS
  Requests,   \* requests under way at one time
  GrantBound  \* bound: grants

SupportAssumption == GrantBound \in Nat

Grants == 1..GrantBound
Policies == {"break_glass", "approval_required", "disabled"}
None == 0

VARIABLES
  policy,  \* Organization.support_access_policy
  grant,   \* support_access_grants
  rq,      \* the requests between their reads and their commit
  raced,   \* grants whose session a request made usable while one that closes it was under way
  closed   \* grants that were ended or revoked

vars == <<policy, grant, rq, raced, closed>>

Absent == [state |-> "absent", expired |-> FALSE]

\* `about` are the grants it will write, `to` what it makes of them or of the policy,
\* `overlapped` whether another that closes them commits meanwhile.
Idle == [kind |-> "idle", about |-> {}, to |-> "none", overlapped |-> FALSE]

Init ==
  /\ policy = "break_glass"
  /\ grant = [g \in Grants |-> Absent]
  /\ rq = [q \in Requests |-> Idle]
  /\ raced = {}
  /\ closed = {}

--------------------------------------------------------------------------------
Usable(g) == grant[g].state = "active" /\ ~grant[g].expired
Pending(g) == grant[g].state = "pending" /\ ~grant[g].expired

Reads(q, kind, about, to) ==
  /\ rq[q] = Idle
  /\ rq' = [rq EXCEPT ![q] = [Idle EXCEPT !.kind = kind, !.about = about, !.to = to]]
  /\ UNCHANGED <<policy, grant, raced, closed>>

\* open_grant: active at once, or to be approved; refused while one is active.
OpenReads(q) ==
  /\ policy # "disabled"
  /\ \A g \in Grants : ~Usable(g)
  /\ Reads(q, "open", {}, IF policy = "break_glass" THEN "active" ELSE "pending")

ApproveReads(q, g) == Pending(g) /\ Reads(q, "approve", {g}, "active")

\* Ended by the member of staff, or revoked by the client.
EndReads(q, g) == grant[g].state \in {"active", "pending"} /\ Reads(q, "close", {g}, "ended")

\* Mutant of OpenNow: only the sessions in use.
OpenNowActive == {g \in Grants : Usable(g)}
\* active_grants_for_org.
OpenNow == {g \in Grants : Usable(g) \/ Pending(g)}

PolicyReads(q, p) == Reads(q, "policy", IF p = "disabled" THEN OpenNow ELSE {}, p)

\* Whether a request that has read may close g: as what it read, or as every one.
Closing(g) ==
  \E q \in Requests : \/ rq[q].kind = "policy" /\ rq[q].to = "disabled"
                      \/ rq[q].kind = "close" /\ g \in rq[q].about

\* A closing of `gs` overlaps every opening, and every approval of one of them.
Overlaps(q, gs) ==
  [r \in Requests |-> CASE r = q -> Idle
                        [] r # q /\ (rq[r].kind = "open" \/ rq[r].about \cap gs # {}) -> [rq[r] EXCEPT !.overlapped = TRUE]
                        [] OTHER -> rq[r]]

NextGrant == {g \in Grants : grant[g].state = "absent" /\ \A h \in 1..(g - 1) : grant[h].state # "absent"}

OpenCommits(q) ==
  /\ rq[q].kind = "open"
  /\ \E g \in NextGrant :
       /\ grant' = [grant EXCEPT ![g].state = rq[q].to]
       /\ raced' = IF rq[q].overlapped \/ Closing(g) THEN raced \cup {g} ELSE raced
  /\ rq' = [rq EXCEPT ![q] = Idle]
  /\ UNCHANGED <<policy, closed>>

ApproveCommits(q) ==
  /\ rq[q].kind = "approve"
  /\ grant' = [g \in Grants |-> IF g \in rq[q].about THEN [grant[g] EXCEPT !.state = "active"] ELSE grant[g]]
  /\ raced' = raced \cup {g \in rq[q].about : rq[q].overlapped \/ Closing(g)}
  /\ rq' = [rq EXCEPT ![q] = Idle]
  /\ UNCHANGED <<policy, closed>>

\* end and set_policy's closing of what is open.
CloseCommits(q) ==
  /\ rq[q].kind = "close" \/ rq[q].kind = "policy"
  /\ policy' = IF rq[q].kind = "policy" THEN rq[q].to ELSE policy
  /\ grant' = [g \in Grants |-> IF g \in rq[q].about THEN [grant[g] EXCEPT !.state = "ended"] ELSE grant[g]]
  /\ closed' = closed \cup rq[q].about
  /\ rq' = Overlaps(q, IF policy' = "disabled" /\ rq[q].kind = "policy" THEN Grants ELSE rq[q].about)
  /\ UNCHANGED raced

Refused(q) ==
  /\ rq[q] # Idle
  /\ rq' = [rq EXCEPT ![q] = Idle]
  /\ UNCHANGED <<policy, grant, raced, closed>>

\* The time the session was opened for is over.
Expires(g) ==
  /\ grant[g].state # "absent" /\ ~grant[g].expired
  /\ grant' = [grant EXCEPT ![g].expired = TRUE]
  /\ UNCHANGED <<policy, rq, raced, closed>>

--------------------------------------------------------------------------------
Next ==
  \/ \E g \in Grants : Expires(g)
  \/ \E q \in Requests :
       \/ OpenReads(q) \/ OpenCommits(q) \/ ApproveCommits(q) \/ CloseCommits(q) \/ Refused(q)
       \/ \E g \in Grants : ApproveReads(q, g) \/ EndReads(q, g)
       \/ \E p \in Policies : PolicyReads(q, p)

Spec == Init /\ [][Next]_vars

--------------------------------------------------------------------------------
TypeOK ==
  /\ policy \in Policies
  /\ grant \in [Grants -> [state : {"absent", "active", "pending", "ended"}, expired : BOOLEAN]]
  /\ rq \in [Requests -> [kind : {"idle", "open", "approve", "close", "policy"}, about : SUBSET Grants,
                          to : {"none", "active", "pending", "ended"} \cup Policies,
                          overlapped : BOOLEAN]]
  /\ raced \subseteq Grants /\ closed \subseteq Grants

\* "Switching support off closes anything already open" (support_access.py:98), and
\* a request to open that waits to be approved with it: no session is usable on an
\* organization that has turned support off, and none that was ended or revoked,
\* except one opened or approved by a request that overlapped the closing.
OffMeansOff ==
  \A g \in Grants : Usable(g) => g \in raced \/ (policy # "disabled" /\ g \notin closed)
================================================================================

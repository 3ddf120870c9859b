-------------------------------- MODULE Sessions --------------------------------
(***************************************************************************)
(* One person's sign-ins (routers/auth.py, services/auth_security.py): the *)
(* password, the second step, the tokens she is given and exchanges, and   *)
(* the ways all of them end.                                               *)
(*                                                                         *)
(* A request reads the user's row and commits later, what it saw in hand;  *)
(* other requests come in between.  It writes the columns it changes and   *)
(* no others.  Three requests commit first and issue tokens after, in a    *)
(* transaction that reads the row again.                                   *)
(*                                                                         *)
(* That a request is refused for other reasons (a seat that is gone, a     *)
(* lock after wrong answers, tokens too old) changes nothing here.         *)
(***************************************************************************)
EXTENDS Integers, FiniteSets

CONSTANTS
  Requests,
  RequestBound,   \* bound: requests made
  TokenBound,     \* bound: pairs of tokens issued
  ChangeBound,    \* bound: versions of the sessions, passwords, secrets and sets of codes
  LinkBound,      \* bound: reset links
  TimeBound       \* bound: steps of the one-time passwords

SessionsAssumption == {RequestBound, TokenBound, ChangeBound, LinkBound, TimeBound} \subseteq Nat

None == 0

VARIABLES
  user,      \* session_version, the password, and the second step: its secret, whether it is on,
             \* the last time step spent and the recovery codes left; how many secrets and sets
             \* of codes there have been
  tokens,    \* pairs issued: their session, the version they carry, and the row of the refresh token
  links,     \* password reset links
  reqs,      \* requests under way
  now,       \* the time step
  spent,     \* the codes that were accepted
  asked,     \* requests made
  raced      \* what two overlapping requests have both written: "version", "codes"

vars == <<user, tokens, links, reqs, now, spent, asked, raced>>

Idle == [op |-> "idle"]

Init ==
  /\ user = [version |-> 0, password |-> 1, secret |-> None, on |-> FALSE, step |-> None, codes |-> {},
             secrets |-> 0, sets |-> 0]
  /\ tokens = {}
  /\ links = {}
  /\ reqs = [r \in Requests |-> Idle]
  /\ now = 1
  /\ spent = {}
  /\ asked = 0
  /\ raced = {}

--------------------------------------------------------------------------------
\* A token is accepted under the version it carries; it is exchanged while its row is
\* there and not rotated.
Current(t) == t.version = user.version
Exchangeable(t) == t.row = "live" /\ Current(t)

Codes(n) == {<<n, 1>>, <<n, 2>>}

\* What a request shows for the second step: the code of a time step, one either side
\* included, or a recovery code. A step at or before the last one is refused.
Moments == {s \in {now - 1, now, now + 1} : s > 0}

\* Mutant of Shown: a step that was spent is good while its time lasts.
ShownAgain(saw) == {<<"totp", s>> : s \in Moments} \cup {<<"recovery", c>> : c \in saw.codes}

Shown(saw) == {<<"totp", s>> : s \in {m \in Moments : m > saw.step}} \cup {<<"recovery", c>> : c \in saw.codes}

\* It is spent: the step is written, or the codes that were seen, less this one.
Spend(u, saw, code) ==
  IF code[1] = "totp" THEN [u EXCEPT !.step = code[2]] ELSE [u EXCEPT !.codes = saw.codes \ {code[2]}]

\* The code as it is remembered: no two secrets, and no two sets, have one in common.
Note(saw, code) ==
  IF code[1] = "totp" THEN <<"totp", saw.secret, code[2]>> ELSE <<"recovery", code[2][1], code[2][2]>>

\* Another request has written the second step since this one read it.
CodesRacedBy(saw) == saw.secret # user.secret \/ saw.step # user.step \/ saw.codes # user.codes

\* Tokens for a session: of the version that was read, by one step or by two. A pair whose
\* request committed first is late where sessions were ended meanwhile, and so is what it
\* is exchanged for.
Issued(session, version, parent, steps, late) ==
  {[no |-> Cardinality(tokens) + 1, session |-> IF session = None THEN Cardinality(tokens) + 1 ELSE session,
    version |-> version, parent |-> parent, row |-> "live", steps |-> steps, over |-> FALSE, late |-> late]}

RoomForTokens == Cardinality(tokens) < TokenBound

\* end_all_sessions: one more than was read, and every row is deleted.
Ended(ts) == {[t EXCEPT !.row = "none", !.over = TRUE] : t \in ts}

RacedBy(saw) == saw.version # user.version

Begin(r, what) ==
  /\ reqs[r] = Idle /\ asked < RequestBound
  /\ reqs' = [reqs EXCEPT ![r] = what]
  /\ asked' = asked + 1
  /\ UNCHANGED <<user, tokens, links, now, spent, raced>>

Saw(op) == [op |-> op, saw |-> user]
With(op, token, code) == [op |-> op, saw |-> user, token |-> token, code |-> code]

NoCode == <<"none", None>>

\* The request answers; or it has committed, and will issue tokens.
Finish(r) == reqs' = [reqs EXCEPT ![r] = Idle]
IssuesNext(r, version) ==
  reqs' = [reqs EXCEPT ![r] =
    [op |-> "issue", session |-> @.token.session, left |-> version, late |-> @.token.late,
     steps |-> IF @.op = "enable" THEN 2 ELSE @.token.steps,
     parent |-> IF @.op = "exchange" THEN @.token.no ELSE None]]

--------------------------------------------------------------------------------
\* login: where the second step is on the answer is a challenge for it, good for as long
\* as the version is; the two requests are one here, from the challenge's version on.
Login(r) == Begin(r, With("login", None, NoCode))

LoginCommits(r) ==
  /\ reqs[r].op = "login" /\ RoomForTokens
  /\ LET saw == reqs[r].saw
     IN \/ /\ ~saw.on
           /\ tokens' = tokens \cup Issued(None, saw.version, None, 1, FALSE)
           /\ Finish(r)
        \/ /\ saw.on
           /\ reqs' = [reqs EXCEPT ![r] = [op |-> "challenge", version |-> saw.version]]
           /\ UNCHANGED tokens
  /\ UNCHANGED <<user, links, now, spent, asked, raced>>

\* mfa_verify reads the row anew.
Second(r) ==
  /\ reqs[r].op = "challenge"
  /\ user.on /\ reqs[r].version = user.version
  /\ \E code \in Shown(user) : reqs' = [reqs EXCEPT ![r] = With("second", None, code)]
  /\ UNCHANGED <<user, tokens, links, now, spent, asked, raced>>

SecondCommits(r) ==
  /\ reqs[r].op = "second" /\ RoomForTokens
  /\ user' = Spend(user, reqs[r].saw, reqs[r].code)
  /\ spent' = spent \cup {Note(reqs[r].saw, reqs[r].code)}
  /\ raced' = raced \cup (IF CodesRacedBy(reqs[r].saw) THEN {"codes"} ELSE {})
  /\ tokens' = tokens \cup Issued(None, reqs[r].saw.version, None, 2, FALSE)
  /\ Finish(r)
  /\ UNCHANGED <<links, now, asked>>

\* refresh_token: the row and the version are looked at; one UPDATE, guarded, marks it
\* rotated; the pair comes after.
Exchange(r) == \E t \in tokens : Exchangeable(t) /\ Begin(r, With("exchange", t, NoCode))

\* Mutant of Takes: whoever was told that the row is live has it.
TakesSeen(t) == \E q \in tokens : q.no = t.no /\ q.row \in {"live", "rotated"}

Takes(t) == \E q \in tokens : q.no = t.no /\ q.row = "live"

ExchangeCommits(r) ==
  /\ reqs[r].op = "exchange"
  /\ LET t == reqs[r].token
     IN \/ /\ Takes(t)
           /\ tokens' = {IF q.no = t.no THEN [q EXCEPT !.row = "rotated"] ELSE q : q \in tokens}
           /\ IssuesNext(r, reqs[r].saw.version)
        \/ ~Takes(t) /\ Finish(r) /\ UNCHANGED tokens
  /\ UNCHANGED <<user, links, now, spent, asked, raced>>

Issue(r) ==
  /\ reqs[r].op = "issue" /\ RoomForTokens
  /\ tokens' = tokens \cup Issued(reqs[r].session, user.version, reqs[r].parent, reqs[r].steps,
                                 reqs[r].late \/ user.version # reqs[r].left)
  /\ Finish(r)
  /\ UNCHANGED <<user, links, now, spent, asked, raced>>

\* The grace for two exchanges of one token passes; from then on it is a replay.
GraceEnds ==
  /\ \E t \in tokens : t.row = "rotated" /\ tokens' = (tokens \ {t}) \cup {[t EXCEPT !.row = "old"]}
  /\ UNCHANGED <<user, links, reqs, now, spent, asked, raced>>

\* logout, and end_session: the rows of one token, or of one session, go.
Logout ==
  /\ \E t \in tokens : /\ t.row # "none"
                       /\ tokens' = (tokens \ {t}) \cup {[t EXCEPT !.row = "none"]}
  /\ UNCHANGED <<user, links, reqs, now, spent, asked, raced>>

EndSession ==
  /\ \E d, t \in tokens :
       /\ Current(d) /\ t.row # "none"
       /\ tokens' = {IF q.session = t.session THEN [q EXCEPT !.row = "none"] ELSE q : q \in tokens}
  /\ UNCHANGED <<user, links, reqs, now, spent, asked, raced>>

--------------------------------------------------------------------------------
\* What ends all sessions: being asked to, a replay, a new password, and the second step.
\* The operator ends them too, and takes the second step off.
Ends == {"end", "replay", "password", "reset", "enable", "operator"}

EndAll(r) == Begin(r, Saw("end"))

Replay(r) == \E t \in tokens : t.row = "old" /\ Begin(r, Saw("replay"))

Operator(r) == user.on /\ Begin(r, Saw("operator"))

ChangePassword(r) == \E t \in tokens : Current(t) /\ Begin(r, With("password", t, NoCode))

Reset(r) == \E l \in links : ~l.used /\ Begin(r, Saw("reset"))

Enable(r) ==
  \E t \in tokens, s \in Moments :
    Current(t) /\ ~user.on /\ user.secret # None /\ Begin(r, With("enable", t, <<"totp", s>>))

\* The columns each writes besides.
Written(r) ==
  LET saw == reqs[r].saw
      op == reqs[r].op
  IN CASE op \in {"end", "replay"} -> user
       [] op \in {"password", "reset"} -> [user EXCEPT !.password = @ + 1]
       [] op = "operator" -> [user EXCEPT !.secret = None, !.on = FALSE, !.step = None, !.codes = {}]
       [] op = "enable" -> [user EXCEPT !.on = TRUE, !.step = reqs[r].code[2], !.sets = @ + 1, !.codes = Codes(user.sets + 1)]

\* Mutant of Raised: the version stays, and the rows alone are deleted.
RaisedNot(saw) == saw.version

Raised(saw) == saw.version + 1

EndsCommit(r) ==
  /\ reqs[r].op \in Ends
  /\ user.version < ChangeBound /\ user.password < ChangeBound /\ user.sets < ChangeBound
  /\ LET saw == reqs[r].saw
         op == reqs[r].op
     IN /\ user' = [Written(r) EXCEPT !.version = Raised(saw)]
        /\ tokens' = Ended(tokens)
        /\ links' = IF op \in {"password", "reset"} THEN {[l EXCEPT !.used = TRUE] : l \in links} ELSE links
        /\ spent' = IF op = "enable" THEN spent \cup {Note(saw, reqs[r].code)} ELSE spent
        /\ raced' = raced \cup (IF RacedBy(saw) THEN {"version"} ELSE {})
                          \cup (IF op = "enable" /\ CodesRacedBy(saw) THEN {"codes"} ELSE {})
        /\ IF op \in {"password", "enable"} THEN IssuesNext(r, Raised(saw)) ELSE Finish(r)
  /\ UNCHANGED <<now, asked>>

\* A link is for the password there is.
RequestReset ==
  /\ Cardinality(links) < LinkBound
  /\ links' = links \cup {[no |-> Cardinality(links) + 1, used |-> FALSE, made |-> user.password]}
  /\ UNCHANGED <<user, tokens, reqs, now, spent, asked, raced>>

--------------------------------------------------------------------------------
\* The second step: a secret, pending until a code of it is shown; taken off, with a code;
\* and a fresh set of recovery codes, with one.
Setup(r) == \E t \in tokens : Current(t) /\ ~user.on /\ user.secrets < ChangeBound /\ Begin(r, Saw("setup"))

SetupCommits(r) ==
  /\ reqs[r].op = "setup"
  /\ user' = [user EXCEPT !.secret = user.secrets + 1, !.secrets = @ + 1]
  /\ Finish(r)
  /\ UNCHANGED <<tokens, links, now, spent, asked, raced>>

Change(r, op) ==
  \E t \in tokens, code \in Shown(user) : Current(t) /\ user.on /\ Begin(r, With(op, t, code))

Disable(r) == Change(r, "disable")
NewCodes(r) == Change(r, "codes")

ChangeCommits(r) ==
  /\ reqs[r].op \in {"disable", "codes"} /\ user.sets < ChangeBound
  /\ user' = IF reqs[r].op = "disable"
             THEN [user EXCEPT !.secret = None, !.on = FALSE, !.step = None, !.codes = {}]
             ELSE [Spend(user, reqs[r].saw, reqs[r].code) EXCEPT !.sets = @ + 1, !.codes = Codes(user.sets + 1)]
  /\ spent' = spent \cup {Note(reqs[r].saw, reqs[r].code)}
  /\ raced' = raced \cup (IF CodesRacedBy(reqs[r].saw) THEN {"codes"} ELSE {})
  /\ Finish(r)
  /\ UNCHANGED <<tokens, links, now, asked>>

\* A request that fails, or a client that gives up its challenge.
GivesUp(r) == reqs[r] # Idle /\ Finish(r) /\ UNCHANGED <<user, tokens, links, now, spent, asked, raced>>

Tick == now < TimeBound /\ now' = now + 1 /\ UNCHANGED <<user, tokens, links, reqs, spent, asked, raced>>

Next ==
  \/ \E r \in Requests :
       \/ Login(r) \/ LoginCommits(r) \/ Second(r) \/ SecondCommits(r)
       \/ Exchange(r) \/ ExchangeCommits(r) \/ Issue(r)
       \/ EndAll(r) \/ Replay(r) \/ Operator(r) \/ ChangePassword(r) \/ Reset(r) \/ Enable(r) \/ EndsCommit(r)
       \/ Setup(r) \/ SetupCommits(r) \/ Disable(r) \/ NewCodes(r) \/ ChangeCommits(r) \/ GivesUp(r)
  \/ GraceEnds \/ Logout \/ EndSession \/ RequestReset \/ Tick

Spec == Init /\ [][Next]_vars

--------------------------------------------------------------------------------
\* Once all sessions have been ended no token from before works again, nor is exchanged
\* ("Raising it ends every session at its next request", auth_security.py:15), unless two
\* requests that end them overlap.
EndedStaysEnded == \A t \in tokens : t.over => t.row = "none" /\ (Current(t) => "version" \in raced)

\* "Exactly one exchange wins, even when two arrive together" (routers/auth.py:298).
ExchangedOnce == \A t, q \in tokens : t.parent # None /\ t.parent = q.parent => t = q

\* While the second step is on, what works was had by it ("Sessions opened before enrolment
\* were not second-factor sessions", routers/auth.py:449), but for a pair that was being
\* issued meanwhile.
OnMeansTwoSteps ==
  user.on /\ "version" \notin raced => \A t \in tokens : Current(t) /\ ~t.late => t.steps = 2

SessionsEndForGood == EndedStaysEnded /\ ExchangedOnce /\ OnMeansTwoSteps

\* "A reset link issued earlier would otherwise undo this change" (routers/auth.py:521).
LinksDoNotUndo == \A l \in links : l.made < user.password => l.used

\* A code signs in once, and changes the second step once ("a code works once",
\* models/user.py:33), unless the second step is written by a request that overlaps one
\* that spends a code.
CodesWorkOnce ==
  \A r \in Requests :
    /\ reqs[r].op \in {"second", "disable", "codes"} /\ reqs'[r] = Idle
    /\ user' # user \/ tokens' # tokens
    /\ Note(reqs[r].saw, reqs[r].code) \in spent
    => CodesRacedBy(reqs[r].saw) \/ "codes" \in raced
=================================================================================

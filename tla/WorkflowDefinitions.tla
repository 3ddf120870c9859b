-------------------------- MODULE WorkflowDefinitions --------------------------
(***************************************************************************)
(* One workflow of a company: the working copy that people edit, the       *)
(* version in force that publishing makes of it, its being switched on and *)
(* off, and what a release does to it.                                     *)
(*                                                                         *)
(*   services/studio/workflows.py  create, update, publish, set_enabled,   *)
(*                                 check_definition, schedule_due          *)
(*   services/studio/releases.py   promote, for a workflow                 *)
(*                                                                         *)
(* A request reads the row, works out what it will hold and commits later; *)
(* of its columns it writes those that then differ from what it read.  Of  *)
(* the next run only that there is one matters.  What a run does with the  *)
(* version in force is in StudioAutomation and StudioWorkflows.            *)
(***************************************************************************)
EXTENDS Integers, FiniteSets

CONSTANTS
  Definitions,   \* definitions people save: trigger, steps, steps of the failure branch, what they name
  People,
  Requests,      \* requests at a time
  RequestBound   \* bound: requests made

None == "none"
NoDefinition == [trigger |-> None, steps |-> {}, onFailure |-> {}, names |-> None]

Actions == {"sync", "check_readiness", "start_validation", "assign_findings", "notify", "report", "webhook"}
FailureActions == {"notify", "report", "webhook"}

DefinitionsAssumption ==
  /\ RequestBound \in Nat
  /\ None \notin People /\ NoDefinition \notin Definitions

VARIABLES
  wf,         \* the row
  author,     \* who last saved its working copy
  published,  \* what was put in force, in the words of the request that did
  released,   \* whether a release was the last to touch what is in force
  present,    \* the streams, webhooks and people there are to name
  reqs,       \* requests that have read
  asked,      \* requests made
  raced       \* the kinds of two requests that overlapped

vars == <<wf, author, published, released, present, reqs, asked, raced>>

Names == {d.names : d \in Definitions}

\* check_definition: known steps, at least one, the failure branch only tells someone, and
\* what they name is there.
Accepts(d) ==
  /\ d.steps # {} /\ d.steps \subseteq Actions
  /\ d.onFailure \subseteq FailureActions
  /\ d.names \in present

Scheduled(d) == d.trigger = "schedule"

--------------------------------------------------------------------------------
\* What a request makes of the row it read.

\* Mutant of Edited: the edit does not say whose it is.
EditedBySomebody(saw, who, d) == [saw EXCEPT !.def = d, !.changes = TRUE]

Edited(saw, who, d) == [saw EXCEPT !.def = d, !.changes = TRUE, !.by = who]

Published(saw, who) ==
  [saw EXCEPT !.act = saw.def, !.version = @ + 1, !.changes = FALSE, !.status = "active", !.pubBy = who,
              !.due = Scheduled(saw.def)]

Switched(saw, on) ==
  [saw EXCEPT !.status = IF on THEN "active" ELSE "disabled", !.due = on /\ Scheduled(saw.act)]

\* promote: as a version of its own; a rollback also gives it the state it had.
Promoted(saw, who, d, status) ==
  [saw EXCEPT !.def = d, !.act = d, !.version = @ + 1, !.changes = FALSE, !.by = who, !.pubBy = who,
              !.status = status]

\* create; and promote, where the company has no workflow of that name.
Drafted(who, d) ==
  [status |-> "draft", def |-> d, act |-> NoDefinition, version |-> 0, changes |-> TRUE, by |-> who, pubBy |-> None,
   due |-> FALSE]
Arrived(who, d) ==
  [status |-> "disabled", def |-> d, act |-> d, version |-> 1, changes |-> FALSE, by |-> who, pubBy |-> who,
   due |-> FALSE]

Idle == [op |-> "idle"]

Init ==
  /\ present = Names
  /\ \E who \in People, d \in {e \in Definitions : Accepts(e)} :
       /\ author = who
       /\ \/ wf = Drafted(who, d) /\ published = {} /\ released = FALSE
          \/ /\ wf = Arrived(who, d) /\ released = TRUE
             /\ published = {[op |-> "release", version |-> 1, def |-> d, author |-> who, pub |-> who, alone |-> FALSE,
                              was |-> [act |-> NoDefinition, status |-> "draft"]]}
  /\ reqs = [r \in Requests |-> Idle]
  /\ asked = 0
  /\ raced = {}

--------------------------------------------------------------------------------
\* Requests read.

Begins(r, op, who, new, alone) ==
  /\ reqs[r] = Idle /\ asked < RequestBound
  /\ reqs' = [reqs EXCEPT ![r] = [op |-> op, who |-> who, saw |-> wf, new |-> new, author |-> author,
                                  alone |-> alone, over |-> {}]]
  /\ asked' = asked + 1
  /\ UNCHANGED <<wf, author, published, released, present, raced>>

Edit(r, who) ==
  \E d \in {e \in Definitions : Accepts(e)} : Begins(r, "edit", who, Edited(wf, who, d), FALSE)

\* `alone`: the organization asks for an approver other than the one who prepared it.
Publish(r, who, alone) ==
  /\ alone => wf.by # who
  /\ Accepts(wf.def)
  /\ Begins(r, "publish", who, Published(wf, who), alone)

Switch(r, who, on) ==
  /\ on => wf.act # NoDefinition
  /\ Begins(r, "switch", who, Switched(wf, on), FALSE)

\* What another company has in force, unless it is the same here.
Promote(r, who) ==
  \E d \in {e \in Definitions : Accepts(e)} :
    d # wf.act /\ Begins(r, "release", who, Promoted(wf, who, d, wf.status), FALSE)

\* The rollback of a release: what was in force before it, as it stood.
Back(r, who) ==
  \E p \in published :
    /\ p.op = "release" /\ p.was.act \notin {NoDefinition, wf.act} /\ Accepts(p.was.act)
    /\ Begins(r, "release", who, Promoted(wf, who, p.was.act, p.was.status), FALSE)

\* The rollback of a release before which nothing was in force.
Withdraw(r, who) ==
  /\ \E p \in published : p.op = "release" /\ p.was.act = NoDefinition
  /\ Begins(r, "switch", who, [wf EXCEPT !.status = "disabled"], FALSE)

--------------------------------------------------------------------------------
\* A request commits the columns it changed.

Commit(r) ==
  LET q == reqs[r] IN
  /\ q # Idle
  /\ wf' = [c \in DOMAIN wf |-> IF q.new[c] # q.saw[c] THEN q.new[c] ELSE wf[c]]
  /\ author' = IF q.op \in {"edit", "release"} THEN q.who ELSE author
  /\ published' = IF q.op \in {"publish", "release"}
                    THEN published \cup {[op |-> q.op, version |-> q.new.version, def |-> q.new.act,
                                          author |-> q.author, pub |-> q.who, alone |-> q.alone,
                                          was |-> [act |-> q.saw.act, status |-> q.saw.status]]}
                    ELSE published
  /\ released' = CASE q.op = "release" -> TRUE
                   [] q.op = "edit" -> released
                   [] OTHER -> FALSE
  /\ raced' = raced \cup {{q.op, o} : o \in q.over}
  /\ reqs' = [p \in Requests |-> CASE p = r -> Idle
                                   [] p # r /\ reqs[p] # Idle -> [reqs[p] EXCEPT !.over = @ \cup {q.op}]
                                   [] OTHER -> reqs[p]]
  /\ UNCHANGED <<present, asked>>

\* The worker's turn: a run starts and the next one is due, by what is in force. It holds
\* the row's lock from its reading to its commit.
ScheduleDue ==
  /\ wf.status = "active" /\ wf.due
  /\ wf' = [wf EXCEPT !.due = Scheduled(wf.act)]
  /\ reqs' = IF Scheduled(wf.act) THEN reqs
             ELSE [r \in Requests |-> IF reqs[r] = Idle THEN Idle ELSE [reqs[r] EXCEPT !.over = @ \cup {"turn"}]]
  /\ UNCHANGED <<author, published, released, present, asked, raced>>

\* A stream, a webhook or a person is gone.
Goes(x) ==
  /\ x \in present
  /\ present' = present \ {x}
  /\ UNCHANGED <<wf, author, published, released, reqs, asked, raced>>

Next ==
  \/ \E r \in Requests :
       \/ Commit(r)
       \/ \E who \in People :
            \/ Edit(r, who) \/ Promote(r, who) \/ Back(r, who) \/ Withdraw(r, who)
            \/ \E b \in BOOLEAN : Publish(r, who, b) \/ Switch(r, who, b)
  \/ ScheduleDue
  \/ \E x \in present : Goes(x)

Spec == Init /\ [][Next]_vars

--------------------------------------------------------------------------------
TypeOK ==
  /\ wf.status \in {"draft", "active", "disabled"} /\ wf.def \in Definitions
  /\ wf.act \in Definitions \cup {NoDefinition} /\ wf.version \in Nat
  /\ {wf.changes, wf.due, released} \subseteq BOOLEAN
  /\ author \in People /\ present \subseteq Names /\ asked \in 0..RequestBound

\* No two requests of these kinds overlapped.
Apart(kinds) == \A pair \in raced : ~(pair \subseteq kinds)

Puts == {"publish", "release"}

\* What is in force was put there under that number by the person automatic runs act as
\* (workflows._publisher), and a number is given once ("Promotion only adds",
\* releases.py:22), while no two publications overlap.
InForceIsOnePublication ==
  Apart(Puts) =>
    /\ wf.act # NoDefinition => \E p \in published : p.version = wf.version /\ p.def = wf.act /\ p.pub = wf.pubBy
    /\ \A p, q \in published : p.version = q.version => p = q

\* Where the organization asks for independence, what a publication puts in force was not
\* last saved by the publisher (approvals.require_independent), while edits do not overlap.
PublishedByAnother ==
  Apart({"edit", "release"}) =>
    \A p \in published : p.op = "publish" /\ p.alone => p.author # p.pub

\* A working copy that differs from what is in force says so (models/studio.py:520), while
\* nothing that writes either overlaps.
ChangesAreKnown ==
  Apart({"edit", "publish", "release"}) => wf.changes \/ wf.def = wf.act

\* A workflow in force on a schedule has a next run ("On a schedule, in a named time zone",
\* workflows.py:57).
ScheduleComesDue == wf.status = "active" /\ Scheduled(wf.act) => wf.due

\* It does, and one that is not on a schedule has none, unless a release put in force what
\* is, or requests overlap.
DueAsPublished == ~released /\ raced = {} /\ wf.status = "active" => wf.due = Scheduled(wf.act)
================================================================================

-------------------------------- MODULE MCAccess --------------------------------
(***************************************************************************)
(* Who gets at a company's data and puts what in force there: one person's *)
(* sign-ins, the seats of an organization, how a seat is offered, what     *)
(* support staff may open, what a new release does with the users it       *)
(* finds, the workflows people publish, and the keys of a service account. *)
(* They share no state: a behaviour of this module is a behaviour of one   *)
(* of them, `part`, while the others stand still.                          *)
(***************************************************************************)
EXTENDS Membership, TLC

CONSTANTS
  SignInBound, PairBound, UserBound, LinkBound, StepBound,   \* Sessions
  TokenBound, InviteBound,    \* Invitations
  GrantBound,                 \* SupportAccess
  Definitions, EditBound,     \* WorkflowDefinitions
  Scopes, Lives, Graces, KeyBound, AskBound, TimeBound, MoveBound,    \* StudioKeys
  Processes, OldOwners, Others, Late, BootBound, OldRowBound    \* Migrations

\* The part of a behaviour, and places for the variables of all parts but the membership,
\* whose own names Membership declares: each part names what it keeps in them.
VARIABLES part, p1, p2, p3, p4, p5, p6, p7, p8, p9, p10, p11

AllAlike == Permutations(Requests) \cup Permutations(People) \cup Permutations(Processes)

U == INSTANCE Sessions WITH
  RequestBound <- SignInBound, TokenBound <- PairBound, ChangeBound <- UserBound, TimeBound <- StepBound,
  user <- p1, tokens <- p2, links <- p3, reqs <- p4, now <- p5, spent <- p6, asked <- p7, raced <- p8

V == INSTANCE Invitations WITH
  inv <- p1, seat <- p2, drawn <- p3, rq <- p4

S == INSTANCE SupportAccess WITH
  policy <- p1, grant <- p2, rq <- p3, raced <- p4, closed <- p5

G == INSTANCE Migrations WITH
  Owners <- OldOwners, CrashBound <- BootBound, WriteBound <- OldRowBound,
  dialect <- p1, schema <- p2, users <- p3, orgs <- p4, rows <- p5, config <- p6, boot <- p7, crashes <- p8

\* Definitions to save: one that can be published, one on a schedule, and one with a step there is not.
Definition(trigger, steps, onFailure, names) ==
  [trigger |-> trigger, steps |-> steps, onFailure |-> onFailure, names |-> names]
SavedDefinitions ==
  {Definition("import.completed", {"notify"}, {}, "hook"),
   Definition("schedule", {"sync"}, {"notify"}, "stream"),
   Definition("manual", {"sign_off"}, {}, "hook")}

W == INSTANCE WorkflowDefinitions WITH
  RequestBound <- EditBound,
  wf <- p1, author <- p2, published <- p3, released <- p4, present <- p5, reqs <- p6, asked <- p7, raced <- p8

K == INSTANCE StudioKeys WITH
  ChangeBound <- MoveBound,
  company <- p1, account <- p2, key <- p3, rq <- p4, call <- p5, now <- p6, asked <- p7, changes <- p8,
  backed <- p9, raced <- p10, doubled <- p11

ASSUME AccessAssumption ==
  /\ U!SessionsAssumption /\ V!InvitationAssumption /\ S!SupportAssumption /\ G!MigrationAssumption
  /\ W!DefinitionsAssumption /\ K!KeysAssumption

membership == <<seat, override, active, archived, data, rq, changes, raced>>
more == <<p9, p10, p11>>
places == <<p1, p2, p3, p4, p5, p6, p7, p8, more>>

allVars == <<part, membership, places>>

AccessInit ==
  /\ Init
  /\ \/ /\ p9 = 0 /\ p10 = 0 /\ p11 = 0
        /\ \/ part = "membership" /\ p1 = 0 /\ p2 = 0 /\ p3 = 0 /\ p4 = 0 /\ p5 = 0 /\ p6 = 0 /\ p7 = 0 /\ p8 = 0
           \/ part = "sessions" /\ U!Init
           \/ part = "invitations" /\ V!Init /\ p5 = 0 /\ p6 = 0 /\ p7 = 0 /\ p8 = 0
           \/ part = "support" /\ S!Init /\ p6 = 0 /\ p7 = 0 /\ p8 = 0
           \/ part = "migrations" /\ G!Init
           \/ part = "definitions" /\ W!Init
     \/ part = "keys" /\ K!Init

AccessNext ==
  /\ UNCHANGED part
  /\ \/ part = "membership" /\ Next /\ UNCHANGED places
     \/ /\ UNCHANGED <<membership, more>>
        /\ \/ part = "sessions" /\ U!Next
           \/ part = "invitations" /\ V!Next /\ UNCHANGED <<p5, p6, p7, p8>>
           \/ part = "support" /\ S!Next /\ UNCHANGED <<p6, p7, p8>>
           \/ part = "migrations" /\ G!Next
           \/ part = "definitions" /\ W!Next
     \/ part = "keys" /\ K!Next /\ UNCHANGED membership

AccessSpec == AccessInit /\ [][AccessNext]_allVars

--------------------------------------------------------------------------------
\* What each part says of itself; its module states it in full. The properties of
\* Membership are asked by their own names.

\* What ended all sessions ended them, a token and a code are each good once, and a reset
\* link does not outlast the password it was for (auth_security.py:15, models/user.py:33,
\* routers/auth.py:521).  An API key that ended does not come back, and works only in its
\* own environment (credentials.py:18, integration/deps.py:89).
SessionsEndForGood ==
  [](part = "sessions" => U!SessionsEndForGood /\ U!LinksDoNotUndo)
    /\ [][part = "sessions" => U!CodesWorkOnce]_allVars
    /\ [][part = "keys" => K!EndedKeysStayEnded /\ K!CallsStayInTheirEnvironment]_allVars

\* No earlier invitation outlives the one that supersedes it (invitations.create), no
\* support session what closed it (support_access.set_policy), and no service account is
\* wider than who made it what it is, or key followed by two (credentials.py:11).
ClosedStaysClosed ==
  /\ part = "invitations" => V!LaterSupersedesEarlier
  /\ part = "support" => S!OffMeansOff
  /\ part = "keys" => K!NeverWiderThanItsMaker /\ K!OneSuccessor

\* What is in force is what one person published, another prepared where that is asked for,
\* and comes due as it says (models/studio.py:497, workflows.publish).
FlowsAreAsPublished ==
  part = "definitions" =>
    W!InForceIsOnePublication /\ W!PublishedByAnother /\ W!ChangesAreKnown /\ W!DueAsPublished

\* However the boots of a new release interleave and break off, the database reaches its
\* shape and what was in it stays its author's (migrations.py:12, migrations.py:151).
UpgradesLoseNothing ==
  [](part = "migrations" => G!ReachesTheShape /\ G!NobodyLosesAccess)
    /\ [][part = "migrations" => G!SafeOnEachBoot]_allVars
================================================================================

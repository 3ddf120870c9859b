\* Two requests at a time, two people, owners and managers of two companies; three invitations and as many tokens; two grants
\* of support; three definitions and requests about the workflow; three keys, one of which follows another, and four requests
\* about them; two processes of a release, a user from before there were companies, one who is gone and one who signs up with
\* the older release, one of which may die while that release writes a row; five requests of one person's sign-ins, two at a
\* time, with a pair of tokens, the one for it and one besides.
CONSTANTS
  Requests = {r1, r2}
  People = {a, b}
  Roles = {0, 1}
  Companies = {1, 2}
  ChangeBound = 4
  SignInBound = 5
  PairBound = 3
  UserBound = 2
  LinkBound = 1
  StepBound = 2
  TokenBound = 3
  InviteBound = 3
  GrantBound = 2
  Definitions <- SavedDefinitions
  EditBound = 3
  Scopes = {"data:write"}
  Lives = {1}
  Graces = {0, 1}
  KeyBound = 3
  AskBound = 4
  TimeBound = 1
  MoveBound = 1
  Processes = {p1, p2}
  OldOwners = {u1}
  Others = {gone}
  Late = {u2}
  BootBound = 1
  OldRowBound = 1
SYMMETRY AllAlike
SPECIFICATION AccessSpec
INVARIANTS
  AlwaysAnOwner
  ClosedStaysClosed
  FlowsAreAsPublished
PROPERTIES
  SessionsEndForGood
  DefaultsStay
  UpgradesLoseNothing
CHECK_DEADLOCK FALSE

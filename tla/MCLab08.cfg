\* Part 2: three clients for two slots; with three descriptors one client is
\* lost, with two the third accept() fails.  Part 1: two servers for one name
\* and one client more than the backlog, or a descriptor table of one, holds.
CONSTANTS
  Clients = {c1, c2, c3}
  None = None
  Nobody = Nobody
  MAX_COUNT_SOCK = 2
  Backlog = 2
  MaxOpens = {2, 3}
  Servers = {s1, s2}
  Peers = {p1, p2}
  Waiting = 1
  Limits = {1, 2}
SPECIFICATION Lab08Spec
INVARIANTS
  RecvNeverBlocks
  OneSlotEach
  AnswersMatchRequests
  PrintsOwnText
  DiesOnlyOfResetOrFullTable
  NameFollowsServer
PROPERTIES
  ClientsAreServed
CHECK_DEADLOCK FALSE

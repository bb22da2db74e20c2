SPECIFICATION GroupsSpec
CONSTANTS
  None = None
  g1 = g1
  Conns = {c1, c2}
  Clients = {k1, k2}
  Groups = {g1, g2}
  Default = g1
  Calls = {p1, p2}
  Nil = Nil
  Home = Home
  GroupIDs = {c1, c2}
  Spots = {k1, k2}
  Threads = {p1, p2}
  Opens = 3
  Acts = 4
  RememberPosition = TRUE
  AutoShowHome = TRUE
SYMMETRY Interchangeable
INVARIANTS
  RegisteredIsOpen
  InstalledIsRegistered
  StatusFollowsClient
  ConnectedIsGrouped
  ReferencesAreTrue
  HomeComesBack
  FinalIsSaved
CHECK_DEADLOCK FALSE

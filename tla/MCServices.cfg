SPECIFICATION ServicesSpec
CONSTANTS
  None = None
  theServer = theServer
  Conns = {c1}
  Keys = {theServer}
  KeyOf <- OneServer
  Slots = {k1, k2}
  MaxRounds = 1
  MaxCalls = 2
  Budget = 3
  SystemRole = FALSE
  MaxSends = 2
  MaxCancels = 1
  MaxClears = 0
  Rules = {r1, r2}
  Remote = {r2}
  Ports = {q1}
  Runs = {k1, k2}
  Calls = {p1, p2}
SYMMETRY Interchangeable
CONSTRAINT OneRaced
INVARIANTS
  CancelReachesWaiter
  PairedAlone
  OpenIsOwned
  RunningListens
  ClosedAreDropped
CHECK_DEADLOCK FALSE

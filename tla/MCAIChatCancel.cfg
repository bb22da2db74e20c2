SPECIFICATION TurnsSpec
CONSTANTS
  c1 = c1
  c2 = c2
  k1 = k1
  s1 = s1
  s2 = s2
  Conns = {c1}
  Keys = {k1}
  KeyOf <- OneServer
  Slots = {s1, s2}
  MaxRounds = 2
  MaxCalls = 1
  Budget = 99
  SystemRole = TRUE
  MaxSends = 1
  MaxCancels = 1
  MaxClears = 0
PROPERTY CancelledTurnStops
CHECK_DEADLOCK FALSE

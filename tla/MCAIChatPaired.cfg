SPECIFICATION TurnsSpec
CONSTANTS
  c1 = c1
  c2 = c2
  k1 = k1
  s1 = s1
  s2 = s2
  Conns = {c1, c2}
  Keys = {k1}
  KeyOf <- OneServer
  Slots = {s1, s2}
  MaxRounds = 2
  MaxCalls = 1
  Budget = 8
  SystemRole = TRUE
  MaxSends = 1
  MaxCancels = 0
  MaxClears = 0
INVARIANT RequestsPaired
CHECK_DEADLOCK FALSE

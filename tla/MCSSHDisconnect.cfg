SPECIFICATION FairSpec
CONSTANTS
  None = None
  c1 = c1
  c2 = c2
  k1 = k1
  k2 = k2
  g1 = g1
  g2 = g2
  p1 = p1
  p2 = p2
  Conns = {c1}
  Clients = {k1, k2}
  Groups = {g1, g2}
  Default = g1
  Calls = {p1, p2}
PROPERTY DisconnectReturns
CHECK_DEADLOCK FALSE

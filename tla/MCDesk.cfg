SPECIFICATION DeskSpec
CONSTANTS
  None = None
  Missing = Missing
  c1 = c1
  c2 = c2
  e1 = e1
  e2 = e2
  t1 = t1
  a = a
  b = b
  k1 = k1
  k2 = k2
  i1 = i1
  i2 = i2
  h1 = h1
  u1 = u1
  f1 = f1
  f2 = f2
  Conns = {c1, c2}
  Tools = {t1}
  Errands = {e1, e2}
  Acts = 2
  Items = {a, b}
  Calls = {k1, k2}
  Moves = 2
  Ids = {i1, i2}
  Hosts = {h1}
  Users = {u1}
  Flows = {f1, f2}
  Touches = 2
INVARIANTS
  PanelsFollowTab
  DetailsOfSelection
  BusyIsAnswered
PROPERTIES
  ToolsAnswered
  TabsCatchUp
  PolledCatchesUp
  HomeCatchesUp
CHECK_DEADLOCK FALSE

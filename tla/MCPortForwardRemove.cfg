SPECIFICATION PFSpec
CONSTANTS
  None = None
  r1 = r1
  r2 = r2
  q1 = q1
  k1 = k1
  k2 = k2
  p1 = p1
  p2 = p2
  Rules = {r1}
  Remote = {}
  Ports = {q1}
  Runs = {k1}
  Calls = {p1, p2}
INVARIANT RemovedIsClosed
CHECK_DEADLOCK FALSE

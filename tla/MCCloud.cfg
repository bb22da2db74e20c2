SPECIFICATION MCCloudSpec
CONSTANTS
  None = None
  Hosts = {h1}
  c1 = c1
  c2 = c2
  l1 = l1
  l2 = l2
  Calls = {c1, c2}
  Loops = {l1, l2}
  Sockets = 2
  Acts = 3
INVARIANTS
  AnswersAreOwn
  SocketsAreOwned
  EncryptedOnce
PROPERTY OnlineCatchesUp
CHECK_DEADLOCK FALSE

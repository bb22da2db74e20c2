SPECIFICATION WindowSpec
CONSTANTS
  None = None
  Missing = Missing
  Conns = {c1, c2}
  Folders <- MCFolders
  Plain <- MCPlain
  Binary <- MCBinary
  Jobs = {j1, j2}
  Clicks = 2
  Words = {"f"}
  Blocks = 2
  Runs = 2
  Taps = 3
  Offered = 2
  Strokes = 4
  ToolCalls = {t1}
  Presses = 3
  Pending = 3
  Ids = {i1, i2, i3}
  Hosts = {h1}
  Users = {u1, u2}
SYMMETRY Interchangeable
INVARIANTS
  ListingOfCwd
  SpinnersWait
  ResultsOfSearch
  DialogsOfTab
  ReadyIsMounted
  CursorsInBounds
  RowsOfRun
  CardsOfTab
  BusyWaits
PROPERTIES
  EndedBlocksKept
  LogForward
  KeepsRecords
CHECK_DEADLOCK FALSE

SPECIFICATION FairSystemSpec
CONSTANTS
  Name <- MCName
  Disks <- MCDisks
  PathVectors <- None
  ClientLines <- MCLines
  Nums <- None
  Positions <- None
  TicksPerSecond = 2
  MaxDepth = 2
  Clients = {c1, c2}
  Patient = FALSE
  MaxCalls = 3
  MaxStarts = 2
  MaxWire = 1
CHECK_DEADLOCK FALSE
INVARIANTS SystemTypeOK ViewsArrive
PROPERTY ListsConverge

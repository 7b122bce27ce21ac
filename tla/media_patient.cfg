SPECIFICATION SystemSpec
CONSTANTS
  Name <- MCName
  Disks <- MCDisks
  PathVectors <- None
  ClientLines <- MCLines
  Nums <- None
  Positions <- Ticks
  TicksPerSecond = 2
  MaxDepth = 3
  Clients = {c1}
  Patient = TRUE
  MaxCalls = 5
  MaxStarts = 3
  MaxWire = 2
CHECK_DEADLOCK FALSE
INVARIANT PositionsArrive
PROPERTY TappedTitleIsPlayed

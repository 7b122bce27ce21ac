SPECIFICATION FairSpec
CONSTANTS
  Name <- MCName
  Disks <- MCDisks
  PathVectors <- NoPaths
  ClientLines <- TitleLines
  Nums <- OneStep
  Positions <- Ticks
  TicksPerSecond = 2
  MaxDepth = 0
  RootFolder <- TheRoot
INVARIANT TrackIsPlayed
PROPERTIES PlaylistSpec OrderKept EveryTitlePlays

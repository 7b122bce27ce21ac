SPECIFICATION Spec
CONSTANTS
  Name <- MCName
  Disks <- AllDisks
  PathVectors <- Paths
  ClientLines <- ShownLines
  Nums <- Steps
  Positions <- Ticks
  TicksPerSecond = 2
  MaxDepth = 2
INVARIANTS TypeOK LocationCoherent IdNamesOneLine StoppedIffNothingOpened EngineFollowsState
PROPERTIES BrowsingKeepsMusic TitleChangeAnnounced PauseHoldsTitle

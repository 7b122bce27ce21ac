SPECIFICATION Spec
CONSTANTS
  Name <- MCName
  Disks <- EmptyAlbumOnly
  PathVectors <- NoPaths
  ClientLines <- AlbumLine
  Nums <- NoSteps
  Positions <- Ticks
  TicksPerSecond = 2
  MaxDepth = 2
PROPERTY TitleEndSurvived

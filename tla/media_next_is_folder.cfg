SPECIFICATION Spec
CONSTANTS
  Name <- MCName
  Disks <- TwoDiscsOnly
  PathVectors <- NoPaths
  ClientLines <- AlbumLine
  Nums <- OneStep
  Positions <- Ticks
  TicksPerSecond = 2
  MaxDepth = 2
PROPERTY NextIsAFile

SPECIFICATION LibrariesSpec
CONSTANTS
  Node <- MCNode
  Root = "music"
  Kind <- MCKind
  Children <- MCChildren
  Height <- MCHeight
  PathLength <- MCPathLength
  EndingsOf <- MCEndingsOf
  EndingLength <- MCEndingLength
  FilterLists <- MediaFilters
  Levels <- AllLevels
  MaxLists = 1
  MaxLosses = 3
  Threads <- MCThreads
  Capacity = 5
  MaxSignals = 5
  Objects <- MCObjects
  Surfaces <- MCSurfaces
  Valid <- ImageSurfaces
  SizeOf <- MCSizeOf
  Sizes <- MCSizes
  NoSurface = "no surface"
INVARIANTS LibrariesTypeOK ListIsExpected SurfacesCounted FillFollows
PROPERTIES WalkEnds KeepsPromise
CHECK_DEADLOCK FALSE

SPECIFICATION FairSpec
CONSTANTS
  Buttons <- SomeButtons
  Axes <- AxisX
  Deflections <- HalfPositions
  Garbage <- AnyMemory
  Unset <- AnyName
  AxisEvent <- AxisEvents
  QueueSize = 3
CHECK_DEADLOCK FALSE
INVARIANTS TypeOK ToldIsTrue
PROPERTY ToldInTheEnd

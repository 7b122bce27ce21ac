SPECIFICATION FairSpec
CONSTANTS
  Coord <- TwoPlaces
  Default <- Here
  Garbage <- NoFixInMemory
  GpsdPort = 2947
  PortOptions <- AllPorts
  Pans <- SomePans
  ClientZooms <- TopZooms
  PanLimit = 2
  MaxQueue = 1
INVARIANTS TypeOK PositionWasFixed ZoomAgrees CursorNearMap
PROPERTY MapSettles

SPECIFICATION Spec
CONSTANTS
  Coord <- TwoPlaces
  Default <- Here
  Garbage <- NoFixInMemory
  GpsdPort = 2948
  PortOptions <- OddPort
  Pans <- SomePans
  ClientZooms <- TopZooms
  PanLimit = 2
  MaxQueue = 2
INVARIANT GpsdPortRespected

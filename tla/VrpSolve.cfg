SPECIFICATION Spec
CONSTANTS
  Files <- AllFiles
  Dimension <- ThreeNodes
  FleetSizes <- Fleets
  ID_NONE <- Nobody
  NumNodes <- ThreeNodes
  RequestLists <- Lists
  VehicleEnds <- FleetEnds
  MaxCapacity = 1
  MaxVehicles = 2
INVARIANTS
  SubmodelSound
  DispatchOrderFree
  SenderWindowsExact
  FileFaithful
CHECK_DEADLOCK FALSE

SPECIFICATION Spec
CONSTANTS
  N = 3
  Capacity = 4
  NumVehicles = 2
  Demand <- MCDemand
  Duration <- MCDuration
  Service <- MCService
  SIZE_NONE = 23
  Dist <- MCDist
  GTours <- MCGTours
  TimeWindows <- MCTimeWindows
  Junk <- MCJunk
  DOUBLE_MAX = 1000
INVARIANTS
  DistanceRecorded
CHECK_DEADLOCK FALSE

SPECIFICATION Spec
CONSTANTS
  N = 4
  Capacity = 4
  NumVehicles = 2
  Demand <- MCDemand
  Duration <- MCDuration
  Service <- MCService
  SIZE_NONE = 23
  Dist <- MCDist
  Models <- MCSomeUnlimited
  FirstLambda = 4
  LastLambda = 5
INVARIANTS
  SolutionsFeasible
CHECK_DEADLOCK FALSE

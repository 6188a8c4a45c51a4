SPECIFICATION FairSpec
CONSTANTS
  N = 4
  Capacity = 4
  NumVehicles = 2
  Demand <- MCDemand
  Duration <- MCDuration
  Service <- MCService
  SIZE_NONE = 23
  Dist <- MCDist
  Models <- MCModels
  FirstLambda = 4
  LastLambda = 5
INVARIANTS
  MetaExact
  MergingMaximal
  NeverAborts
  ToursOfCustomers
PROPERTIES
  ImplementsMerging
  Termination
CHECK_DEADLOCK FALSE

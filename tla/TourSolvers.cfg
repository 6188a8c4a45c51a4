SPECIFICATION FairSpec
CONSTANTS
  Nodes <- MCNodes
  Dist <- MCDist
  Angle <- MCAngle
  SIZE_NONE = 15
  MaxGenomes = 2
  RequestLists <- MCRequestLists
  Fleet <- MCFleet
  SMALL_NUM_NODES = 3
  NumsOfNodes <- MCNumsOfNodes
  MaxSolves = 2
INVARIANTS
  
  ToursSound
  SavingsAddUp
  LocalOptimum
  
PROPERTIES
  Termination
CHECK_DEADLOCK FALSE

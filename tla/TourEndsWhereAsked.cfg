SPECIFICATION Spec
CONSTANTS
  Nodes <- MCNodes
  Dist <- MCDist
  Angle <- MCAngle
  SIZE_NONE = 15
  MaxGenomes = 2
  RequestLists <- MCVisits
  Fleet <- MCRoundTrip
  SMALL_NUM_NODES = 3
  NumsOfNodes <- MCNumsOfNodes
  MaxSolves = 2
INVARIANT EndsWhereAsked
CHECK_DEADLOCK FALSE

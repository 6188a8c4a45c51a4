SPECIFICATION SolverSpec
CONSTANTS
  Nodes <- MCNodes
  Dist <- MCDist
  Depot = 0
  Demand <- MCDemand
  Capacity = 3
  Starts <- MCStarts
  Angle <- MCAngle
  MaxGenomes = 2
INVARIANTS
  GenomesInStep
  ResultKeepsBest
CHECK_DEADLOCK FALSE

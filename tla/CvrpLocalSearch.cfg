SPECIFICATION FairSpec
CONSTANTS
  Nodes <- MCNodes
  Dist <- MCDist
  Depot = 0
  Demand <- MCDemand
  Capacity <- MCCapacity
  Starts <- MCStarts
INVARIANTS
  SolutionSound
  LedgerExact
  LocalOptimum
PROPERTIES
  Termination
CHECK_DEADLOCK FALSE

SPECIFICATION FairSpec
CONSTANTS
  N = 4
  Nodes <- MCNodes
  Capacity = 5
  Demand <- MCDemand
  Dist <- MCDist
  GTours <- MCGTours
  Junk <- MCJunk
  SIZE_NONE = SIZE_NONE
  DOUBLE_MAX = 1000
INVARIANTS
  RowsSettled
  SplitOptimal
PROPERTIES
  Termination
CHECK_DEADLOCK FALSE

SPECIFICATION FairSpec
CONSTANTS
  N = 4
  Capacity = 5
  Demand <- MCDemand4
  Dist <- MCTiedDist
  FirstLambda = 4
  LastLambda = 5
INVARIANTS
  TypeOK
  Acyclic
  ChainInv
  EndDemandsExact
  MaximalMerging
  SolutionServesAll
PROPERTIES
  ImplementsMerging
  Termination
CHECK_DEADLOCK FALSE

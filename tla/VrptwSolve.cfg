SPECIFICATION SolveSpec
CONSTANTS
  N = 3
  Capacity = 4
  NumVehicles = 2
  Demand <- MCDemand
  Duration <- MCDuration
  Service <- MCService
  SIZE_NONE = 23
  Dist <- MCDist
  GTours <- MCTemplates
  TimeWindows <- MCTimeWindows
  Junk <- MCJunk
  DOUBLE_MAX = 1000
INVARIANTS
  LabelsExact
  AbortsOnlyOnLateReturn
  OutcomeSound
CHECK_DEADLOCK FALSE

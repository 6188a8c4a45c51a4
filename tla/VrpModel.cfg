SPECIFICATION Spec
CONSTANTS
  NodeExtIds = {n1, n2}
  RequestExtIds = {q1, q2, q3}
  Times <- MCTimes
  MaxEntries = 5
  ID_NONE = ID_NONE
INVARIANTS
  TypeOK
  IndexExact
  WindowsDisjoint
PROPERTIES
  WindowsOnlyAdded
SYMMETRY MCSymmetry
CHECK_DEADLOCK FALSE

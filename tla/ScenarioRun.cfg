SPECIFICATION Spec
CONSTANTS
  u1 = u1
  u2 = u2
  u3 = u3
  None = None
  Nodes = 2
  User <- MCUser
  NodeOf <- MCNodeOf
  Configs <- MCConfigs
CHECK_DEADLOCK FALSE
INVARIANTS
  RowsAreSpentOnce
  ChargesAddUp
  OneIterationPerTurn
  ShortfallIsExplained
  CapacityIsEnough
  NobodyIsLeftBehind
PROPERTIES
  StopEndsTheRun

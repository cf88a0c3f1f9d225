SPECIFICATION Spec
CONSTANTS
  s1 = s1
  s2 = s2
  Slot = {s1, s2}
  Configs <- MCConfigs
  MaxPushed = 1
CHECK_DEADLOCK FALSE
INVARIANTS
  
  RttIsOfItsMessage
PROPERTIES
  StopEndsTheRun

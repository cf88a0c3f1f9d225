SPECIFICATION Spec
CONSTANTS
  Worker <- MCWorker
  Plans <- MCPlans
  LatencyOf <- MCLatencyOf
  Capacity = 4
  MaxTypes = 2
  MaxSteps = 1
CHECK_DEADLOCK FALSE
INVARIANTS NothingIsLost SampleIsFair GatesAgree

SPECIFICATION Spec
CONSTANTS
  Worker <- MCWorker
  Plans <- MCStepRate
  LatencyOf <- MCLatencyOf
  Capacity = 2
  MaxTypes = 2
  MaxSteps = 1
CHECK_DEADLOCK FALSE
INVARIANT StepRateIsReal

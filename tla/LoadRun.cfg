SPECIFICATION Spec
CONSTANTS
  w1 = w1
  w2 = w2
  w3 = w3
  Worker <- MCWorker
  Requests = 2
  MaxRequests = 2
INVARIANTS
  NeverTooMany
  DroppedLoadIsReported
  ReportIsFinal
PROPERTIES
  NoRequestAfterStop
  StopEndsTheRun
  RunEnds
CHECK_DEADLOCK FALSE

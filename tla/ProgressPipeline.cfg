SPECIFICATION Spec
CONSTANTS
  n1 = n1
  n2 = n2
  Node <- MCNode
  MaxRequests <- MCMaxRequests
  MaxSamples <- MCMaxSamples
  ExportQueue = 1
  ReportQueue = 1
INVARIANTS
  NoWindowCountedTwice
  ResultIsLast
  NewestReportSurvives
  LossIsCounted
PROPERTIES
  TotalsNeverGoBackwards
  RunIsReported
CHECK_DEADLOCK FALSE

SPECIFICATION Spec
CONSTANTS
  Lines <- MCLines
  Calls <- MCCalls
  Searches <- MCSearches
  Urls = 2
CHECK_DEADLOCK FALSE
INVARIANTS LoadIsHonoured ExitTellsTheWorst CapacityIsFound
PROPERTY EveryCallEnds

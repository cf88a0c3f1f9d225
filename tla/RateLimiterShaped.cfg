SPECIFICATION LimiterSpec
CONSTANTS
  c1 = c1
  c2 = c2
  c3 = c3
  Caller <- MCCaller
  Duration = 7
  Interval <- MCInterval
  MaxInterval = 3
  Pause = 1
  Specs <- MCSpecs
  Base = 6
  Nodes = 2
INVARIANT ClusterKeepsTheRate
CHECK_DEADLOCK FALSE

SPECIFICATION LimiterSpec
CONSTANTS
  c1 = c1
  c2 = c2
  c3 = c3
  Caller <- MCCaller
  Duration = 7
  Interval <- MCInterval
  MaxInterval = 3
  Pause = 2
  Specs <- MCSpecs
  Base = 6
  Nodes = 2
INVARIANTS
  Spaced
  BoundedWait
  RateIsAsDrawn
SYMMETRY Symmetry
CHECK_DEADLOCK FALSE

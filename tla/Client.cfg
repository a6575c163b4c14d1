SPECIFICATION FairSpec
CONSTANTS
  MaxDials = 3
  MaxStops = 2
INVARIANT SafeStopSurvives
PROPERTIES SafeStopReturns
CHECK_DEADLOCK FALSE

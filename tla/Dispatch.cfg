SPECIFICATION FairSpec
CONSTANTS
  IndexMax = 6
  NInter = 1
  MaxProceed = 2
  MaxHandlers = 4
  MaxGotos = 2
INVARIANTS InOrder AbortIsFinal NoneSkipped StepIsDue
PROPERTIES Finishes
CHECK_DEADLOCK FALSE

SPECIFICATION Spec
CONSTANTS
  MaxConn = 2
  WorkerMode = "Bind"
  PoolSize = 1
  TaskLen = 1
  HookMayPanic = TRUE
  MayStop = TRUE
  None = None
  NConn = 3
  MaxReq = 0
INVARIANTS WithinLimit LostToPanicsOnly StopReachesAll
CHECK_DEADLOCK FALSE

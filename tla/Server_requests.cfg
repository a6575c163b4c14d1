SPECIFICATION FairSpec
CONSTANTS
  MaxConn = 1
  WorkerMode = "Hash"
  PoolSize = 2
  TaskLen = 1
  HookMayPanic = FALSE
  MayStop = FALSE
  None = None
  NConn = 3
  MaxReq = 2
INVARIANTS HandledInOrder
PROPERTY ImplementsService
CHECK_DEADLOCK FALSE

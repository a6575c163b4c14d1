SPECIFICATION Spec
CONSTANTS
  Levels = {0, 1, 5}
  IsolationLevel = 1
  MaxSize = 3
  BufMax = 1
  FlushEvery = 1
  DayLen = 2
  MaxAge = 4
  West = 1
  MaxTime = 6
  MaxLines = 4
  MaxFaults = 1
  MaxExits = 1
  MaxCloses = 1
INVARIANTS InOrder FilesBounded
PROPERTIES BackupsLast LinesReachDisk
CHECK_DEADLOCK FALSE

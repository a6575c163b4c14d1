SPECIFICATION WFairSpec
CONSTANTS
  Setters = {s1, s2}
  Registrars = {r1, r2}
  Nil = Nil
  Delayed = {s1, s2, r1, r2}
  ArrayLen = 2
  TaskCap = 1
  MinInt <- MCMinInt
  OpIds <- MCOpIds
INVARIANTS AtMostOnce NeverLost OpsOneByOne
PROPERTY ImplementsOnce
CHECK_DEADLOCK FALSE

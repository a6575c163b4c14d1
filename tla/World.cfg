SPECIFICATION Spec
CONSTANTS
  MinX = 0
  MaxX = 2
  CntsX = 1
  MinY = 0
  MaxY = 3
  CntsY = 3
  Spawns <- MCSpawns
  Targets <- MCTargets
  MaxPlayers = 2
  MaxMoves = 2
INVARIANTS OneArea ListedIsKnown InItsArea ViewsAgree ArrivalsAlone
VIEW MCView
CHECK_DEADLOCK FALSE

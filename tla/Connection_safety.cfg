SPECIFICATION Spec
CONSTANTS
  Callers = {c1, c2}
  Hb = Hb
  NoChan = NoChan
  NoMessage = NoMessage
  Kinds = {"Send", "SendToQueue", "SendBuffMsg"}
  MaxCalls = 2
  ChanCap = 1
  HasHeartbeat = TRUE
  HookMayPanic = TRUE
  PeerMayStall = TRUE
SYMMETRY CallerSymmetry
ACTION_CONSTRAINT Explored
INVARIANTS WritesOnOpenSocket QueueNeverPanics ClosedIsDetached AcceptedIsKept BufferedInOrder
PROPERTY ImplementsLife
CHECK_DEADLOCK FALSE

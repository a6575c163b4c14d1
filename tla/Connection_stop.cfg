SPECIFICATION FairSpec
CONSTANTS
  Callers = {c1}
  Hb = Hb
  NoChan = NoChan
  NoMessage = NoMessage
  Kinds = {"SendMsg", "SendToQueue", "SendBuffMsg"}
  MaxCalls = 2
  ChanCap = 1
  HasHeartbeat = TRUE
  HookMayPanic = TRUE
  PeerMayStall = TRUE
PROPERTIES StopCompletes
CHECK_DEADLOCK FALSE

SPECIFICATION WsFairSpec
CONSTANTS
  Callers = {u1}
  Hb = hb
  NoChan = NoChan
  NoMessage = NoMessage
  Kinds <- MCKinds
  MaxCalls = 2
  ChanCap = 1
  HasHeartbeat = TRUE
  HookMayPanic = TRUE
  PeerMayStall = FALSE
INVARIANTS EarlyCallsUnharmed ClosedIsDetached
PROPERTIES WsStopCompletes
CHECK_DEADLOCK FALSE

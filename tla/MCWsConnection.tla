---------------------------- MODULE MCWsConnection ----------------------------
(* Model checking of WsConnection with small sets of callers and methods.   *)
EXTENDS WsConnection

MCKinds == {"SendMsg", "SendToQueue"}
=============================================================================

----------------------------- MODULE WsConnection -----------------------------
(***************************************************************************)
(* One WebSocket connection of zinx/znet/ws_connection.go.  The file is a  *)
(* copy of connection.go that changed in places, and this module takes     *)
(* Connection's state and the actions that did not change.  What changed:  *)
(*                                                                         *)
(*   - the finalizer takes msgLock and gives it back at once, so that what *)
(*     it does afterwards is not protected from senders;                   *)
(*   - every send method holds the read lock for the whole call;           *)
(*   - nothing recovers: a panic of a hook, or of an interceptor on the    *)
(*     reader, ends the process (mpc = "dead");                            *)
(*   - a failed write does not end the writer.                             *)
(*                                                                         *)
(* gorilla's WriteMessage fails on a closed connection; that it must not   *)
(* be called by two goroutines at a time is not part of the model.         *)
(*                                                                         *)
(* A definition named X_Word is X with one mistake in it; no action uses   *)
(* it.  Each one shows that a property of the run can fail.                *)
(***************************************************************************)
EXTENDS Connection

\* History: senders that got the read lock they hold after the finalizer's turn.
VARIABLE late

wsVars == <<vars, late>>

\* newWebsocketConn: the connection is in the manager, as after newServerConn.
WsInit == Init /\ late = {}

Buffered(k) == k \in {"SendToQueue", "SendBuffMsg"}

-----------------------------------------------------------------------------
(* Start and finalizer                                                      *)

WsLock_Kept ==
  /\ mpc = "acquire" /\ readers = {}
  /\ writeLock' = "held"
  /\ mpc' = IF isClosed THEN "freeworker"
            ELSE IF HasHeartbeat THEN "hbstop" ELSE "close"
  /\ UNCHANGED <<connVars, lastActivity, readers, rpc, hb, senderVars,
                 chanVars, writerVars, wire, peer>>

WsLock_NoWait ==
  /\ mpc = "acquire"
  /\ writeLock' = "free"
  /\ mpc' = IF isClosed THEN "freeworker"
            ELSE IF HasHeartbeat THEN "hbstop" ELSE "close"
  /\ UNCHANGED <<connVars, lastActivity, readers, rpc, hb, senderVars,
                 chanVars, writerVars, wire, peer>>

\* Lock is granted when the senders that hold the read lock have returned, and
\* Unlock follows: senders that waited behind it go on beside the finalizer.
WsLock ==
  /\ mpc = "acquire" /\ readers = {}
  /\ writeLock' = "free"
  /\ mpc' = IF isClosed THEN "freeworker"
            ELSE IF HasHeartbeat THEN "hbstop" ELSE "close"
  /\ UNCHANGED <<connVars, lastActivity, readers, rpc, hb, senderVars,
                 chanVars, writerVars, wire, peer>>

WsStart ==
  \/ Start \/ CallOnConnStart \/ HeartbeatStart \/ UpdateActivity
  \/ UseWorker \/ CtxDone \/ FreeWorker

WsFinalizer_KeepsHeartbeat ==
  \/ CallOnConnStop \/ LockRequest \/ WsLock \/ HeartbeatStop_Async
  \/ CloseSocket \/ CloseChan \/ MarkClosed

\* MarkClosed's Unlock is not here, and does nothing to a free lock.
WsFinalizer ==
  \/ CallOnConnStop \/ LockRequest \/ WsLock \/ HeartbeatStop
  \/ CloseSocket \/ CloseChan \/ MarkClosed

\* A hook, or Execute on the reader, panics: the process ends.
WsPanics ==
  /\ \/ HookMayPanic /\ mpc \in {"onstart", "onstop"}
     \/ rpc = "execute"
  /\ mpc' = "dead"
  /\ UNCHANGED <<connVars, OthersOfMain>>

-----------------------------------------------------------------------------
(* StartReader                                                              *)

\* A message, which may be empty and then is no sign of life.
WsReadData ==
  /\ rpc = "read" /\ sockOpen /\ peer # "gone"
  /\ rpc' = "execute"
  /\ lastActivity' \in {lastActivity, IF HasHeartbeat THEN "recent" ELSE lastActivity}
  /\ UNCHANGED <<cancelled, OthersOfReader>>

WsReadPing ==
  /\ rpc = "read" /\ sockOpen /\ peer # "gone"
  /\ rpc' = "select" /\ lastActivity' = "recent"
  /\ UNCHANGED <<cancelled, OthersOfReader>>

\* A failed read cancels the context, and the deferred Stop does so again.
WsReadError ==
  /\ rpc = "read" /\ (~sockOpen \/ peer = "gone")
  /\ rpc' = "stop" /\ cancelled' = TRUE
  /\ UNCHANGED <<lastActivity, OthersOfReader>>

WsExecuted ==
  /\ rpc = "execute" /\ rpc' = "select"
  /\ UNCHANGED <<cancelled, lastActivity, OthersOfReader>>

WsReader == ReaderSelect \/ WsReadError \/ WsExecuted \/ ReaderStop

-----------------------------------------------------------------------------
(* Send, SendToQueue, SendMsg, SendBuffMsg                                  *)

WsCall(p, k) ==
  /\ mpc # "new" /\ calls[p] < MaxCalls
  /\ At(p, "idle", "rlock")
  /\ kind' = [kind EXCEPT ![p] = k]
  /\ calls' = [calls EXCEPT ![p] = @ + 1]
  /\ UNCHANGED <<NonSender, lockVars, offerTo, accepted, chanVars,
                 writerVars, wire>>

\* A beat: the heartbeat's SendMsg takes the read lock first, too.
WsBeat ==
  /\ hb = "on" /\ spc[Hb] = "idle" /\ IsAlive
  /\ spc' = [spc EXCEPT ![Hb] = "rlock"]
  /\ UNCHANGED <<cancelled, OthersOfHeartbeat>>

\* The phases of Start after the finalizer had the lock.
Turn == {"hbstop", "close", "closechan", "markclosed"} \cup Finished

WsRLock(p) ==
  /\ writeLock = "free"
  /\ At(p, "rlock", IF Buffered(kind[p]) THEN "lazy" ELSE "check")
  /\ readers' = readers \cup {p}
  /\ late' = IF mpc \in Turn THEN late \cup {p} ELSE late
  /\ UNCHANGED <<NonSender, writeLock, kind, offerTo, calls, accepted,
                 chanVars, writerVars, wire>>

WsTestChan(p) ==
  /\ At(p, "lazy", IF chan = NoChan THEN "create" ELSE "check")
  /\ UNCHANGED <<NonSender, lockVars, kind, offerTo, calls, accepted,
                 chanVars, writerVars, wire>>

WsMakeChan(p) ==
  /\ At(p, "create", "check")
  /\ chan' = p
  /\ wpc' = [wpc EXCEPT ![p] = "select"]
  /\ UNCHANGED <<NonSender, lockVars, kind, offerTo, calls, accepted,
                 buf, closedChans, recvFrom, hand, wire>>

WsCheck(p) ==
  /\ spc[p] = "check"
  /\ IF isClosed THEN Return(p)
     ELSE /\ spc' = [spc EXCEPT ![p] =
                       IF Buffered(kind[p]) THEN "select" ELSE "write"]
          /\ UNCHANGED <<lockVars, kind, offerTo>>
  /\ UNCHANGED <<NonSender, calls, accepted, chanVars, writerVars, wire>>

WsLocked(p) == \/ WsTestChan(p) \/ WsMakeChan(p) \/ WsCheck(p) \/ Write(p)
               \/ EnterSelect(p) \/ Offer(p) \/ OfferPanics(p) \/ OfferTimeout(p)

WsSender(p) == WsRLock(p) \/ (WsLocked(p) /\ late' = late \cap readers')

-----------------------------------------------------------------------------
(* StartWriter                                                              *)

\* A message that could not be written is gone, and the loop goes on.
WsWriterWrite(w) ==
  /\ wpc[w] = "write"
  /\ wpc' = [wpc EXCEPT ![w] = "select"]
  /\ wire' = IF WriteSucceeds THEN Append(wire, hand[w]) ELSE wire
  /\ WriteSucceeds \/ WriteFails
  /\ hand' = [hand EXCEPT ![w] = NoMessage]
  /\ UNCHANGED <<NonWriter, recvFrom, buf>>

WsWriter(w) == WriterSelect(w) \/ WriterReceive(w) \/ WriterClosed(w)
               \/ WriterDone(w) \/ WsWriterWrite(w)

-----------------------------------------------------------------------------
WsMain == WsStart \/ WsFinalizer

WsNext ==
  /\ mpc # "dead"
  /\ \/ /\ \/ WsMain \/ WsPanics \/ Stop \/ ClearConn
           \/ WsReader \/ WsReadData \/ WsReadPing
           \/ WsBeat \/ HeartbeatNotAlive
           \/ \E p \in Callers, k \in Kinds : WsCall(p, k)
           \/ \E w \in Channels : WsWriter(w)
           \/ PeerStalls \/ PeerResumes \/ PeerLeaves \/ TimePasses
        /\ UNCHANGED late
     \/ \E p \in Senders : WsSender(p)

WsSpec == WsInit /\ [][WsNext]_wsVars

\* As for the TCP connection; a process that ended does nothing more.  The
\* heartbeat's select finds the finalizer's quit ready each time it comes back.
Alive(A) == mpc # "dead" /\ A /\ UNCHANGED late

WsFairness ==
  /\ WF_wsVars(Alive(WsMain)) /\ SF_wsVars(Alive(HeartbeatStop))
  /\ WF_wsVars(Alive(WsReader))
  /\ WF_wsVars(Alive(WsBeat)) /\ WF_wsVars(Alive(HeartbeatNotAlive))
  /\ \A p \in Senders : WF_wsVars(mpc # "dead" /\ WsSender(p))
  /\ \A w \in Channels :
       WF_wsVars(Alive(WsWriter(w))) /\ SF_wsVars(Alive(WriterDone(w)))

WsFairSpec == WsSpec /\ WsFairness

-----------------------------------------------------------------------------
(* Properties                                                               *)

\* The finalizer's Lock and Unlock make it wait for every call that was under
\* way: such a call finds the socket and the channel open.  Only a call that
\* got the lock behind the finalizer can meet a closed one (finalizer).
EarlyCallsUnharmed ==
  \A p \in Senders \ late :
    /\ spc[p] = "write" => sockOpen
    /\ spc[p] = "offer" => offerTo[p] \notin closedChans

\* Without a stalled peer a done context ends the connection, also with a
\* heartbeat: the finalizer stops it without holding msgLock.
WsStopCompletes == cancelled ~> (Stopped \/ mpc = "dead")
=============================================================================

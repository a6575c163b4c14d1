----------------------------- MODULE Connection -----------------------------
(***************************************************************************)
(* One server-side TCP connection of zinx/znet/connection.go with its      *)
(* heartbeat checker (zinx/znet/heartbeat.go) and every goroutine that     *)
(* works on it:                                                            *)
(*                                                                         *)
(*   main      Connection.Start, from the context to finalizer/freeWorker  *)
(*   reader    StartReader                                                 *)
(*   writers   StartWriter, one per buffered channel that was created      *)
(*   Hb        HeartbeatChecker.start                                      *)
(*   Callers   user goroutines inside Send, SendMsg, SendToQueue or        *)
(*             SendBuffMsg                                                 *)
(*                                                                         *)
(* A message is the pair <<caller, number of the call>>.  Bytes, packing   *)
(* and decoding are left out.  The peer reads, stalls (its window is full, *)
(* so Write blocks) or is gone (Write and Read fail).                      *)
(*                                                                         *)
(* A definition named X_Word is X with one mistake in it; no action uses   *)
(* it.  Each one shows that a property of the run can fail.                *)
(***************************************************************************)
EXTENDS Integers, Sequences, FiniteSets

CONSTANTS
  Callers,      \* goroutines that send on the connection
  Hb,           \* the heartbeat goroutine, a sender as well
  NoChan,       \* a nil channel
  NoMessage,    \* what a writer without a message holds
  Kinds,        \* the send methods the callers use
  MaxCalls,     \* bound: calls of each caller
  ChanCap,      \* MaxMsgChanLen, the capacity of msgBuffChan
  HasHeartbeat, \* c.hc # nil: the server was given a heartbeat checker
  HookMayPanic, \* the user's OnConnStart / OnConnStop hook may panic
  PeerMayStall  \* the peer may stop reading

AllKinds == {"Send", "SendMsg", "SendToQueue", "SendBuffMsg"}

ASSUME ConnectionAssumption ==
  /\ Hb \notin Callers /\ NoChan \notin Callers
  /\ Kinds \subseteq AllKinds
  /\ MaxCalls \in Nat /\ ChanCap \in Nat \ {0}
  /\ HasHeartbeat \in BOOLEAN /\ HookMayPanic \in BOOLEAN
  /\ PeerMayStall \in BOOLEAN
  /\ NoMessage \notin Callers \X (1..MaxCalls)

VARIABLES
  mpc,          \* where Start is
  cancelled,    \* ctx is done: cancel was called
  isClosed, sockOpen, registered, worker,
  lastActivity, \* "never" (zero time), "recent" or "old"
  writeLock,    \* msgLock's writer side: "free", "waiting" or "held"
  readers,      \* senders that hold msgLock.RLock
  rpc,          \* where StartReader is
  hb,           \* heartbeat goroutine: "off", "on" or "quit"
  spc, kind, offerTo,  \* per sender: where it is, its method, its channel
  calls,        \* per caller: calls made
  chan,         \* c.msgBuffChan
  buf, closedChans,    \* per channel: its contents; the closed ones
  wpc, recvFrom, hand, \* per writer: where it is, its channel, its message
  accepted,     \* buffered messages whose call returned nil
  wire,         \* messages written to the socket, in order
  peer          \* "reading", "stalled" or "gone"

connVars   == <<cancelled, isClosed, sockOpen, registered, worker>>
lockVars   == <<writeLock, readers>>
senderVars == <<spc, kind, offerTo, calls, accepted>>
chanVars   == <<chan, buf, closedChans>>
writerVars == <<wpc, recvFrom, hand>>
vars == <<mpc, connVars, lastActivity, lockVars, rpc, hb, senderVars,
          chanVars, writerVars, wire, peer>>

Senders == Callers \cup {Hb}

\* A channel, and the writer started with it, is named for the caller that
\* made it.  A caller makes at most one: it made it because it saw nil, and
\* after its assignment nobody sees nil again.
Channels == Callers
Messages == Callers \X (1..MaxCalls)

\* Phases of Start in which the finalizer holds msgLock, and after it.
Locked   == {"hbstop", "close", "closechan", "markclosed"}
Finished == {"freeworker", "done"}
MainPhases == {"new", "onstart", "hbstart", "activity", "useworker",
               "wait", "onstop", "lock", "acquire", "dead"}
              \cup Locked \cup Finished
SenderPhases == {"idle", "precheck", "rlock", "lazy", "create", "check",
                 "select", "offer", "write"}

MainTypes ==
  /\ mpc \in MainPhases
  /\ cancelled \in BOOLEAN /\ isClosed \in BOOLEAN
  /\ sockOpen \in BOOLEAN /\ registered \in BOOLEAN
  /\ worker \in {"none", "held", "returned"}
  /\ lastActivity \in {"never", "recent", "old"}
  /\ writeLock \in {"free", "waiting", "held"}
  /\ rpc \in {"none", "select", "read", "execute", "stop", "done"}
  /\ hb \in {"off", "on", "quit"}
  /\ peer \in {"reading", "stalled", "gone"}

SenderTypes ==
  /\ readers \subseteq Senders
  /\ spc \in [Senders -> SenderPhases]
  /\ kind \in [Senders -> AllKinds]
  /\ offerTo \in [Senders -> Channels \cup {NoChan}]
  /\ calls \in [Callers -> 0..MaxCalls]
  /\ accepted \subseteq Messages

ChanTypes ==
  /\ chan \in Channels \cup {NoChan}
  /\ buf \in [Channels -> Seq(Messages)]
  /\ closedChans \subseteq Channels
  /\ wpc \in [Channels -> {"none", "select", "recv", "write", "done"}]
  /\ recvFrom \in [Channels -> Channels \cup {NoChan}]
  /\ hand \in [Channels -> Messages \cup {NoMessage}]
  /\ wire \in Seq(Messages)

TypeOK == MainTypes /\ SenderTypes /\ ChanTypes

\* newServerConn has run: the connection is in the manager, Start has not.
Init ==
  /\ mpc = "new" /\ cancelled = FALSE /\ isClosed = FALSE
  /\ sockOpen = TRUE /\ registered = TRUE /\ worker = "none"
  /\ lastActivity = "never"
  /\ writeLock = "free" /\ readers = {}
  /\ rpc = "none" /\ hb = "off"
  /\ spc = [p \in Senders |-> "idle"]
  /\ kind = [p \in Senders |-> "SendMsg"]
  /\ offerTo = [p \in Senders |-> NoChan]
  /\ calls = [p \in Callers |-> 0]
  /\ chan = NoChan
  /\ buf = [c \in Channels |-> <<>>] /\ closedChans = {}
  /\ wpc = [w \in Channels |-> "none"]
  /\ recvFrom = [w \in Channels |-> NoChan]
  /\ hand = [w \in Channels |-> NoMessage]
  /\ accepted = {} /\ wire = <<>> /\ peer = "reading"

-----------------------------------------------------------------------------
(* The socket.  Write fails on a closed socket or a lost peer, succeeds     *)
(* while the peer reads, and blocks while it stalls.                        *)
WriteSucceeds == sockOpen /\ peer = "reading"
WriteFails    == ~sockOpen \/ peer = "gone"

-----------------------------------------------------------------------------
(* main: Connection.Start                                                   *)

Goto(from, to) == mpc = from /\ mpc' = to

OthersOfMain == <<lastActivity, lockVars, rpc, hb, senderVars, chanVars,
                  writerVars, wire, peer>>

\* The context is made and the OnConnStart hook is entered.
Start ==
  /\ Goto("new", "onstart")
  /\ UNCHANGED <<connVars, OthersOfMain>>

CallOnConnStart ==
  /\ Goto("onstart", IF HasHeartbeat THEN "hbstart" ELSE "useworker")
  /\ UNCHANGED <<connVars, OthersOfMain>>

\* A panic of either hook unwinds Start: its deferred recover ends it.
HookPanics ==
  /\ HookMayPanic
  /\ mpc \in {"onstart", "onstop"} /\ mpc' = "dead"
  /\ UNCHANGED <<connVars, OthersOfMain>>

HeartbeatStart ==
  /\ Goto("hbstart", "activity")
  /\ hb' = "on"
  /\ UNCHANGED <<connVars, lastActivity, lockVars, rpc, senderVars, chanVars,
                 writerVars, wire, peer>>

UpdateActivity ==
  /\ Goto("activity", "useworker")
  /\ lastActivity' = "recent"
  /\ UNCHANGED <<connVars, lockVars, rpc, hb, senderVars, chanVars, writerVars,
                 wire, peer>>

\* useWorker, then `go c.StartReader()`.
UseWorker ==
  /\ Goto("useworker", "wait")
  /\ worker' = "held" /\ rpc' = "select"
  /\ UNCHANGED <<cancelled, isClosed, sockOpen, registered, lastActivity,
                 lockVars, hb, senderVars, chanVars, writerVars, wire, peer>>

CtxDone ==
  /\ Goto("wait", "onstop") /\ cancelled
  /\ UNCHANGED <<connVars, OthersOfMain>>

CallOnConnStop ==
  /\ Goto("onstop", "lock")
  /\ UNCHANGED <<connVars, OthersOfMain>>

\* finalizer asks for the write lock: from here on RLock waits behind it.
LockRequest ==
  /\ Goto("lock", "acquire")
  /\ writeLock' = "waiting"
  /\ UNCHANGED <<connVars, lastActivity, readers, rpc, hb, senderVars,
                 chanVars, writerVars, wire, peer>>

LockAcquire_NoWait ==
  /\ mpc = "acquire"
  /\ IF isClosed
       THEN mpc' = "freeworker" /\ writeLock' = "free"
       ELSE /\ mpc' = IF HasHeartbeat THEN "hbstop" ELSE "close"
            /\ writeLock' = "held"
  /\ UNCHANGED <<connVars, lastActivity, readers, rpc, hb, senderVars,
                 chanVars, writerVars, wire, peer>>

\* The lock is granted once the senders that hold it have returned.
LockAcquire ==
  /\ mpc = "acquire" /\ readers = {}
  /\ IF isClosed
       THEN mpc' = "freeworker" /\ writeLock' = "free"
       ELSE /\ mpc' = IF HasHeartbeat THEN "hbstop" ELSE "close"
            /\ writeLock' = "held"
  /\ UNCHANGED <<connVars, lastActivity, readers, rpc, hb, senderVars,
                 chanVars, writerVars, wire, peer>>

HeartbeatStop_Async ==
  /\ Goto("hbstop", "close")
  /\ UNCHANGED <<connVars, lastActivity, lockVars, rpc, hb, senderVars,
                 chanVars, writerVars, wire, peer>>

\* HeartbeatChecker.Stop sends on the unbuffered quitChan, with msgLock held:
\* it waits until the heartbeat goroutine is back at its select.
HeartbeatStop ==
  /\ Goto("hbstop", "close")
  /\ hb = "on" /\ spc[Hb] = "idle" /\ hb' = "quit"
  /\ UNCHANGED <<connVars, lastActivity, lockVars, rpc, senderVars, chanVars,
                 writerVars, wire, peer>>

\* conn.Close, then connManager.Remove.
CloseSocket ==
  /\ Goto("close", "closechan")
  /\ sockOpen' = FALSE /\ registered' = FALSE
  /\ UNCHANGED <<cancelled, isClosed, worker, OthersOfMain>>

CloseChan ==
  /\ Goto("closechan", "markclosed")
  /\ closedChans' = closedChans \cup ({chan} \ {NoChan})
  /\ UNCHANGED <<connVars, lastActivity, lockVars, rpc, hb, senderVars, chan,
                 buf, writerVars, wire, peer>>

\* isClosed is set and the deferred Unlock runs.
MarkClosed ==
  /\ Goto("markclosed", "freeworker")
  /\ isClosed' = TRUE /\ writeLock' = "free"
  /\ UNCHANGED <<cancelled, sockOpen, registered, worker, lastActivity,
                 readers, rpc, hb, senderVars, chanVars, writerVars, wire,
                 peer>>

FreeWorker ==
  /\ Goto("freeworker", "done")
  /\ worker' = "returned"
  /\ UNCHANGED <<cancelled, isClosed, sockOpen, registered, OthersOfMain>>

Main == \/ Start \/ CallOnConnStart \/ HeartbeatStart \/ UpdateActivity
        \/ UseWorker \/ CtxDone \/ CallOnConnStop
        \/ LockRequest \/ LockAcquire \/ HeartbeatStop \/ CloseSocket
        \/ CloseChan \/ MarkClosed \/ FreeWorker

-----------------------------------------------------------------------------
(* Stop and its callers outside the connection's own goroutines.            *)

\* Stop is cancel(), idempotent.  Before Start it is the call of a nil
\* function, which changes nothing here.
Stop ==
  /\ mpc # "new"
  /\ cancelled' = TRUE
  /\ UNCHANGED <<mpc, isClosed, sockOpen, registered, worker, OthersOfMain>>

\* ConnManager.ClearConn stops the connection and removes it from the map.
ClearConn ==
  /\ mpc # "new" /\ registered
  /\ cancelled' = TRUE /\ registered' = FALSE
  /\ UNCHANGED <<mpc, isClosed, sockOpen, worker, OthersOfMain>>

-----------------------------------------------------------------------------
(* reader: StartReader                                                      *)

OthersOfReader == <<mpc, isClosed, sockOpen, registered, worker, lockVars,
                    hb, senderVars, chanVars, writerVars, wire, peer>>

ReaderSelect ==
  /\ rpc = "select"
  /\ rpc' = IF cancelled THEN "stop" ELSE "read"
  /\ UNCHANGED <<cancelled, lastActivity, OthersOfReader>>

\* The peer sent something while it is there and the socket is open.
ReaderData ==
  /\ rpc = "read" /\ sockOpen /\ peer # "gone"
  /\ rpc' = "execute"
  /\ lastActivity' = IF HasHeartbeat THEN "recent" ELSE lastActivity
  /\ UNCHANGED <<cancelled, OthersOfReader>>

ReaderError ==
  /\ rpc = "read" /\ (~sockOpen \/ peer = "gone")
  /\ rpc' = "stop"
  /\ UNCHANGED <<cancelled, lastActivity, OthersOfReader>>

\* Decode and Execute return, or panic into the deferred recover.
ReaderExecute ==
  /\ rpc = "execute"
  /\ rpc' \in {"select", "stop"}
  /\ UNCHANGED <<cancelled, lastActivity, OthersOfReader>>

ReaderStop ==
  /\ rpc = "stop" /\ rpc' = "done"
  /\ cancelled' = TRUE
  /\ UNCHANGED <<lastActivity, OthersOfReader>>

Reader == \/ ReaderSelect \/ ReaderError \/ ReaderExecute \/ ReaderStop

-----------------------------------------------------------------------------
(* heartbeat: start and check.  A beat is a SendMsg of Hb; beats are not    *)
(* recorded on the wire.                                                    *)

IsAlive == ~isClosed /\ lastActivity = "recent"

OthersOfHeartbeat == <<mpc, isClosed, sockOpen, registered, worker,
                       lastActivity, lockVars, rpc, hb, kind, offerTo, calls,
                       accepted, chanVars, writerVars, wire, peer>>

HeartbeatBeat ==
  /\ hb = "on" /\ spc[Hb] = "idle" /\ IsAlive
  /\ spc' = [spc EXCEPT ![Hb] = "precheck"]
  /\ UNCHANGED <<cancelled, OthersOfHeartbeat>>

\* The default onRemoteNotAlive stops the connection.
HeartbeatNotAlive ==
  /\ hb = "on" /\ spc[Hb] = "idle" /\ ~IsAlive
  /\ cancelled' = TRUE
  /\ UNCHANGED <<spc, OthersOfHeartbeat>>

-----------------------------------------------------------------------------
(* senders                                                                  *)

NonSender == <<mpc, connVars, lastActivity, rpc, hb, peer>>

\* The method returns: its deferred RUnlock gives the read lock back, and its
\* local variables are gone.
Return(p) ==
  /\ spc' = [spc EXCEPT ![p] = "idle"]
  /\ kind' = [kind EXCEPT ![p] = "SendMsg"]
  /\ offerTo' = [offerTo EXCEPT ![p] = NoChan]
  /\ readers' = readers \ {p}
  /\ UNCHANGED writeLock

At(p, from, to) == spc[p] = from /\ spc' = [spc EXCEPT ![p] = to]

Message(p) == <<p, calls[p]>>

\* A user goroutine that was handed the connection calls one of the methods.
Call(p, k) ==
  /\ mpc # "new" /\ calls[p] < MaxCalls
  /\ At(p, "idle", IF k \in {"Send", "SendToQueue"} THEN "rlock"
                   ELSE "precheck")
  /\ kind' = [kind EXCEPT ![p] = k]
  /\ calls' = [calls EXCEPT ![p] = @ + 1]
  /\ UNCHANGED <<NonSender, lockVars, offerTo, accepted, chanVars,
                 writerVars, wire>>

\* SendMsg and SendBuffMsg read isClosed without the lock.
PreCheck(p) ==
  /\ spc[p] = "precheck"
  /\ IF isClosed THEN Return(p)
     ELSE /\ spc' = [spc EXCEPT ![p] =
                       IF kind[p] = "SendMsg" THEN "rlock" ELSE "lazy"]
          /\ UNCHANGED <<lockVars, kind, offerTo>>
  /\ UNCHANGED <<NonSender, calls, accepted, chanVars, writerVars,
                 wire>>

RLock_NotForQueue(p) ==
  /\ kind[p] = "SendToQueue" \/ writeLock = "free"
  /\ At(p, "rlock", IF kind[p] = "SendToQueue" THEN "lazy" ELSE "check")
  /\ readers' = IF kind[p] = "SendToQueue" THEN readers ELSE readers \cup {p}
  /\ UNCHANGED <<NonSender, writeLock, kind, offerTo, calls, accepted,
                 chanVars, writerVars, wire>>

\* RLock waits for a writer that holds the lock or already waits for it.
RLock(p) ==
  /\ writeLock = "free"
  /\ At(p, "rlock", IF kind[p] = "SendToQueue" THEN "lazy" ELSE "check")
  /\ readers' = readers \cup {p}
  /\ UNCHANGED <<NonSender, writeLock, kind, offerTo, calls, accepted,
                 chanVars, writerVars, wire>>

AfterLazy(p) == IF kind[p] = "SendToQueue" THEN "check" ELSE "select"

\* `if c.msgBuffChan == nil`
TestChan(p) ==
  /\ At(p, "lazy", IF chan = NoChan THEN "create" ELSE AfterLazy(p))
  /\ UNCHANGED <<NonSender, lockVars, kind, offerTo, calls, accepted,
                 chanVars, writerVars, wire>>

\* The channel is made and assigned, and its StartWriter goroutine started.
MakeChan(p) ==
  /\ At(p, "create", AfterLazy(p))
  /\ chan' = p
  /\ wpc' = [wpc EXCEPT ![p] = "select"]
  /\ UNCHANGED <<NonSender, lockVars, kind, offerTo, calls, accepted,
                 buf, closedChans, recvFrom, hand, wire>>

\* isClosed under the read lock.
Check(p) ==
  /\ spc[p] = "check"
  /\ IF isClosed THEN Return(p)
     ELSE /\ spc' = [spc EXCEPT ![p] =
                       IF kind[p] = "SendToQueue" THEN "select" ELSE "write"]
          /\ UNCHANGED <<lockVars, kind, offerTo>>
  /\ UNCHANGED <<NonSender, calls, accepted, chanVars, writerVars,
                 wire>>

\* c.conn.Write of Send.
Write(p) ==
  /\ spc[p] = "write"
  /\ \/ /\ WriteSucceeds
        /\ wire' = IF p = Hb THEN wire ELSE Append(wire, Message(p))
     \/ WriteFails /\ UNCHANGED wire
  /\ Return(p)
  /\ UNCHANGED <<NonSender, calls, accepted, chanVars,
                 writerVars>>

\* The select of the buffered methods evaluates c.msgBuffChan once ...
EnterSelect(p) ==
  /\ At(p, "select", "offer")
  /\ offerTo' = [offerTo EXCEPT ![p] = chan]
  /\ UNCHANGED <<NonSender, lockVars, kind, calls, accepted, chanVars,
                 writerVars, wire>>

\* ... and sends to that channel ...
Offer(p) ==
  /\ spc[p] = "offer"
  /\ LET c == offerTo[p] IN
       /\ c \notin closedChans /\ Len(buf[c]) < ChanCap
       /\ buf' = [buf EXCEPT ![c] = Append(@, Message(p))]
  /\ accepted' = accepted \cup {Message(p)}
  /\ Return(p)
  /\ UNCHANGED <<NonSender, calls, chan,
                 closedChans, writerVars, wire>>

\* ... panics when it is closed, which also ends the call ...
OfferPanics(p) ==
  /\ spc[p] = "offer" /\ offerTo[p] \in closedChans
  /\ Return(p)
  /\ UNCHANGED <<NonSender, calls, accepted, chanVars,
                 writerVars, wire>>

OfferTimeout_Accepts(p) ==
  /\ spc[p] = "offer"
  /\ accepted' = accepted \cup {Message(p)}
  /\ Return(p)
  /\ UNCHANGED <<NonSender, calls, chanVars, writerVars, wire>>

OfferTimeout_Writes(p) ==
  /\ spc[p] = "offer" /\ WriteSucceeds
  /\ wire' = Append(wire, Message(p)) /\ accepted' = accepted \cup {Message(p)}
  /\ Return(p)
  /\ UNCHANGED <<NonSender, calls, chanVars, writerVars>>

\* ... or gives up after 5 ms.
OfferTimeout(p) ==
  /\ spc[p] = "offer"
  /\ Return(p)
  /\ UNCHANGED <<NonSender, calls, accepted, chanVars,
                 writerVars, wire>>

SenderStep(p) ==
  \/ PreCheck(p) \/ RLock(p) \/ TestChan(p) \/ MakeChan(p) \/ Check(p)
  \/ Write(p) \/ EnterSelect(p) \/ Offer(p) \/ OfferPanics(p)
  \/ OfferTimeout(p)

-----------------------------------------------------------------------------
(* writers: StartWriter                                                     *)

NonWriter == <<mpc, connVars, lastActivity, lockVars, rpc, hb, senderVars,
               chan, closedChans, peer>>

\* The select evaluates c.msgBuffChan once.
WriterSelect(w) ==
  /\ wpc[w] = "select"
  /\ wpc' = [wpc EXCEPT ![w] = "recv"]
  /\ recvFrom' = [recvFrom EXCEPT ![w] = chan]
  /\ UNCHANGED <<NonWriter, buf, hand, wire>>

LeaveSelect(w, to) ==
  /\ wpc' = [wpc EXCEPT ![w] = to]
  /\ recvFrom' = [recvFrom EXCEPT ![w] = NoChan]

WriterReceive(w) ==
  /\ wpc[w] = "recv"
  /\ LET c == recvFrom[w] IN
       /\ buf[c] # <<>>
       /\ hand' = [hand EXCEPT ![w] = Head(buf[c])]
       /\ buf' = [buf EXCEPT ![c] = Tail(@)]
  /\ LeaveSelect(w, "write")
  /\ UNCHANGED <<NonWriter, wire>>

\* A closed channel: `break` leaves the select only, and the loop goes on.
WriterClosed(w) ==
  /\ wpc[w] = "recv"
  /\ recvFrom[w] \in closedChans /\ buf[recvFrom[w]] = <<>>
  /\ LeaveSelect(w, "select")
  /\ UNCHANGED <<NonWriter, hand, buf, wire>>

WriterDone_Never(w) ==
  /\ wpc[w] = "done" /\ cancelled
  /\ LeaveSelect(w, "done")
  /\ UNCHANGED <<NonWriter, hand, buf, wire>>

WriterDone(w) ==
  /\ wpc[w] = "recv" /\ cancelled
  /\ LeaveSelect(w, "done")
  /\ UNCHANGED <<NonWriter, hand, buf, wire>>

WriterWrite_Again(w) ==
  /\ wpc[w] = "write"
  /\ \/ /\ WriteSucceeds
        /\ wire' = Append(wire, hand[w])
        /\ wpc' = wpc
     \/ /\ WriteFails
        /\ wpc' = [wpc EXCEPT ![w] = "done"]
        /\ UNCHANGED wire
  /\ UNCHANGED <<NonWriter, recvFrom, buf, hand>>

WriterWrite(w) ==
  /\ wpc[w] = "write"
  /\ \/ /\ WriteSucceeds
        /\ wire' = Append(wire, hand[w])
        /\ wpc' = [wpc EXCEPT ![w] = "select"]
     \/ /\ WriteFails
        /\ wpc' = [wpc EXCEPT ![w] = "done"]
        /\ UNCHANGED wire
  /\ hand' = [hand EXCEPT ![w] = NoMessage]
  /\ UNCHANGED <<NonWriter, recvFrom, buf>>

WriterStep(w) == WriterSelect(w) \/ WriterReceive(w) \/ WriterClosed(w)
                 \/ WriterDone(w) \/ WriterWrite(w)

-----------------------------------------------------------------------------
(* environment: the peer and the clock                                      *)

NonPeer == <<mpc, connVars, lastActivity, lockVars, rpc, hb, senderVars,
             chanVars, writerVars, wire>>

PeerStalls  == /\ PeerMayStall /\ peer = "reading" /\ peer' = "stalled"
               /\ UNCHANGED NonPeer
PeerResumes == peer = "stalled" /\ peer' = "reading" /\ UNCHANGED NonPeer
PeerLeaves  == peer # "gone" /\ peer' = "gone" /\ UNCHANGED NonPeer

\* HeartbeatMax passes without a read.
TimePasses ==
  /\ lastActivity = "recent" /\ lastActivity' = "old"
  /\ UNCHANGED <<mpc, connVars, lockVars, rpc, hb, senderVars, chanVars,
                 writerVars, wire, peer>>

Next ==
  \/ Main \/ HookPanics \/ Stop \/ ClearConn
  \/ Reader \/ ReaderData
  \/ HeartbeatBeat \/ HeartbeatNotAlive
  \/ \E p \in Callers, k \in Kinds : Call(p, k)
  \/ \E p \in Senders : SenderStep(p)
  \/ \E w \in Channels : WriterStep(w)
  \/ PeerStalls \/ PeerResumes \/ PeerLeaves \/ TimePasses

Spec == Init /\ [][Next]_vars

\* Every goroutine of the connection keeps running; Go's select picks a ready
\* case at random, so a writer that keeps meeting a done context leaves; the
\* worker pool takes the reader's requests.  Nothing obliges a user to call,
\* anyone to Stop, or the peer to send, read or leave.
Fairness ==
  /\ WF_vars(Main) /\ WF_vars(Reader)
  /\ WF_vars(HeartbeatBeat) /\ WF_vars(HeartbeatNotAlive)
  /\ \A p \in Senders : WF_vars(SenderStep(p))
  /\ \A w \in Channels : WF_vars(WriterStep(w)) /\ SF_vars(WriterDone(w))

FairSpec == Spec /\ Fairness

-----------------------------------------------------------------------------
(* Properties                                                               *)

\* A Send that passed its isClosed check writes to a socket the finalizer has
\* not closed: that is what msgLock is for (Send, finalizer).
WritesOnOpenSocket == \A p \in Senders : spc[p] = "write" => sockOpen

\* SendToQueue never sends on a closed channel, which would panic its caller:
\* it checks isClosed and sends under one read lock (SendToQueue, finalizer).
QueueNeverPanics ==
  \A p \in Callers : spc[p] = "offer" /\ kind[p] = "SendToQueue"
                     => offerTo[p] \notin closedChans

\* Once isClosed is set nothing is left that could act for the connection:
\* the socket is closed, the manager forgot it, no heartbeat goroutine runs.
ClosedIsDetached ==
  isClosed => cancelled /\ ~sockOpen /\ ~registered /\ hb # "on"

\* Two first callers both saw nil: each made a channel and started a writer, and
\* the second assignment of msgBuffChan replaced the first channel.
Overwritten == \E v, w \in Channels : v # w /\ wpc[v] # "none" /\ wpc[w] # "none"

\* The channel of writer w's present or next receive.
Source(w) == IF wpc[w] = "recv" THEN recvFrom[w] ELSE chan

\* As long as the connection is up, a message a buffered send accepted is on the
\* wire, held by a writer, or in a channel a writer receives from next; it may
\* be stuck only in a channel that a second first caller replaced (SendToQueue,
\* SendBuffMsg, StartWriter).
AcceptedIsKept ==
  ~cancelled /\ peer # "gone" =>
    \A m \in accepted :
      \/ \E i \in DOMAIN wire : wire[i] = m
      \/ \E w \in Channels : hand[w] = m
      \/ \E c \in Channels :
           /\ \E i \in DOMAIN buf[c] : buf[c][i] = m
           /\ \/ \E w \in Channels : wpc[w] \notin {"none", "done"} /\ Source(w) = c
              \/ Overwritten /\ c # chan

\* Unless msgBuffChan was replaced, the buffered messages of each caller reach
\* the wire in the order of its calls, however the callers interleave and
\* whichever of the buffered methods they use (SendToQueue, SendBuffMsg,
\* StartWriter).
BufferedInOrder ==
  ~Overwritten =>
    \A i, j \in DOMAIN wire :
      /\ {wire[i], wire[j]} \subseteq accepted
      /\ wire[i][1] = wire[j][1] /\ i < j
      => wire[i][2] < wire[j][2]

\* Stop ends the connection's work: once the context is done, Start closes the
\* connection, gives the worker back, and every goroutine of it ends.  A peer
\* that stalls holds up a Write and with it msgLock, so this takes a peer that
\* reads or leaves in the end.  And there are two ways it may not happen even
\* then: a hook panics and ends Start in its recover, or the finalizer, which
\* holds msgLock, waits to hand the heartbeat goroutine its quit, and that one
\* waits for msgLock in SendMsg (Start, finalizer, HeartbeatChecker.Stop).
Stopped == /\ isClosed /\ worker = "returned" /\ rpc = "done" /\ hb # "on"
           /\ \A w \in Channels : wpc[w] \in {"none", "done"}
HeartbeatStuck == mpc = "hbstop" /\ writeLock = "held" /\ spc[Hb] = "rlock"
StopCompletes ==
    <>[](peer # "stalled")
      => (cancelled ~> (Stopped \/ HeartbeatStuck \/ mpc = "dead"))

Life == INSTANCE ConnLife WITH
  phase <- IF ~sockOpen THEN "closed" ELSE IF cancelled THEN "stopping" ELSE "up",
  delivered <- wire

\* A connection is up, then stopping, then closed for good; each message is
\* written at most once and none after the socket is closed (connection.go).
ImplementsLife == Life!Spec
=============================================================================

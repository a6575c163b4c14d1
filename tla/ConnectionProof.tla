--------------------------- MODULE ConnectionProof ---------------------------
(* Proofs about Connection: its type invariant, and what msgLock and the    *)
(* order of the finalizer buy, for any number of callers and calls.  The    *)
(* last part is about WsConnection, whose finalizer gives the lock back at  *)
(* once: what it still buys.                                                *)
EXTENDS WsConnection, SequenceTheorems, TLAPS

\* The finalizer is past the point where it holds, or has held, the lock.
Exclusive == Locked \cup Finished

\* Where Start is determines what the finalizer has done so far.
MainInv ==
  /\ mpc \in {"hbstart", "activity"} => HasHeartbeat
  /\ isClosed <=> mpc \in Finished
  /\ writeLock = "held" <=> mpc \in Locked
  /\ mpc \in {"onstop", "lock", "acquire"} \cup Exclusive => cancelled
  /\ sockOpen <=> mpc \notin {"closechan", "markclosed"} \cup Finished
  /\ ~sockOpen => ~registered
  /\ closedChans # {} => mpc \in {"markclosed"} \cup Finished
  /\ hb = "on" => HasHeartbeat /\ mpc \notin {"close"} /\ sockOpen

\* A sender that passed its isClosed check under the read lock still holds it,
\* and the finalizer cannot have acquired the write lock meanwhile.
Queueing(p) == kind[p] = "SendToQueue"
Admitted(p) == \/ spc[p] = "write"
               \/ Queueing(p) /\ spc[p] \in {"select", "offer"}
SenderInv ==
  /\ readers # {} => writeLock # "held"
  /\ \A p \in Senders :
       /\ Admitted(p) => p \in readers /\ mpc \notin Exclusive
       /\ spc[p] = "check" => p \in readers
       /\ Queueing(p) /\ spc[p] \in {"lazy", "create"} => p \in readers
       /\ spc[p] = "precheck" => kind[p] \in {"SendMsg", "SendBuffMsg"}
       /\ spc[p] \in {"rlock", "check"} => kind[p] # "SendBuffMsg"
       /\ spc[p] = "idle" => kind[p] = "SendMsg"

\* What keeps every access to a channel, and every message, well typed.
ChanInv ==
  /\ kind[Hb] = "SendMsg"
  /\ \A p \in Senders :
       /\ spc[p] \in {"lazy", "create", "select", "offer"}
            => kind[p] \in {"SendToQueue", "SendBuffMsg"}
       /\ spc[p] = "select" => chan # NoChan
       /\ Queueing(p) /\ spc[p] = "check" => chan # NoChan
       /\ spc[p] = "offer" => offerTo[p] # NoChan
  /\ \A p \in Callers : spc[p] # "idle" => calls[p] # 0
  /\ \A w \in Channels :
       /\ wpc[w] # "none" => chan # NoChan
       /\ wpc[w] = "recv" => recvFrom[w] # NoChan
       /\ wpc[w] = "write" => hand[w] # NoMessage

Inv == TypeOK /\ MainInv /\ SenderInv /\ ChanInv

-----------------------------------------------------------------------------
\* A method that returns leaves its caller's state well typed.
LEMMA ReturnTypes ==
  ASSUME SenderTypes, NEW p \in Senders, Return(p)
  PROVE  /\ spc' \in [Senders -> SenderPhases]
         /\ kind' \in [Senders -> AllKinds]
         /\ offerTo' \in [Senders -> Channels \cup {NoChan}]
         /\ readers' \subseteq Senders
BY DEF SenderTypes, Return, AllKinds, SenderPhases

\* A caller inside a method has a message of its own.
LEMMA MessageTyped ==
  ASSUME Inv, NEW p \in Callers, spc[p] # "idle"
  PROVE  Message(p) \in Messages
BY ConnectionAssumption
   DEF Inv, TypeOK, SenderTypes, ChanInv, Message, Messages

\* Every step keeps the types of the variables of Start.
LEMMA MainTypesStep == Inv /\ [Next]_vars => MainTypes'
<1> SUFFICES ASSUME Inv, [Next]_vars PROVE MainTypes'
  OBVIOUS
<1> USE ConnectionAssumption DEF Inv, TypeOK
<1>1. CASE HeartbeatBeat
  <2>1. UNCHANGED <<mpc, connVars, lastActivity, writeLock, rpc, hb, peer>>
    BY <1>1 DEF HeartbeatBeat, OthersOfHeartbeat, connVars, lockVars,
       senderVars, chanVars, writerVars
  <2> QED
    BY <2>1 DEF MainTypes, connVars
<1>2. CASE Start
  BY <1>2 DEF Start, Goto, OthersOfMain, MainTypes, connVars, lockVars,
     senderVars, chanVars, writerVars, MainPhases, Locked, Finished
<1>3. CASE CallOnConnStart
  BY <1>3 DEF CallOnConnStart, Goto, OthersOfMain, MainTypes, connVars,
     lockVars, senderVars, chanVars, writerVars, MainPhases, Locked, Finished
<1>4. CASE HeartbeatStart
  BY <1>4 DEF HeartbeatStart, Goto, MainTypes, connVars, lockVars, senderVars,
     chanVars, writerVars, MainPhases, Locked, Finished
<1>5. CASE UpdateActivity
  BY <1>5 DEF UpdateActivity, Goto, MainTypes, connVars, lockVars, senderVars,
     chanVars, writerVars, MainPhases, Locked, Finished
<1>6. CASE UseWorker
  BY <1>6 DEF UseWorker, Goto, MainTypes, connVars, lockVars, senderVars,
     chanVars, writerVars, MainPhases, Locked, Finished
<1>7. CASE CtxDone
  BY <1>7 DEF CtxDone, Goto, OthersOfMain, MainTypes, connVars, lockVars,
     senderVars, chanVars, writerVars, MainPhases, Locked, Finished
<1>8. CASE CallOnConnStop
  BY <1>8 DEF CallOnConnStop, Goto, OthersOfMain, MainTypes, connVars,
     lockVars, senderVars, chanVars, writerVars, MainPhases, Locked, Finished
<1>9. CASE LockRequest
  BY <1>9 DEF LockRequest, Goto, MainTypes, connVars, lockVars, senderVars,
     chanVars, writerVars, MainPhases, Locked, Finished
<1>10. CASE LockAcquire
  BY <1>10 DEF LockAcquire, MainTypes, connVars, lockVars, senderVars,
     chanVars, writerVars, MainPhases, Locked, Finished
<1>11. CASE HeartbeatStop
  BY <1>11 DEF HeartbeatStop, Goto, MainTypes, connVars, lockVars, senderVars,
     chanVars, writerVars, MainPhases, Locked, Finished
<1>12. CASE CloseSocket
  <2>1. mpc' \in MainPhases
    BY <1>12 DEF CloseSocket, Goto, MainPhases, Locked
  <2>2. sockOpen' \in BOOLEAN /\ registered' \in BOOLEAN
    BY <1>12 DEF CloseSocket
  <2>3. UNCHANGED <<cancelled, isClosed, worker, lastActivity, writeLock, rpc,
                    hb, peer>>
    BY <1>12 DEF CloseSocket, OthersOfMain, lockVars
  <2> QED
    BY <2>1, <2>2, <2>3 DEF MainTypes
<1>13. CASE CloseChan
  BY <1>13 DEF CloseChan, Goto, MainTypes, connVars, lockVars, senderVars,
     chanVars, writerVars, MainPhases, Locked, Finished
<1>14. CASE MarkClosed
  BY <1>14 DEF MarkClosed, Goto, MainTypes, connVars, lockVars, senderVars,
     chanVars, writerVars, MainPhases, Locked, Finished
<1>15. CASE FreeWorker
  BY <1>15 DEF FreeWorker, Goto, OthersOfMain, MainTypes, connVars, lockVars,
     senderVars, chanVars, writerVars, MainPhases, Locked, Finished
<1>16. CASE HookPanics
  BY <1>16 DEF HookPanics, OthersOfMain, MainTypes, connVars, lockVars,
     senderVars, chanVars, writerVars, MainPhases, Locked, Finished
<1>17. CASE Stop
  BY <1>17 DEF Stop, OthersOfMain, MainTypes, connVars, lockVars, senderVars,
     chanVars, writerVars
<1>18. CASE ClearConn
  BY <1>18 DEF ClearConn, OthersOfMain, MainTypes, connVars, lockVars,
     senderVars, chanVars, writerVars
<1>19. CASE ReaderSelect
  BY <1>19 DEF ReaderSelect, OthersOfReader, MainTypes, connVars, lockVars,
     senderVars, chanVars, writerVars
<1>20. CASE ReaderError
  BY <1>20 DEF ReaderError, OthersOfReader, MainTypes, connVars, lockVars,
     senderVars, chanVars, writerVars
<1>21. CASE ReaderExecute
  BY <1>21 DEF ReaderExecute, OthersOfReader, MainTypes, connVars, lockVars,
     senderVars, chanVars, writerVars
<1>22. CASE ReaderStop
  BY <1>22 DEF ReaderStop, OthersOfReader, MainTypes, connVars, lockVars,
     senderVars, chanVars, writerVars
<1>23. CASE ReaderData
  BY <1>23 DEF ReaderData, OthersOfReader, MainTypes, connVars, lockVars,
     senderVars, chanVars, writerVars
<1>24. CASE HeartbeatNotAlive
  BY <1>24 DEF HeartbeatNotAlive, OthersOfHeartbeat, MainTypes, connVars,
     lockVars, senderVars, chanVars, writerVars
<1>25. CASE PeerStalls
  BY <1>25 DEF PeerStalls, NonPeer, MainTypes, connVars, lockVars, senderVars,
     chanVars, writerVars
<1>26. CASE PeerResumes
  BY <1>26 DEF PeerResumes, NonPeer, MainTypes, connVars, lockVars,
     senderVars, chanVars, writerVars
<1>27. CASE PeerLeaves
  BY <1>27 DEF PeerLeaves, NonPeer, MainTypes, connVars, lockVars, senderVars,
     chanVars, writerVars
<1>28. CASE TimePasses
  BY <1>28 DEF TimePasses, MainTypes, connVars, lockVars, senderVars,
     chanVars, writerVars
<1>29. ASSUME NEW p \in Callers, NEW k \in Kinds, Call(p, k)
       PROVE  MainTypes'
  <2>1. UNCHANGED <<mpc, connVars, lastActivity, writeLock, rpc, hb, peer>>
    BY <1>29 DEF Call, At, NonSender, connVars, lockVars, senderVars,
       chanVars, writerVars
  <2> QED
    BY <2>1 DEF MainTypes, connVars
<1>30. ASSUME NEW p \in Senders, SenderStep(p)
       PROVE  MainTypes'
  <2>1. UNCHANGED <<mpc, connVars, lastActivity, writeLock, rpc, hb, peer>>
    BY <1>30 DEF SenderStep, PreCheck, NonSender, Return, RLock, At, TestChan,
       AfterLazy, MakeChan, Check, Write, Message, EnterSelect, Offer,
       OfferPanics, OfferTimeout, connVars, lockVars, senderVars, chanVars,
       writerVars
  <2> QED
    BY <2>1 DEF MainTypes, connVars
<1>31. ASSUME NEW w \in Channels, WriterStep(w)
       PROVE  MainTypes'
  <2>1. UNCHANGED <<mpc, connVars, lastActivity, writeLock, rpc, hb, peer>>
    BY <1>31 DEF WriterStep, WriterSelect, NonWriter, WriterReceive,
       LeaveSelect, WriterClosed, WriterDone, WriterWrite, connVars, lockVars,
       senderVars, chanVars, writerVars
  <2> QED
    BY <2>1 DEF MainTypes, connVars
<1>32. CASE UNCHANGED vars
  BY <1>32 DEF vars, MainTypes, connVars, lockVars, senderVars, chanVars,
     writerVars
<1> QED
  BY <1>1, <1>2, <1>3, <1>4, <1>5, <1>6, <1>7, <1>8, <1>9, <1>10, <1>11,
     <1>12, <1>13, <1>14, <1>15, <1>16, <1>17, <1>18, <1>19, <1>20, <1>21,
     <1>22, <1>23, <1>24, <1>25, <1>26, <1>27, <1>28, <1>29, <1>30, <1>31,
     <1>32 DEF Next, Main, Reader

\* Every step keeps the types of the senders.
LEMMA SenderTypesStep == Inv /\ [Next]_vars => SenderTypes'
<1> SUFFICES ASSUME Inv, [Next]_vars PROVE SenderTypes'
  OBVIOUS
<1> USE ConnectionAssumption DEF Inv, TypeOK
<1>1. CASE Start \/ CallOnConnStart \/ HeartbeatStart \/ UpdateActivity \/ UseWorker \/
          CtxDone \/ CallOnConnStop \/ LockRequest \/ LockAcquire \/
          HeartbeatStop \/ CloseSocket \/ CloseChan \/ MarkClosed \/
          FreeWorker \/ HookPanics \/ Stop \/ ClearConn \/ ReaderSelect \/
          ReaderError \/ ReaderExecute \/ ReaderStop \/ ReaderData \/
          HeartbeatNotAlive \/ PeerStalls \/ PeerResumes \/ PeerLeaves \/
          TimePasses
  <2>1. UNCHANGED <<readers, senderVars>>
    BY <1>1 DEF Start, Goto, OthersOfMain, CallOnConnStart, HeartbeatStart,
       UpdateActivity, UseWorker, CtxDone, CallOnConnStop, LockRequest,
       LockAcquire, HeartbeatStop, CloseSocket, CloseChan, MarkClosed,
       FreeWorker, HookPanics, Stop, ClearConn, ReaderSelect, OthersOfReader,
       ReaderError, ReaderExecute, ReaderStop, ReaderData, HeartbeatNotAlive,
       OthersOfHeartbeat, PeerStalls, NonPeer, PeerResumes, PeerLeaves,
       TimePasses, connVars, lockVars, senderVars, chanVars, writerVars
  <2> QED
    BY <2>1 DEF SenderTypes, senderVars
<1>2. CASE HeartbeatBeat
  BY <1>2 DEF HeartbeatBeat, OthersOfHeartbeat, SenderTypes, connVars,
     lockVars, senderVars, chanVars, writerVars, SenderPhases, Senders
<1>3. ASSUME NEW p \in Callers, NEW k \in Kinds, Call(p, k)
       PROVE  SenderTypes'
  BY <1>3 DEF Call, At, NonSender, SenderTypes, connVars, lockVars,
     senderVars, chanVars, writerVars, SenderPhases, Senders
<1>4. ASSUME NEW p \in Senders, SenderStep(p)
       PROVE  SenderTypes'
  <2>1. CASE PreCheck(p)
    <3>1. CASE isClosed
      BY <2>1, <3>1, ReturnTypes DEF PreCheck, NonSender, SenderTypes,
         connVars, lockVars, senderVars, chanVars, writerVars, SenderPhases
    <3>2. CASE ~isClosed
      BY <2>1, <3>2 DEF PreCheck, NonSender, SenderTypes, connVars, lockVars,
         senderVars, chanVars, writerVars, SenderPhases
    <3> QED BY <3>1, <3>2
  <2>2. CASE RLock(p)
    BY <2>2 DEF RLock, NonSender, At, SenderTypes, connVars, lockVars,
       senderVars, chanVars, writerVars, SenderPhases
  <2>3. CASE TestChan(p)
    BY <2>3 DEF TestChan, NonSender, At, AfterLazy, SenderTypes, connVars,
       lockVars, senderVars, chanVars, writerVars, SenderPhases
  <2>4. CASE MakeChan(p)
    BY <2>4 DEF MakeChan, NonSender, At, AfterLazy, SenderTypes, connVars,
       lockVars, senderVars, chanVars, writerVars, SenderPhases
  <2>5. CASE Check(p)
    <3>1. CASE isClosed
      BY <2>5, <3>1, ReturnTypes DEF Check, NonSender, SenderTypes, connVars,
         lockVars, senderVars, chanVars, writerVars, SenderPhases
    <3>2. CASE ~isClosed
      BY <2>5, <3>2 DEF Check, NonSender, SenderTypes, connVars, lockVars,
         senderVars, chanVars, writerVars, SenderPhases
    <3> QED BY <3>1, <3>2
  <2>6. CASE Write(p)
    BY <2>6, ReturnTypes DEF Write, NonSender, Message, SenderTypes, connVars,
       lockVars, senderVars, chanVars, writerVars, SenderPhases
  <2>7. CASE EnterSelect(p)
    BY <2>7 DEF EnterSelect, NonSender, At, SenderTypes, connVars, lockVars,
       senderVars, chanVars, writerVars, SenderPhases, ChanTypes
  <2>8. CASE Offer(p)
    BY <2>8, ReturnTypes DEF Offer, NonSender, Message, SenderTypes, connVars,
       lockVars, senderVars, chanVars, writerVars, ChanInv, Senders,
       SenderPhases, Messages
  <2>9. CASE OfferPanics(p)
    BY <2>9, ReturnTypes DEF OfferPanics, NonSender, SenderTypes, connVars,
       lockVars, senderVars, chanVars, writerVars, ChanInv, Senders,
       SenderPhases
  <2>10. CASE OfferTimeout(p)
    BY <2>10, ReturnTypes DEF OfferTimeout, NonSender, SenderTypes, connVars,
       lockVars, senderVars, chanVars, writerVars, SenderPhases
  <2> QED
    BY <1>4, <2>1, <2>2, <2>3, <2>4, <2>5, <2>6, <2>7, <2>8, <2>9, <2>10 DEF
       SenderStep
<1>5. ASSUME NEW w \in Channels, WriterStep(w)
       PROVE  SenderTypes'
  <2>1. UNCHANGED <<readers, senderVars>>
    BY <1>5 DEF WriterStep, WriterSelect, NonWriter, WriterReceive,
       LeaveSelect, WriterClosed, WriterDone, WriterWrite, connVars, lockVars,
       senderVars, chanVars, writerVars
  <2> QED
    BY <2>1 DEF SenderTypes, senderVars
<1>6. CASE UNCHANGED vars
  BY <1>6 DEF vars, SenderTypes, connVars, lockVars, senderVars, chanVars,
     writerVars
<1> QED
  BY <1>1, <1>2, <1>3, <1>4, <1>5, <1>6 DEF Next, Main, Reader

\* Every step keeps the types of channels, writers and wire.
LEMMA ChanTypesStep == Inv /\ [Next]_vars => ChanTypes'
<1> SUFFICES ASSUME Inv, [Next]_vars PROVE ChanTypes'
  OBVIOUS
<1> USE ConnectionAssumption DEF Inv, TypeOK
<1>1. CASE Start \/ CallOnConnStart \/ HeartbeatStart \/ UpdateActivity \/ UseWorker \/
          CtxDone \/ CallOnConnStop \/ LockRequest \/ LockAcquire \/
          HeartbeatStop \/ CloseSocket \/ MarkClosed \/ FreeWorker \/
          HookPanics \/ Stop \/ ClearConn \/ ReaderSelect \/ ReaderError \/
          ReaderExecute \/ ReaderStop \/ ReaderData \/ HeartbeatBeat \/
          HeartbeatNotAlive \/ PeerStalls \/ PeerResumes \/ PeerLeaves \/
          TimePasses
  <2>1. UNCHANGED <<chanVars, writerVars, wire>>
    BY <1>1 DEF Start, Goto, OthersOfMain, CallOnConnStart, HeartbeatStart,
       UpdateActivity, UseWorker, CtxDone, CallOnConnStop, LockRequest,
       LockAcquire, HeartbeatStop, CloseSocket, MarkClosed, FreeWorker,
       HookPanics, Stop, ClearConn, ReaderSelect, OthersOfReader, ReaderError,
       ReaderExecute, ReaderStop, ReaderData, HeartbeatBeat,
       OthersOfHeartbeat, HeartbeatNotAlive, PeerStalls, NonPeer, PeerResumes,
       PeerLeaves, TimePasses, connVars, lockVars, senderVars, chanVars,
       writerVars
  <2> QED
    BY <2>1 DEF ChanTypes, chanVars, writerVars
<1>2. CASE CloseChan
  BY <1>2 DEF CloseChan, Goto, ChanTypes, connVars, lockVars, senderVars,
     chanVars, writerVars
<1>3. ASSUME NEW p \in Callers, NEW k \in Kinds, Call(p, k)
       PROVE  ChanTypes'
  <2>1. UNCHANGED <<chanVars, writerVars, wire>>
    BY <1>3 DEF Call, At, NonSender, connVars, lockVars, senderVars, chanVars,
       writerVars
  <2> QED
    BY <2>1 DEF ChanTypes, chanVars, writerVars
<1>4. ASSUME NEW p \in Senders, SenderStep(p)
       PROVE  ChanTypes'
  <2>1. CASE PreCheck(p) \/ RLock(p) \/ TestChan(p) \/ Check(p) \/ EnterSelect(p) \/
              OfferPanics(p) \/ OfferTimeout(p)
    <3>1. UNCHANGED <<chanVars, writerVars, wire>>
      BY <2>1 DEF PreCheck, NonSender, Return, RLock, At, TestChan, AfterLazy,
         Check, EnterSelect, OfferPanics, OfferTimeout, connVars, lockVars,
         senderVars, chanVars, writerVars
    <3> QED
      BY <3>1 DEF ChanTypes, chanVars, writerVars
  <2>2. CASE MakeChan(p)
    BY <2>2 DEF MakeChan, NonSender, At, AfterLazy, ChanTypes, connVars,
       lockVars, senderVars, chanVars, writerVars, ChanInv, Senders, Channels
  <2>3. CASE Write(p)
    <3>1. wire' \in Seq(Messages)
      <4>1. CASE p = Hb
        BY <2>3, <4>1 DEF Write, ChanTypes
      <4>2. CASE p # Hb
        <5>1. Message(p) \in Messages
          BY <2>3, <4>2, MessageTyped DEF Write, Senders
        <5>2. Append(wire, Message(p)) \in Seq(Messages)
          BY <5>1, AppendProperties DEF ChanTypes
        <5> QED
          BY <2>3, <4>2, <5>2 DEF Write, ChanTypes
      <4> QED
        BY <4>1, <4>2
    <3>2. UNCHANGED <<chanVars, writerVars>>
      BY <2>3 DEF Write
    <3> QED
      BY <3>1, <3>2 DEF ChanTypes, chanVars, writerVars
  <2>4. CASE Offer(p)
    <3>1. p \in Callers
      BY <2>4 DEF Offer, ChanInv, Senders
    <3>2. Message(p) \in Messages
      BY <2>4, <3>1, MessageTyped DEF Offer
    <3>3. buf' \in [Channels -> Seq(Messages)]
      <4>1. \A c \in Channels : Append(buf[c], Message(p)) \in Seq(Messages)
        BY <3>2, AppendProperties DEF ChanTypes
      <4> QED
        BY <2>4, <4>1 DEF Offer, ChanTypes
    <3>4. UNCHANGED <<chan, closedChans, writerVars, wire>>
      BY <2>4 DEF Offer
    <3> QED
      BY <3>3, <3>4 DEF ChanTypes, writerVars
  <2> QED
    BY <1>4, <2>1, <2>2, <2>3, <2>4 DEF SenderStep
<1>5. ASSUME NEW w \in Channels, WriterStep(w)
       PROVE  ChanTypes'
  <2>1. CASE WriterSelect(w)
    BY <2>1 DEF WriterSelect, NonWriter, ChanTypes, connVars, lockVars,
       senderVars, chanVars, writerVars
  <2>2. CASE WriterReceive(w)
    BY <2>2 DEF WriterReceive, NonWriter, LeaveSelect, ChanTypes, connVars,
       lockVars, senderVars, chanVars, writerVars, ChanInv, Channels
  <2>3. CASE WriterClosed(w)
    BY <2>3 DEF WriterClosed, NonWriter, LeaveSelect, ChanTypes, connVars,
       lockVars, senderVars, chanVars, writerVars
  <2>4. CASE WriterDone(w)
    BY <2>4 DEF WriterDone, NonWriter, LeaveSelect, ChanTypes, connVars,
       lockVars, senderVars, chanVars, writerVars
  <2>5. CASE WriterWrite(w)
    <3>1. hand[w] \in Messages
      BY <2>5 DEF WriterWrite, ChanTypes, ChanInv
    <3>2. wire' \in Seq(Messages)
      <4>1. Append(wire, hand[w]) \in Seq(Messages)
        BY <3>1, AppendProperties DEF ChanTypes
      <4> QED
        BY <2>5, <4>1 DEF WriterWrite, ChanTypes
    <3>3. wpc' \in [Channels -> {"none", "select", "recv", "write", "done"}]
      BY <2>5 DEF WriterWrite, ChanTypes
    <3>4. hand' \in [Channels -> Messages \cup {NoMessage}]
      BY <2>5 DEF WriterWrite, ChanTypes
    <3>5. UNCHANGED <<chan, buf, closedChans, recvFrom>>
      BY <2>5 DEF WriterWrite, NonWriter
    <3> QED
      BY <3>2, <3>3, <3>4, <3>5 DEF ChanTypes
  <2> QED
    BY <1>5, <2>1, <2>2, <2>3, <2>4, <2>5 DEF WriterStep
<1>6. CASE UNCHANGED vars
  BY <1>6 DEF vars, ChanTypes, connVars, lockVars, senderVars, chanVars,
     writerVars
<1> QED
  BY <1>1, <1>2, <1>3, <1>4, <1>5, <1>6 DEF Next, Main, Reader

\* Every step keeps Start and its effects together.
LEMMA MainInvStep == Inv /\ [Next]_vars => MainInv'
<1> SUFFICES ASSUME Inv, [Next]_vars PROVE MainInv'
  OBVIOUS
<1> USE ConnectionAssumption DEF Inv, TypeOK
<1>1. CASE ReaderSelect \/ ReaderError \/ ReaderExecute \/ ReaderData \/ HeartbeatBeat \/
          PeerStalls \/ PeerResumes \/ PeerLeaves \/ TimePasses
  <2>1. UNCHANGED <<mpc, connVars, writeLock, closedChans, hb>>
    BY <1>1 DEF ReaderSelect, OthersOfReader, ReaderError, ReaderExecute,
       ReaderData, HeartbeatBeat, OthersOfHeartbeat, PeerStalls, NonPeer,
       PeerResumes, PeerLeaves, TimePasses, connVars, lockVars, senderVars,
       chanVars, writerVars
  <2> QED
    BY <2>1 DEF MainInv, Exclusive, Locked, Finished, MainTypes, connVars
<1>2. CASE Start
  BY <1>2 DEF Start, Goto, OthersOfMain, MainInv, Exclusive, Locked, Finished,
     MainTypes, connVars, lockVars, senderVars, chanVars, writerVars
<1>3. CASE CallOnConnStart
  BY <1>3 DEF CallOnConnStart, Goto, OthersOfMain, MainInv, Exclusive, Locked,
     Finished, MainTypes, connVars, lockVars, senderVars, chanVars, writerVars
<1>4. CASE HeartbeatStart
  BY <1>4 DEF HeartbeatStart, Goto, MainInv, Exclusive, Locked, Finished,
     MainTypes, connVars, lockVars, senderVars, chanVars, writerVars
<1>5. CASE UpdateActivity
  BY <1>5 DEF UpdateActivity, Goto, MainInv, Exclusive, Locked, Finished,
     MainTypes, connVars, lockVars, senderVars, chanVars, writerVars
<1>6. CASE UseWorker
  BY <1>6 DEF UseWorker, Goto, MainInv, Exclusive, Locked, Finished,
     MainTypes, connVars, lockVars, senderVars, chanVars, writerVars
<1>7. CASE CtxDone
  BY <1>7 DEF CtxDone, Goto, OthersOfMain, MainInv, Exclusive, Locked,
     Finished, MainTypes, connVars, lockVars, senderVars, chanVars, writerVars
<1>8. CASE CallOnConnStop
  BY <1>8 DEF CallOnConnStop, Goto, OthersOfMain, MainInv, Exclusive, Locked,
     Finished, MainTypes, connVars, lockVars, senderVars, chanVars, writerVars
<1>9. CASE LockRequest
  BY <1>9 DEF LockRequest, Goto, MainInv, Exclusive, Locked, Finished,
     MainTypes, connVars, lockVars, senderVars, chanVars, writerVars
<1>10. CASE LockAcquire
  BY <1>10 DEF LockAcquire, MainInv, Exclusive, Locked, Finished, MainTypes,
     connVars, lockVars, senderVars, chanVars, writerVars
<1>11. CASE HeartbeatStop
  BY <1>11 DEF HeartbeatStop, Goto, MainInv, Exclusive, Locked, Finished,
     MainTypes, connVars, lockVars, senderVars, chanVars, writerVars
<1>12. CASE CloseSocket
  BY <1>12 DEF CloseSocket, Goto, OthersOfMain, MainInv, Exclusive, Locked,
     Finished, MainTypes, connVars, lockVars, senderVars, chanVars, writerVars
<1>13. CASE CloseChan
  BY <1>13 DEF CloseChan, Goto, MainInv, Exclusive, Locked, Finished,
     MainTypes, connVars, lockVars, senderVars, chanVars, writerVars
<1>14. CASE MarkClosed
  BY <1>14 DEF MarkClosed, Goto, MainInv, Exclusive, Locked, Finished,
     MainTypes, connVars, lockVars, senderVars, chanVars, writerVars
<1>15. CASE FreeWorker
  BY <1>15 DEF FreeWorker, Goto, OthersOfMain, MainInv, Exclusive, Locked,
     Finished, MainTypes, connVars, lockVars, senderVars, chanVars, writerVars
<1>16. CASE HookPanics
  BY <1>16 DEF HookPanics, OthersOfMain, MainInv, Exclusive, Locked, Finished,
     MainTypes, connVars, lockVars, senderVars, chanVars, writerVars
<1>17. CASE Stop
  BY <1>17 DEF Stop, OthersOfMain, MainInv, Exclusive, Locked, Finished,
     MainTypes, connVars, lockVars, senderVars, chanVars, writerVars
<1>18. CASE ClearConn
  BY <1>18 DEF ClearConn, OthersOfMain, MainInv, Exclusive, Locked, Finished,
     MainTypes, connVars, lockVars, senderVars, chanVars, writerVars
<1>19. CASE ReaderStop
  BY <1>19 DEF ReaderStop, OthersOfReader, MainInv, Exclusive, Locked,
     Finished, MainTypes, connVars, lockVars, senderVars, chanVars, writerVars
<1>20. CASE HeartbeatNotAlive
  BY <1>20 DEF HeartbeatNotAlive, OthersOfHeartbeat, MainInv, Exclusive,
     Locked, Finished, MainTypes, connVars, lockVars, senderVars, chanVars,
     writerVars
<1>21. ASSUME NEW p \in Callers, NEW k \in Kinds, Call(p, k)
       PROVE  MainInv'
  <2>1. UNCHANGED <<mpc, connVars, writeLock, closedChans, hb>>
    BY <1>21 DEF Call, At, NonSender, connVars, lockVars, senderVars,
       chanVars, writerVars
  <2> QED
    BY <2>1 DEF MainInv, Exclusive, Locked, Finished, MainTypes, connVars
<1>22. ASSUME NEW p \in Senders, SenderStep(p)
       PROVE  MainInv'
  <2>1. UNCHANGED <<mpc, connVars, writeLock, closedChans, hb>>
    BY <1>22 DEF SenderStep, PreCheck, NonSender, Return, RLock, At, TestChan,
       AfterLazy, MakeChan, Check, Write, Message, EnterSelect, Offer,
       OfferPanics, OfferTimeout, connVars, lockVars, senderVars, chanVars,
       writerVars
  <2> QED
    BY <2>1 DEF MainInv, Exclusive, Locked, Finished, MainTypes, connVars
<1>23. ASSUME NEW w \in Channels, WriterStep(w)
       PROVE  MainInv'
  <2>1. UNCHANGED <<mpc, connVars, writeLock, closedChans, hb>>
    BY <1>23 DEF WriterStep, WriterSelect, NonWriter, WriterReceive,
       LeaveSelect, WriterClosed, WriterDone, WriterWrite, connVars, lockVars,
       senderVars, chanVars, writerVars
  <2> QED
    BY <2>1 DEF MainInv, Exclusive, Locked, Finished, MainTypes, connVars
<1>24. CASE UNCHANGED vars
  BY <1>24 DEF vars, MainInv, Exclusive, Locked, Finished, MainTypes,
     connVars, lockVars, senderVars, chanVars, writerVars
<1> QED
  BY <1>1, <1>2, <1>3, <1>4, <1>5, <1>6, <1>7, <1>8, <1>9, <1>10, <1>11,
     <1>12, <1>13, <1>14, <1>15, <1>16, <1>17, <1>18, <1>19, <1>20, <1>21,
     <1>22, <1>23, <1>24 DEF Next, Main, Reader

\* Every step keeps the discipline of the read lock.
LEMMA SenderInvStep == Inv /\ [Next]_vars => SenderInv'
<1> SUFFICES ASSUME Inv, [Next]_vars PROVE SenderInv'
  OBVIOUS
<1> USE ConnectionAssumption DEF Inv, TypeOK
<1>1. CASE Stop \/ ClearConn \/ ReaderSelect \/ ReaderError \/ ReaderExecute \/
          ReaderStop \/ ReaderData \/ HeartbeatNotAlive \/ PeerStalls \/
          PeerResumes \/ PeerLeaves \/ TimePasses
  <2>1. UNCHANGED <<mpc, isClosed, writeLock, readers, spc, kind>>
    BY <1>1 DEF Stop, OthersOfMain, ClearConn, ReaderSelect, OthersOfReader,
       ReaderError, ReaderExecute, ReaderStop, ReaderData, HeartbeatNotAlive,
       OthersOfHeartbeat, PeerStalls, NonPeer, PeerResumes, PeerLeaves,
       TimePasses, connVars, lockVars, senderVars, chanVars, writerVars
  <2> QED
    BY <2>1 DEF SenderInv, Admitted, Queueing
<1>2. CASE Start
  BY <1>2 DEF Start, Goto, OthersOfMain, SenderInv, Admitted, Queueing,
     connVars, lockVars, senderVars, chanVars, writerVars, MainInv, Exclusive,
     Locked, Finished, MainTypes, SenderTypes
<1>3. CASE CallOnConnStart
  BY <1>3 DEF CallOnConnStart, Goto, OthersOfMain, SenderInv, Admitted,
     Queueing, connVars, lockVars, senderVars, chanVars, writerVars, MainInv,
     Exclusive, Locked, Finished, MainTypes, SenderTypes
<1>4. CASE HeartbeatStart
  BY <1>4 DEF HeartbeatStart, Goto, SenderInv, Admitted, Queueing, connVars,
     lockVars, senderVars, chanVars, writerVars, MainInv, Exclusive, Locked,
     Finished, MainTypes, SenderTypes
<1>5. CASE UpdateActivity
  BY <1>5 DEF UpdateActivity, Goto, SenderInv, Admitted, Queueing, connVars,
     lockVars, senderVars, chanVars, writerVars, MainInv, Exclusive, Locked,
     Finished, MainTypes, SenderTypes
<1>6. CASE UseWorker
  BY <1>6 DEF UseWorker, Goto, SenderInv, Admitted, Queueing, connVars,
     lockVars, senderVars, chanVars, writerVars, MainInv, Exclusive, Locked,
     Finished, MainTypes, SenderTypes
<1>7. CASE CtxDone
  BY <1>7 DEF CtxDone, Goto, OthersOfMain, SenderInv, Admitted, Queueing,
     connVars, lockVars, senderVars, chanVars, writerVars, MainInv, Exclusive,
     Locked, Finished, MainTypes, SenderTypes
<1>8. CASE CallOnConnStop
  BY <1>8 DEF CallOnConnStop, Goto, OthersOfMain, SenderInv, Admitted,
     Queueing, connVars, lockVars, senderVars, chanVars, writerVars, MainInv,
     Exclusive, Locked, Finished, MainTypes, SenderTypes
<1>9. CASE LockRequest
  BY <1>9 DEF LockRequest, Goto, SenderInv, Admitted, Queueing, connVars,
     lockVars, senderVars, chanVars, writerVars, MainInv, Exclusive, Locked,
     Finished, MainTypes, SenderTypes
<1>10. CASE LockAcquire
  BY <1>10 DEF LockAcquire, SenderInv, Admitted, Queueing, connVars, lockVars,
     senderVars, chanVars, writerVars, MainInv, Exclusive, Locked, Finished,
     MainTypes, SenderTypes
<1>11. CASE HeartbeatStop
  BY <1>11 DEF HeartbeatStop, Goto, SenderInv, Admitted, Queueing, connVars,
     lockVars, senderVars, chanVars, writerVars, MainInv, Exclusive, Locked,
     Finished, MainTypes, SenderTypes
<1>12. CASE CloseSocket
  BY <1>12 DEF CloseSocket, Goto, OthersOfMain, SenderInv, Admitted, Queueing,
     connVars, lockVars, senderVars, chanVars, writerVars, MainInv, Exclusive,
     Locked, Finished, MainTypes, SenderTypes
<1>13. CASE CloseChan
  BY <1>13 DEF CloseChan, Goto, SenderInv, Admitted, Queueing, connVars,
     lockVars, senderVars, chanVars, writerVars, MainInv, Exclusive, Locked,
     Finished, MainTypes, SenderTypes
<1>14. CASE MarkClosed
  BY <1>14 DEF MarkClosed, Goto, SenderInv, Admitted, Queueing, connVars,
     lockVars, senderVars, chanVars, writerVars, MainInv, Exclusive, Locked,
     Finished, MainTypes, SenderTypes
<1>15. CASE FreeWorker
  BY <1>15 DEF FreeWorker, Goto, OthersOfMain, SenderInv, Admitted, Queueing,
     connVars, lockVars, senderVars, chanVars, writerVars, MainInv, Exclusive,
     Locked, Finished, MainTypes, SenderTypes
<1>16. CASE HookPanics
  BY <1>16 DEF HookPanics, OthersOfMain, SenderInv, Admitted, Queueing,
     connVars, lockVars, senderVars, chanVars, writerVars, MainInv, Exclusive,
     Locked, Finished, MainTypes, SenderTypes
<1>17. CASE HeartbeatBeat
  BY <1>17 DEF HeartbeatBeat, OthersOfHeartbeat, SenderInv, Admitted,
     Queueing, connVars, lockVars, senderVars, chanVars, writerVars, MainInv,
     Exclusive, Locked, Finished, MainTypes, SenderTypes, ChanInv, Senders
<1>18. ASSUME NEW p \in Callers, NEW k \in Kinds, Call(p, k)
       PROVE  SenderInv'
  BY <1>18 DEF Call, At, NonSender, SenderInv, Admitted, Queueing, connVars,
     lockVars, senderVars, chanVars, writerVars, MainInv, Exclusive, Locked,
     Finished, MainTypes, SenderTypes, Senders, AllKinds
<1>19. ASSUME NEW p \in Senders, SenderStep(p)
       PROVE  SenderInv'
  <2>1. CASE PreCheck(p)
    <3>1. CASE isClosed
      BY <2>1, <3>1 DEF PreCheck, NonSender, Return, SenderInv, Admitted,
         Queueing, connVars, lockVars, senderVars, chanVars, writerVars,
         MainInv, Exclusive, Locked, Finished, MainTypes, SenderTypes
    <3>2. CASE ~isClosed
      BY <2>1, <3>2 DEF PreCheck, NonSender, SenderInv, Admitted, Queueing,
         connVars, lockVars, senderVars, chanVars, writerVars, MainInv,
         Exclusive, Locked, Finished, MainTypes, SenderTypes
    <3> QED BY <3>1, <3>2
  <2>2. CASE RLock(p)
    BY <2>2 DEF RLock, NonSender, At, SenderInv, Admitted, Queueing, connVars,
       lockVars, senderVars, chanVars, writerVars, MainInv, Exclusive, Locked,
       Finished, MainTypes, SenderTypes
  <2>3. CASE TestChan(p)
    BY <2>3 DEF TestChan, NonSender, At, AfterLazy, SenderInv, Admitted,
       Queueing, connVars, lockVars, senderVars, chanVars, writerVars,
       MainInv, Exclusive, Locked, Finished, MainTypes, SenderTypes
  <2>4. CASE MakeChan(p)
    BY <2>4 DEF MakeChan, NonSender, At, AfterLazy, SenderInv, Admitted,
       Queueing, connVars, lockVars, senderVars, chanVars, writerVars,
       MainInv, Exclusive, Locked, Finished, MainTypes, SenderTypes
  <2>5. CASE Check(p)
    <3>1. CASE isClosed
      BY <2>5, <3>1 DEF Check, NonSender, Return, SenderInv, Admitted,
         Queueing, connVars, lockVars, senderVars, chanVars, writerVars,
         MainInv, Exclusive, Locked, Finished, MainTypes, SenderTypes
    <3>2. CASE ~isClosed
      BY <2>5, <3>2 DEF Check, NonSender, SenderInv, Admitted, Queueing,
         connVars, lockVars, senderVars, chanVars, writerVars, MainInv,
         Exclusive, Locked, Finished, MainTypes, SenderTypes
    <3> QED BY <3>1, <3>2
  <2>6. CASE Write(p)
    BY <2>6 DEF Write, NonSender, Return, Message, SenderInv, Admitted,
       Queueing, connVars, lockVars, senderVars, chanVars, writerVars,
       MainInv, Exclusive, Locked, Finished, MainTypes, SenderTypes
  <2>7. CASE EnterSelect(p)
    BY <2>7 DEF EnterSelect, NonSender, At, SenderInv, Admitted, Queueing,
       connVars, lockVars, senderVars, chanVars, writerVars, MainInv,
       Exclusive, Locked, Finished, MainTypes, SenderTypes
  <2>8. CASE Offer(p)
    BY <2>8 DEF Offer, NonSender, Return, Message, SenderInv, Admitted,
       Queueing, connVars, lockVars, senderVars, chanVars, writerVars,
       MainInv, Exclusive, Locked, Finished, MainTypes, SenderTypes
  <2>9. CASE OfferPanics(p)
    BY <2>9 DEF OfferPanics, NonSender, Return, SenderInv, Admitted, Queueing,
       connVars, lockVars, senderVars, chanVars, writerVars, MainInv,
       Exclusive, Locked, Finished, MainTypes, SenderTypes
  <2>10. CASE OfferTimeout(p)
    BY <2>10 DEF OfferTimeout, NonSender, Return, SenderInv, Admitted,
       Queueing, connVars, lockVars, senderVars, chanVars, writerVars,
       MainInv, Exclusive, Locked, Finished, MainTypes, SenderTypes
  <2> QED
    BY <1>19, <2>1, <2>2, <2>3, <2>4, <2>5, <2>6, <2>7, <2>8, <2>9, <2>10 DEF
       SenderStep
<1>20. ASSUME NEW w \in Channels, WriterStep(w)
       PROVE  SenderInv'
  <2>1. UNCHANGED <<mpc, isClosed, writeLock, readers, spc, kind>>
    BY <1>20 DEF WriterStep, WriterSelect, NonWriter, WriterReceive,
       LeaveSelect, WriterClosed, WriterDone, WriterWrite, connVars, lockVars,
       senderVars, chanVars, writerVars
  <2> QED
    BY <2>1 DEF SenderInv, Admitted, Queueing
<1>21. CASE UNCHANGED vars
  BY <1>21 DEF vars, SenderInv, Admitted, Queueing, connVars, lockVars,
     senderVars, chanVars, writerVars
<1> QED
  BY <1>1, <1>2, <1>3, <1>4, <1>5, <1>6, <1>7, <1>8, <1>9, <1>10, <1>11,
     <1>12, <1>13, <1>14, <1>15, <1>16, <1>17, <1>18, <1>19, <1>20, <1>21 DEF
     Next, Main, Reader

\* A method that returns leaves the channels of the others known.
LEMMA ReturnChanInv ==
  ASSUME Inv, NEW p \in Senders, Return(p),
         UNCHANGED <<calls, chan, wpc, recvFrom, hand>>
  PROVE  ChanInv'
BY DEF Inv, TypeOK, SenderTypes, ChanInv, Return, Queueing, Senders

\* Every step keeps the channels of senders and writers known.
LEMMA ChanInvStep == Inv /\ [Next]_vars => ChanInv'
<1> SUFFICES ASSUME Inv, [Next]_vars PROVE ChanInv'
  OBVIOUS
<1> USE ConnectionAssumption DEF Inv, TypeOK
<1>1. CASE Start \/ CallOnConnStart \/ HeartbeatStart \/ UpdateActivity \/ UseWorker \/
          CtxDone \/ CallOnConnStop \/ LockRequest \/ LockAcquire \/
          HeartbeatStop \/ CloseSocket \/ CloseChan \/ MarkClosed \/
          FreeWorker \/ HookPanics \/ Stop \/ ClearConn \/ ReaderSelect \/
          ReaderError \/ ReaderExecute \/ ReaderStop \/ ReaderData \/
          HeartbeatNotAlive \/ PeerStalls \/ PeerResumes \/ PeerLeaves \/
          TimePasses
  <2>1. UNCHANGED <<spc, kind, offerTo, calls, chan, wpc, recvFrom, hand>>
    BY <1>1 DEF Start, Goto, OthersOfMain, CallOnConnStart, HeartbeatStart,
       UpdateActivity, UseWorker, CtxDone, CallOnConnStop, LockRequest,
       LockAcquire, HeartbeatStop, CloseSocket, CloseChan, MarkClosed,
       FreeWorker, HookPanics, Stop, ClearConn, ReaderSelect, OthersOfReader,
       ReaderError, ReaderExecute, ReaderStop, ReaderData, HeartbeatNotAlive,
       OthersOfHeartbeat, PeerStalls, NonPeer, PeerResumes, PeerLeaves,
       TimePasses, connVars, lockVars, senderVars, chanVars, writerVars
  <2> QED
    BY <2>1 DEF ChanInv, Queueing
<1>2. CASE HeartbeatBeat
  BY <1>2 DEF HeartbeatBeat, OthersOfHeartbeat, ChanInv, Queueing, connVars,
     lockVars, senderVars, chanVars, writerVars, SenderInv, SenderTypes,
     ChanTypes, Senders, Channels, AllKinds
<1>3. ASSUME NEW p \in Callers, NEW k \in Kinds, Call(p, k)
       PROVE  ChanInv'
  BY <1>3 DEF Call, At, NonSender, ChanInv, Queueing, connVars, lockVars,
     senderVars, chanVars, writerVars, SenderInv, SenderTypes, ChanTypes,
     Senders, Channels, AllKinds
<1>4. ASSUME NEW p \in Senders, SenderStep(p)
       PROVE  ChanInv'
  <2>1. CASE PreCheck(p)
    <3>1. CASE isClosed
      BY <2>1, <3>1, ReturnChanInv DEF PreCheck, NonSender, ChanInv, Queueing,
         connVars, lockVars, senderVars, chanVars, writerVars, SenderInv,
         SenderTypes, ChanTypes, Senders, Channels, AllKinds
    <3>2. CASE ~isClosed
      BY <2>1, <3>2 DEF PreCheck, NonSender, ChanInv, Queueing, connVars,
         lockVars, senderVars, chanVars, writerVars, SenderInv, SenderTypes,
         ChanTypes, Senders, Channels, AllKinds
    <3> QED BY <3>1, <3>2
  <2>2. CASE RLock(p)
    BY <2>2 DEF RLock, NonSender, At, ChanInv, Queueing, connVars, lockVars,
       senderVars, chanVars, writerVars, SenderInv, SenderTypes, ChanTypes,
       Senders, Channels, AllKinds
  <2>3. CASE TestChan(p)
    BY <2>3 DEF TestChan, NonSender, At, AfterLazy, ChanInv, Queueing,
       connVars, lockVars, senderVars, chanVars, writerVars, SenderInv,
       SenderTypes, ChanTypes, Senders, Channels, AllKinds
  <2>4. CASE MakeChan(p)
    BY <2>4 DEF MakeChan, NonSender, At, AfterLazy, ChanInv, Queueing,
       connVars, lockVars, senderVars, chanVars, writerVars, SenderInv,
       SenderTypes, ChanTypes, Senders, Channels, AllKinds
  <2>5. CASE Check(p)
    <3>1. CASE isClosed
      BY <2>5, <3>1, ReturnChanInv DEF Check, NonSender, ChanInv, Queueing,
         connVars, lockVars, senderVars, chanVars, writerVars, SenderInv,
         SenderTypes, ChanTypes, Senders, Channels, AllKinds
    <3>2. CASE ~isClosed
      BY <2>5, <3>2 DEF Check, NonSender, ChanInv, Queueing, connVars,
         lockVars, senderVars, chanVars, writerVars, SenderInv, SenderTypes,
         ChanTypes, Senders, Channels, AllKinds
    <3> QED BY <3>1, <3>2
  <2>6. CASE Write(p)
    BY <2>6, ReturnChanInv DEF Write, NonSender, Message, ChanInv, Queueing,
       connVars, lockVars, senderVars, chanVars, writerVars, SenderInv,
       SenderTypes, ChanTypes, Senders, Channels, AllKinds
  <2>7. CASE EnterSelect(p)
    BY <2>7 DEF EnterSelect, NonSender, At, ChanInv, Queueing, connVars,
       lockVars, senderVars, chanVars, writerVars, SenderInv, SenderTypes,
       ChanTypes, Senders, Channels, AllKinds
  <2>8. CASE Offer(p)
    BY <2>8, ReturnChanInv DEF Offer, NonSender, Message, ChanInv, Queueing,
       connVars, lockVars, senderVars, chanVars, writerVars, SenderInv,
       SenderTypes, ChanTypes, Senders, Channels, AllKinds
  <2>9. CASE OfferPanics(p)
    BY <2>9, ReturnChanInv DEF OfferPanics, NonSender, ChanInv, Queueing,
       connVars, lockVars, senderVars, chanVars, writerVars, SenderInv,
       SenderTypes, ChanTypes, Senders, Channels, AllKinds
  <2>10. CASE OfferTimeout(p)
    BY <2>10, ReturnChanInv DEF OfferTimeout, NonSender, ChanInv, Queueing,
       connVars, lockVars, senderVars, chanVars, writerVars, SenderInv,
       SenderTypes, ChanTypes, Senders, Channels, AllKinds
  <2> QED
    BY <1>4, <2>1, <2>2, <2>3, <2>4, <2>5, <2>6, <2>7, <2>8, <2>9, <2>10 DEF
       SenderStep
<1>5. ASSUME NEW w \in Channels, WriterStep(w)
       PROVE  ChanInv'
  <2>1. CASE WriterSelect(w)
    BY <2>1 DEF WriterSelect, NonWriter, ChanInv, Queueing, connVars,
       lockVars, senderVars, chanVars, writerVars, ChanTypes, Channels,
       Messages
  <2>2. CASE WriterReceive(w)
    BY <2>2 DEF WriterReceive, NonWriter, LeaveSelect, ChanInv, Queueing,
       connVars, lockVars, senderVars, chanVars, writerVars, ChanTypes,
       Channels, Messages
  <2>3. CASE WriterClosed(w)
    BY <2>3 DEF WriterClosed, NonWriter, LeaveSelect, ChanInv, Queueing,
       connVars, lockVars, senderVars, chanVars, writerVars, ChanTypes,
       Channels, Messages
  <2>4. CASE WriterDone(w)
    BY <2>4 DEF WriterDone, NonWriter, LeaveSelect, ChanInv, Queueing,
       connVars, lockVars, senderVars, chanVars, writerVars, ChanTypes,
       Channels, Messages
  <2>5. CASE WriterWrite(w)
    BY <2>5 DEF WriterWrite, NonWriter, ChanInv, Queueing, connVars, lockVars,
       senderVars, chanVars, writerVars, ChanTypes, Channels, Messages
  <2> QED
    BY <1>5, <2>1, <2>2, <2>3, <2>4, <2>5 DEF WriterStep
<1>6. CASE UNCHANGED vars
  BY <1>6 DEF vars, ChanInv, Queueing, connVars, lockVars, senderVars,
     chanVars, writerVars
<1> QED
  BY <1>1, <1>2, <1>3, <1>4, <1>5, <1>6 DEF Next, Main, Reader

LEMMA InitInv == Init => Inv
<1> SUFFICES ASSUME Init PROVE Inv
  OBVIOUS
<1> USE ConnectionAssumption DEF Init
<1>1. MainTypes
  BY DEF MainTypes, MainPhases
<1>2. SenderTypes
  BY DEF SenderTypes, SenderPhases, AllKinds, Senders
<1>3. ChanTypes
  BY DEF ChanTypes
<1>4. MainInv
  BY DEF MainInv, Exclusive, Locked, Finished
<1>5. SenderInv
  BY DEF SenderInv, Admitted, Queueing
<1>6. ChanInv
  BY DEF ChanInv, Senders, Channels
<1> QED
  BY <1>1, <1>2, <1>3, <1>4, <1>5, <1>6 DEF Inv, TypeOK

LEMMA InvStep == Inv /\ [Next]_vars => Inv'
BY MainTypesStep, SenderTypesStep, ChanTypesStep, MainInvStep, SenderInvStep,
   ChanInvStep DEF Inv, TypeOK

\* The inductive invariant holds in every reachable state.
THEOREM Invariance == Spec => []Inv
BY InitInv, InvStep, PTL DEF Spec

\* The variables keep their types, for any callers, bounds and options.
THEOREM TypeCorrect == Spec => []TypeOK
<1>1. Inv => TypeOK
  BY DEF Inv
<1> QED
  BY <1>1, Invariance, PTL

\* No Send, SendMsg or heartbeat that passed its isClosed check writes to a
\* socket the finalizer closed (Connection.Send under msgLock).
THEOREM SendsOnOpenSocket == Spec => []WritesOnOpenSocket
<1>1. Inv => WritesOnOpenSocket
  BY DEF Inv, MainInv, SenderInv, Admitted, WritesOnOpenSocket, Exclusive,
         Locked, Finished
<1> QED
  BY <1>1, Invariance, PTL

\* SendToQueue never meets a closed channel (SendToQueue under msgLock).
THEOREM QueueSafe == Spec => []QueueNeverPanics
<1>1. Inv => QueueNeverPanics
  <2> SUFFICES ASSUME Inv, NEW p \in Callers,
                      spc[p] = "offer", kind[p] = "SendToQueue"
               PROVE  offerTo[p] \notin closedChans
    BY DEF QueueNeverPanics
  <2>1. mpc \notin Exclusive
    BY DEF Inv, SenderInv, Admitted, Queueing, Senders
  <2> QED
    BY <2>1 DEF Inv, MainInv, Exclusive, Locked
<1> QED
  BY <1>1, Invariance, PTL

\* A closed connection is stopped, off the network, out of the manager and
\* without a heartbeat goroutine (Connection.finalizer).
THEOREM DetachedWhenClosed == Spec => []ClosedIsDetached
<1>1. Inv => ClosedIsDetached
  BY DEF Inv, MainInv, ClosedIsDetached, Exclusive
<1> QED
  BY <1>1, Invariance, PTL

-----------------------------------------------------------------------------
(* The life cycle: a message is written at most once, and none after the    *)
(* close.                                                                   *)

InWire(m) == \E i \in DOMAIN wire : wire[i] = m
InHand(m) == \E w \in Channels : hand[w] = m
InBuf(m)  == \E c \in Channels : \E i \in DOMAIN buf[c] : buf[c][i] = m
Sending(m) == \E p \in Callers : spc[p] # "idle" /\ m = Message(p)

\* A message is in one place: with its caller, in a channel, with a writer or
\* on the wire.
OnePlace ==
  \A m \in Messages :
    /\ InWire(m) \/ InHand(m) \/ InBuf(m) => m[2] <= calls[m[1]] /\ ~Sending(m)
    /\ InWire(m) => ~InHand(m) /\ ~InBuf(m)
    /\ InHand(m) => ~InBuf(m)
    /\ \A v, w \in Channels : hand[v] = m /\ hand[w] = m => v = w
    /\ \A b, c \in Channels : \A i \in DOMAIN buf[b], j \in DOMAIN buf[c] :
         buf[b][i] = m /\ buf[c][j] = m => b = c /\ i = j

\* A step that moves no message and begins no call.
Still == /\ UNCHANGED <<buf, hand, wire, calls>>
         /\ \A p \in Callers : spc[p] = "idle" => spc'[p] = "idle"

LEMMA StillStep == ASSUME OnePlace, Still PROVE OnePlace'
<1>1. \A m \in Messages : Sending(m)' => Sending(m)
  BY DEF Still, Sending, Message
<1> QED
  BY <1>1 DEF OnePlace, Still, InWire, InHand, InBuf

LEMMA CallStep ==
  ASSUME Inv, OnePlace, NEW p \in Callers, NEW k \in Kinds, Call(p, k)
  PROVE  OnePlace'
<1>1. /\ calls' = [calls EXCEPT ![p] = @ + 1] /\ spc[p] = "idle"
      /\ \A q \in Callers : q # p => spc'[q] = spc[q]
      /\ UNCHANGED <<buf, hand, wire>>
  BY DEF Call, At, Inv, TypeOK, SenderTypes, Senders, chanVars, writerVars
<1>2. calls \in [Callers -> 0..MaxCalls] /\ MaxCalls \in Nat
  BY ConnectionAssumption DEF Inv, TypeOK, SenderTypes
<1>3. ASSUME NEW m \in Messages, m[2] <= calls[m[1]], ~Sending(m)
      PROVE  m[2] <= calls'[m[1]] /\ ~Sending(m)'
  <2>1. m[1] \in Callers /\ m[2] \in Nat
    BY <1>2 DEF Messages
  <2>2. \A q \in Callers : calls'[q] = IF q = p THEN calls[q] + 1 ELSE calls[q]
    BY <1>1, <1>2
  <2>3. m[2] <= calls'[m[1]] /\ (m[1] = p => m[2] < calls'[p])
    BY <1>2, <1>3, <2>1, <2>2
  <2>4. ASSUME NEW q \in Callers, spc'[q] # "idle", m = <<q, calls'[q]>> PROVE FALSE
    <3>1. m[1] = q /\ m[2] = calls'[q]
      BY <2>4
    <3>2. q # p
      BY <1>2, <2>1, <2>2, <2>3, <3>1
    <3>3. spc[q] # "idle" /\ m = Message(q)
      BY <1>1, <2>2, <2>4, <3>2 DEF Message
    <3> QED
      BY <1>3, <3>3 DEF Sending
  <2> QED
    BY <2>3, <2>4 DEF Sending, Message
<1> QED
  BY <1>1, <1>3 DEF OnePlace, InWire, InHand, InBuf

\* A caller's message is nowhere else.
LEMMA OwnMessage ==
  ASSUME Inv, OnePlace, NEW p \in Callers, spc[p] # "idle"
  PROVE  /\ Message(p) \in Messages
         /\ ~InWire(Message(p)) /\ ~InHand(Message(p)) /\ ~InBuf(Message(p))
<1>1. Message(p) \in Messages
  BY MessageTyped
<1>2. Sending(Message(p))
  BY DEF Sending
<1> QED
  BY <1>1, <1>2 DEF OnePlace

\* After its call returned a caller's message may be anywhere, once.
LEMMA AfterReturn ==
  ASSUME Inv, NEW p \in Callers, spc[p] # "idle", Return(p), UNCHANGED calls
  PROVE  /\ \A m \in Messages : Sending(m)' <=> Sending(m) /\ m # Message(p)
         /\ Message(p)[2] <= calls'[Message(p)[1]]
<1>1. /\ spc'[p] = "idle" /\ \A q \in Callers : q # p => spc'[q] = spc[q]
  BY DEF Inv, TypeOK, SenderTypes, Senders, Return
<1>2. \A q \in Callers : Message(q)' = Message(q)
  BY DEF Message
<1>3. \A q \in Callers : q # p => Message(q) # Message(p)
  BY DEF Message
<1>4. calls[p] \in Nat
  BY ConnectionAssumption DEF Inv, TypeOK, SenderTypes
<1> QED
  BY <1>1, <1>2, <1>3, <1>4 DEF Sending, Message

LEMMA WriteStep ==
  ASSUME Inv, OnePlace, NEW p \in Callers, Write(p), WriteSucceeds,
         wire' = Append(wire, Message(p))
  PROVE  OnePlace'
<1>1. spc[p] = "write" /\ Return(p) /\ UNCHANGED <<calls, buf, hand>>
  BY DEF Write, chanVars, writerVars
<1> PICK m : m = Message(p)
  OBVIOUS
<1>2. m \in Messages /\ ~InWire(m) /\ ~InHand(m) /\ ~InBuf(m)
  BY <1>1, OwnMessage
<1>3. wire \in Seq(Messages)
  BY DEF Inv, TypeOK, ChanTypes
<1>4. \A x : InWire(x)' <=> InWire(x) \/ x = m
  BY <1>2, <1>3 DEF InWire
<1>5. \A x : (InHand(x)' <=> InHand(x)) /\ (InBuf(x)' <=> InBuf(x))
  BY <1>1 DEF InHand, InBuf
<1>6. /\ \A x \in Messages : Sending(x)' <=> Sending(x) /\ x # m
      /\ m[2] <= calls'[m[1]]
  BY <1>1, AfterReturn
<1> QED
  BY <1>1, <1>2, <1>4, <1>5, <1>6 DEF OnePlace

LEMMA OfferStep ==
  ASSUME Inv, OnePlace, NEW p \in Callers, Offer(p)
  PROVE  OnePlace'
<1>1. PICK m, c : m = Message(p) /\ c = offerTo[p]
  OBVIOUS
<1>2. /\ spc[p] = "offer" /\ Return(p) /\ UNCHANGED <<calls, hand, wire>>
      /\ buf' = [buf EXCEPT ![c] = Append(@, m)]
  BY <1>1 DEF Offer, writerVars
<1>3. m \in Messages /\ ~InWire(m) /\ ~InHand(m) /\ ~InBuf(m)
  BY <1>1, <1>2, OwnMessage
<1>4. c \in Channels /\ buf \in [Channels -> Seq(Messages)]
  BY <1>1, <1>2 DEF Inv, TypeOK, SenderTypes, ChanTypes, ChanInv, Senders
<1>5. /\ \A b \in Channels : b # c => buf'[b] = buf[b]
      /\ buf'[c] = Append(buf[c], m) /\ buf[c] \in Seq(Messages)
  BY <1>2, <1>4
<1>6. /\ DOMAIN buf'[c] = DOMAIN buf[c] \cup {Len(buf[c]) + 1}
      /\ \A i \in DOMAIN buf[c] : buf'[c][i] = buf[c][i]
      /\ buf'[c][Len(buf[c]) + 1] = m
  BY <1>3, <1>5
<1>7. \A x : InBuf(x)' <=> InBuf(x) \/ x = m
  BY <1>4, <1>5, <1>6 DEF InBuf
<1>8. \A x : (InHand(x)' <=> InHand(x)) /\ (InWire(x)' <=> InWire(x))
  BY <1>2 DEF InHand, InWire
<1>9. /\ \A x \in Messages : Sending(x)' <=> Sending(x) /\ x # m
      /\ m[2] <= calls'[m[1]]
  BY <1>1, <1>2, AfterReturn
<1>10. ASSUME NEW x \in Messages, NEW b \in Channels, NEW d \in Channels,
              NEW i \in DOMAIN buf'[b], NEW j \in DOMAIN buf'[d],
              buf'[b][i] = x, buf'[d][j] = x
       PROVE  b = d /\ i = j
  <2>1. CASE x = m
    <3>1. \A a \in Channels : \A k \in DOMAIN buf'[a] :
            buf'[a][k] = m => a = c /\ k = Len(buf[c]) + 1
      BY <1>3, <1>5, <1>6 DEF InBuf
    <3> QED
      BY <1>10, <2>1, <3>1
  <2>2. CASE x # m
    <3>1. /\ i \in DOMAIN buf[b] /\ buf[b][i] = x
          /\ j \in DOMAIN buf[d] /\ buf[d][j] = x
      BY <1>5, <1>6, <1>10, <2>2
    <3> QED
      BY <3>1 DEF OnePlace
  <2> QED
    BY <2>1, <2>2
<1> QED
  BY <1>2, <1>3, <1>7, <1>8, <1>9, <1>10 DEF OnePlace

LEMMA ReceiveStep ==
  ASSUME Inv, OnePlace, NEW w \in Channels, WriterReceive(w)
  PROVE  OnePlace'
<1>1. PICK c : c = recvFrom[w]
  OBVIOUS
<1>2. /\ wpc[w] = "recv" /\ buf[c] # <<>>
      /\ hand' = [hand EXCEPT ![w] = Head(buf[c])] /\ buf' = [buf EXCEPT ![c] = Tail(@)]
      /\ UNCHANGED <<spc, calls, wire>>
  BY <1>1 DEF WriterReceive, NonWriter, senderVars
<1>3. /\ c \in Channels /\ buf \in [Channels -> Seq(Messages)]
      /\ hand \in [Channels -> Messages \cup {NoMessage}]
  BY <1>1, <1>2 DEF Inv, TypeOK, ChanTypes, ChanInv
<1>4. PICK m : m = Head(buf[c])
  OBVIOUS
<1>5. /\ \A b \in Channels : b # c => buf'[b] = buf[b]
      /\ buf'[c] = Tail(buf[c]) /\ buf[c] \in Seq(Messages)
      /\ \A v \in Channels : v # w => hand'[v] = hand[v]
      /\ hand'[w] = m
  BY <1>2, <1>3, <1>4
<1>6. /\ 1 \in DOMAIN buf[c] /\ buf[c][1] = m
      /\ \A i \in DOMAIN buf'[c] : /\ i \in Nat \ {0} /\ i + 1 \in DOMAIN buf[c]
                                   /\ buf'[c][i] = buf[c][i + 1]
  <2>1. buf[c] \in Seq(Messages) /\ buf[c] # <<>>
    BY <1>2, <1>5
  <2>2. 1 \in DOMAIN buf[c] /\ buf[c][1] = m
    BY <1>4, <2>1
  <2>3. DOMAIN Tail(buf[c]) = 1..(Len(buf[c]) - 1) /\ Len(buf[c]) \in Nat
    BY <2>1
  <2>4. \A i \in 1..(Len(buf[c]) - 1) : Tail(buf[c])[i] = buf[c][i + 1]
    BY <2>1
  <2>5. \A i \in 1..(Len(buf[c]) - 1) : i \in Nat \ {0} /\ i + 1 \in DOMAIN buf[c]
    BY <2>1, <2>3
  <2> QED
    BY <1>5, <2>2, <2>3, <2>4, <2>5
<1>7. m \in Messages /\ InBuf(m)
  BY <1>3, <1>4, <1>5, <1>6 DEF InBuf
<1>8. ~InWire(m) /\ ~InHand(m) /\ ~Sending(m) /\ m[2] <= calls[m[1]]
  BY <1>7 DEF OnePlace
<1>9. \A x \in Messages : InBuf(x)' => InBuf(x) /\ x # m
  <2> SUFFICES ASSUME NEW x \in Messages, NEW b \in Channels, NEW i \in DOMAIN buf'[b],
                      buf'[b][i] = x
               PROVE  InBuf(x) /\ x # m
    BY DEF InBuf
  <2>1. CASE b # c
    BY <1>3, <1>5, <1>6, <1>7, <2>1 DEF InBuf, OnePlace
  <2>2. CASE b = c
    <3>1. i \in Nat \ {0} /\ i + 1 \in DOMAIN buf[c] /\ x = buf[c][i + 1]
      BY <1>6, <2>2
    <3>2. InBuf(x)
      BY <1>3, <3>1 DEF InBuf
    <3>3. x = m => 1 = i + 1
      <4>1. \A k, l \in DOMAIN buf[c] : buf[c][k] = m /\ buf[c][l] = m => k = l
        BY <1>3, <1>7 DEF OnePlace
      <4> QED
        BY <1>6, <3>1, <4>1
    <3> QED
      BY <3>1, <3>2, <3>3
  <2> QED
    BY <2>1, <2>2
<1>10. /\ \A x : InHand(x)' => InHand(x) \/ x = m
       /\ \A x : InWire(x)' <=> InWire(x)
       /\ \A x : Sending(x)' <=> Sending(x)
  BY <1>2, <1>5 DEF InHand, InWire, Sending, Message
<1>11. ASSUME NEW x \in Messages, NEW u \in Channels, NEW v \in Channels,
              hand'[u] = x, hand'[v] = x
       PROVE  u = v
  BY <1>5, <1>8, <1>11 DEF OnePlace, InHand
<1>12. ASSUME NEW x \in Messages, NEW b \in Channels, NEW d \in Channels,
              NEW i \in DOMAIN buf'[b], NEW j \in DOMAIN buf'[d],
              buf'[b][i] = x, buf'[d][j] = x
       PROVE  b = d /\ i = j
  <2> DEFINE k(a, l) == IF a = c THEN l + 1 ELSE l
  <2>1. /\ k(b, i) \in DOMAIN buf[b] /\ buf[b][k(b, i)] = x
        /\ k(d, j) \in DOMAIN buf[d] /\ buf[d][k(d, j)] = x
    BY <1>5, <1>6, <1>12
  <2>2. b = d /\ k(b, i) = k(d, j)
    BY <2>1 DEF OnePlace
  <2> QED
    BY <1>6, <2>2
<1> QED
  BY <1>2, <1>8, <1>9, <1>10, <1>11, <1>12 DEF OnePlace

LEMMA WriterWriteStep ==
  ASSUME Inv, OnePlace, NEW w \in Channels, WriterWrite(w)
  PROVE  OnePlace' /\ hand[w] \in Messages /\ ~InWire(hand[w])
<1>1. PICK m : m = hand[w]
  OBVIOUS
<1>2. /\ wpc[w] = "write" /\ hand' = [hand EXCEPT ![w] = NoMessage]
      /\ wire' = Append(wire, m) \/ wire' = wire
      /\ UNCHANGED <<spc, calls, buf>>
  BY <1>1 DEF WriterWrite, NonWriter, senderVars
<1>3. /\ hand \in [Channels -> Messages \cup {NoMessage}] /\ wire \in Seq(Messages)
      /\ m \in Messages /\ NoMessage \notin Messages
  BY <1>1, <1>2, ConnectionAssumption DEF Inv, TypeOK, ChanTypes, ChanInv, Messages
<1>4. InHand(m) /\ ~InWire(m) /\ ~InBuf(m) /\ ~Sending(m) /\ m[2] <= calls[m[1]]
  BY <1>1, <1>3 DEF OnePlace, InHand
<1>5. \A v \in Channels : hand'[v] = IF v = w THEN NoMessage ELSE hand[v]
  BY <1>2, <1>3
<1>6. \A x \in Messages : InHand(x)' => InHand(x) /\ x # m
  BY <1>1, <1>3, <1>5 DEF InHand, OnePlace
<1>7. \A x \in Messages : InWire(x)' => InWire(x) \/ x = m
  BY <1>2, <1>3 DEF InWire
<1>8. \A x : (InBuf(x)' <=> InBuf(x)) /\ (Sending(x)' <=> Sending(x))
  BY <1>2 DEF InBuf, Sending, Message
<1>9. OnePlace'
  BY <1>2, <1>3, <1>4, <1>5, <1>6, <1>7, <1>8 DEF OnePlace
<1> QED
  BY <1>1, <1>3, <1>4, <1>9

\* Only a call of a user, a write and the passing on of a message move one.
LEMMA OnePlaceStep == Inv /\ OnePlace /\ [Next]_vars => OnePlace'
<1> SUFFICES ASSUME Inv, OnePlace, [Next]_vars PROVE OnePlace'
  OBVIOUS
<1> USE DEF connVars, lockVars, senderVars, chanVars, writerVars
<1>1. CASE Main \/ HookPanics \/ Stop \/ ClearConn
  <2>1. Still
    BY <1>1 DEF Main, HookPanics, Stop, ClearConn, Start, CallOnConnStart, HeartbeatStart,
       UpdateActivity, UseWorker, CtxDone, CallOnConnStop, LockRequest, LockAcquire,
       HeartbeatStop, CloseSocket, CloseChan, MarkClosed, FreeWorker, OthersOfMain, Still
  <2> QED
    BY <2>1, StillStep
<1>2. CASE Reader \/ ReaderData \/ HeartbeatNotAlive
  <2>1. Still
    BY <1>2 DEF Reader, ReaderData, ReaderSelect, ReaderError, ReaderExecute, ReaderStop,
       HeartbeatNotAlive, OthersOfReader, OthersOfHeartbeat, Still
  <2> QED
    BY <2>1, StillStep
<1>3. CASE HeartbeatBeat
  <2>1. Still
    BY <1>3, ConnectionAssumption
       DEF HeartbeatBeat, OthersOfHeartbeat, Still, Inv, TypeOK, SenderTypes
  <2> QED
    BY <2>1, StillStep
<1>4. ASSUME NEW p \in Callers, NEW k \in Kinds, Call(p, k) PROVE OnePlace'
  BY <1>4, CallStep
<1>5. ASSUME NEW p \in Senders, SenderStep(p) PROVE OnePlace'
  <2>1. CASE Return(p) /\ UNCHANGED <<buf, hand, wire, calls>>
    <3>1. Still
      BY <2>1 DEF Return, Still, Inv, TypeOK, SenderTypes, Senders
    <3> QED
      BY <3>1, StillStep
  <2>2. CASE /\ spc[p] # "idle" /\ UNCHANGED <<buf, hand, wire, calls>>
             /\ \E to : spc' = [spc EXCEPT ![p] = to]
    <3>1. Still
      BY <2>2 DEF Still, Inv, TypeOK, SenderTypes, Senders
    <3> QED
      BY <3>1, StillStep
  <2>3. CASE PreCheck(p) \/ Check(p)
    BY <2>1, <2>2, <2>3 DEF PreCheck, Check
  <2>4. CASE RLock(p) \/ TestChan(p) \/ MakeChan(p) \/ EnterSelect(p)
    BY <2>2, <2>4 DEF RLock, TestChan, MakeChan, EnterSelect, At
  <2>5. CASE OfferPanics(p) \/ OfferTimeout(p)
    BY <2>1, <2>5 DEF OfferPanics, OfferTimeout
  <2>6. CASE Write(p)
    <3>1. CASE p \in Callers /\ WriteSucceeds /\ wire' = Append(wire, Message(p))
      BY <2>6, <3>1, WriteStep
    <3>2. CASE UNCHANGED wire
      BY <2>1, <2>6, <3>2 DEF Write
    <3> QED
      BY <2>6, <3>1, <3>2 DEF Write, Senders
  <2>7. CASE Offer(p)
    <3>1. p \in Callers
      BY <2>7 DEF Offer, Inv, ChanInv, Senders
    <3> QED
      BY <2>7, <3>1, OfferStep
  <2> QED
    BY <1>5, <2>3, <2>4, <2>5, <2>6, <2>7 DEF SenderStep
<1>6. ASSUME NEW w \in Channels, WriterStep(w) PROVE OnePlace'
  <2>1. CASE WriterSelect(w) \/ WriterClosed(w) \/ WriterDone(w)
    <3>1. Still
      BY <2>1 DEF WriterSelect, WriterClosed, WriterDone, NonWriter, Still
    <3> QED
      BY <3>1, StillStep
  <2> QED
    BY <1>6, <2>1, ReceiveStep, WriterWriteStep DEF WriterStep
<1>7. CASE PeerStalls \/ PeerResumes \/ PeerLeaves \/ TimePasses \/ UNCHANGED vars
  <2>1. Still
    BY <1>7 DEF PeerStalls, PeerResumes, PeerLeaves, TimePasses, NonPeer, vars, Still
  <2> QED
    BY <2>1, StillStep
<1> QED
  BY <1>1, <1>2, <1>3, <1>4, <1>5, <1>6, <1>7 DEF Next

LEMMA OnePlaceInit == Init => OnePlace
<1> SUFFICES ASSUME Init, NEW m \in Messages, InWire(m) \/ InHand(m) \/ InBuf(m) PROVE FALSE
  BY DEF OnePlace, InHand, InBuf
<1>1. NoMessage \notin Messages
  BY ConnectionAssumption DEF Messages
<1> QED
  BY <1>1 DEF Init, InWire, InHand, InBuf

\* The connection lives the life it promises: up, stopping, closed, with every
\* message written at most once and none after the close, whatever its callers,
\* its heartbeat and its peer do (ConnLife).
THEOREM LifeImplemented == Spec => ImplementsLife
<1>1. Init => OnePlace
  BY OnePlaceInit
<1>2. Init => Life!Init
  BY DEF Init, Life!Init
<1>3. ASSUME Inv, OnePlace, [Next]_vars PROVE [Life!Next]_(Life!vars)
  <2> USE DEF connVars, lockVars, senderVars, chanVars, writerVars
  <2> DEFINE Quiet == UNCHANGED <<sockOpen, cancelled, wire>>
             Stops == sockOpen' = sockOpen /\ cancelled' = TRUE /\ wire' = wire
             Writes(m) == /\ sockOpen /\ UNCHANGED <<sockOpen, cancelled>>
                          /\ ~InWire(m) /\ wire' = Append(wire, m)
  <2>1. Quiet => UNCHANGED Life!vars
    BY DEF Life!vars
  <2>2. Stops => Life!Stop \/ UNCHANGED Life!vars
    BY DEF Life!vars, Life!Stop
  <2>3. ASSUME NEW m \in Messages, Writes(m) PROVE Life!Deliver(m)
    BY <2>3 DEF Life!Deliver, InWire
  <2> HIDE DEF Quiet, Stops, Writes
  <2>4. CASE CloseSocket
    <3>1. sockOpen /\ cancelled
      BY <1>3, <2>4 DEF CloseSocket, Goto, Inv, MainInv, Exclusive, Locked, Finished
    <3>2. Life!Close
      BY <2>4, <3>1 DEF CloseSocket, OthersOfMain, Life!Close
    <3> QED
      BY <3>2 DEF Life!Next
  <2>5. CASE \/ Stop \/ ClearConn \/ ReaderStop \/ HeartbeatNotAlive
    <3>1. Stops
      BY <2>5 DEF Stop, ClearConn, ReaderStop, HeartbeatNotAlive, OthersOfMain, OthersOfReader,
         OthersOfHeartbeat, Stops
    <3> QED
      BY <2>2, <3>1 DEF Life!Next
  <2>6. CASE (Main /\ ~CloseSocket) \/ HookPanics
    <3>1. Quiet
      BY <2>6 DEF Main, HookPanics, Start, CallOnConnStart, HeartbeatStart, UpdateActivity,
         UseWorker, CtxDone, CallOnConnStop, LockRequest, LockAcquire, HeartbeatStop, CloseChan,
         MarkClosed, FreeWorker, OthersOfMain, Quiet
    <3> QED
      BY <2>1, <3>1
  <2>7. CASE \/ ReaderSelect \/ ReaderError \/ ReaderExecute \/ ReaderData \/ HeartbeatBeat
             \/ PeerStalls \/ PeerResumes \/ PeerLeaves \/ TimePasses \/ UNCHANGED vars
    <3>1. Quiet
      BY <2>7 DEF ReaderSelect, ReaderError, ReaderExecute, ReaderData, HeartbeatBeat, PeerStalls,
         PeerResumes, PeerLeaves, TimePasses, vars, OthersOfReader, OthersOfHeartbeat, NonPeer, Quiet
    <3> QED
      BY <2>1, <3>1
  <2>8. ASSUME NEW p \in Callers, NEW k \in Kinds, Call(p, k) PROVE UNCHANGED Life!vars
    BY <2>1, <2>8 DEF Call, NonSender, Quiet
  <2>9. ASSUME NEW p \in Senders, Write(p) PROVE [Life!Next]_(Life!vars)
    <3>1. CASE UNCHANGED wire
      BY <2>1, <2>9, <3>1 DEF Write, NonSender, Quiet
    <3>2. CASE p \in Callers /\ WriteSucceeds /\ wire' = Append(wire, Message(p))
      <4>1. Message(p) \in Messages /\ Writes(Message(p))
        BY <1>3, <2>9, <3>2, OwnMessage DEF Write, NonSender, WriteSucceeds, Writes
      <4> QED
        BY <2>3, <4>1 DEF Life!Next
    <3> QED
      BY <2>9, <3>1, <3>2 DEF Write, Senders
  <2>10. ASSUME NEW p \in Senders, SenderStep(p), ~Write(p) PROVE UNCHANGED Life!vars
    <3>1. Quiet
      BY <2>10 DEF SenderStep, PreCheck, RLock, TestChan, MakeChan, Check, EnterSelect, Offer,
         OfferPanics, OfferTimeout, NonSender, Quiet
    <3> QED
      BY <2>1, <3>1
  <2>11. ASSUME NEW w \in Channels, WriterStep(w) PROVE [Life!Next]_(Life!vars)
    <3>1. CASE WriterWrite(w) /\ ~UNCHANGED wire
      <4>1. hand[w] \in Messages /\ Writes(hand[w])
        BY <1>3, <3>1, WriterWriteStep DEF WriterWrite, NonWriter, WriteSucceeds, Writes
      <4> QED
        BY <2>3, <4>1 DEF Life!Next
    <3>2. CASE ~WriterWrite(w) \/ UNCHANGED wire
      <4>1. Quiet
        BY <2>11, <3>2 DEF WriterStep, WriterSelect, WriterReceive, WriterClosed, WriterDone,
           WriterWrite, NonWriter, Quiet
      <4> QED
        BY <2>1, <4>1
    <3> QED
      BY <3>1, <3>2
  <2> QED
    BY <1>3, <2>4, <2>5, <2>6, <2>7, <2>8, <2>9, <2>10, <2>11 DEF Next, Reader
<1> QED
  BY <1>1, <1>2, <1>3, OnePlaceStep, Invariance, PTL DEF Spec, Life!Spec, ImplementsLife

-----------------------------------------------------------------------------
(* Buffered messages, for any number of callers: none is dropped while the  *)
(* connection is up, but in a channel that was replaced, and those of each  *)
(* caller stay in order as long as none was.                                *)

AcceptedInv ==
  /\ \A m \in accepted : m[2] <= calls[m[1]] /\ ~Sending(m)
  /\ ~cancelled /\ peer # "gone" => \A m \in accepted : InWire(m) \/ InHand(m) \/ InBuf(m)
  /\ \A w \in Channels : wpc[w] # "write" => hand[w] = NoMessage
  /\ \A p \in Callers : spc[p] = "create" => wpc[p] = "none"
  /\ \A p \in Senders : offerTo[p] # NoChan => chan # NoChan
  /\ \A c \in Channels : buf[c] # <<>> => chan # NoChan

\* A step that touches no message and no channel.
Apart == /\ Still /\ UNCHANGED <<accepted, chan, wpc>>
         /\ \A p \in Callers : spc'[p] = "create" => wpc[p] = "none"
         /\ \A p \in Senders : offerTo'[p] \in {offerTo[p], NoChan}
         /\ (cancelled => cancelled') /\ (peer = "gone" => peer' = "gone")

LEMMA ApartStep == ASSUME AcceptedInv, Apart PROVE AcceptedInv'
<1>1. \A m : Sending(m)' => Sending(m)
  BY DEF Apart, Still, Sending, Message
<1>2. \A m : InWire(m)' = InWire(m) /\ InHand(m)' = InHand(m) /\ InBuf(m)' = InBuf(m)
  BY DEF Apart, Still, InWire, InHand, InBuf
<1> QED
  BY <1>1, <1>2 DEF AcceptedInv, Apart, Still

\* A call numbers its message above all earlier ones.
LEMMA CallAccepted ==
  ASSUME Inv, AcceptedInv, NEW p \in Callers, NEW k \in Kinds, Call(p, k)
  PROVE  AcceptedInv'
<1>1. /\ calls' = [calls EXCEPT ![p] = @ + 1] /\ spc[p] = "idle" /\ spc'[p] # "create"
      /\ \A q \in Callers : q # p => spc'[q] = spc[q]
      /\ UNCHANGED <<buf, hand, wire, accepted, chan, wpc, offerTo, cancelled, peer>>
  BY DEF Call, At, Inv, TypeOK, SenderTypes, Senders, chanVars, writerVars, NonSender, connVars
<1>2. /\ calls \in [Callers -> 0..MaxCalls] /\ MaxCalls \in Nat /\ accepted \subseteq Messages
  BY ConnectionAssumption DEF Inv, TypeOK, SenderTypes
<1>3. ASSUME NEW m \in accepted PROVE m[2] <= calls'[m[1]] /\ ~Sending(m)'
  <2>1. m[1] \in Callers /\ m[2] \in Nat /\ m[2] <= calls[m[1]] /\ ~Sending(m)
    BY <1>2 DEF Messages, AcceptedInv
  <2>2. \A q \in Callers : calls'[q] = IF q = p THEN calls[q] + 1 ELSE calls[q]
    BY <1>1, <1>2
  <2>3. m[2] <= calls'[m[1]] /\ (m[1] = p => m[2] < calls'[p])
    BY <1>2, <2>1, <2>2
  <2>4. ASSUME NEW q \in Callers, spc'[q] # "idle", m = <<q, calls'[q]>> PROVE FALSE
    <3>1. m[1] = q /\ m[2] = calls'[q]
      BY <2>4
    <3>2. q # p
      BY <1>2, <2>1, <2>2, <2>3, <3>1
    <3>3. spc[q] # "idle" /\ m = Message(q)
      BY <1>1, <2>2, <2>4, <3>2 DEF Message
    <3> QED
      BY <2>1, <3>3 DEF Sending
  <2> QED
    BY <2>3, <2>4 DEF Sending, Message
<1>4. \A m : InWire(m)' = InWire(m) /\ InHand(m)' = InHand(m) /\ InBuf(m)' = InBuf(m)
  BY <1>1 DEF InWire, InHand, InBuf
<1> QED
  BY <1>1, <1>3, <1>4 DEF AcceptedInv

LEMMA OfferAccepted ==
  ASSUME Inv, AcceptedInv, NEW p \in Callers, Offer(p)
  PROVE  AcceptedInv'
<1>1. PICK m, c : m = Message(p) /\ c = offerTo[p]
  OBVIOUS
<1>2. /\ spc[p] = "offer" /\ Return(p)
      /\ UNCHANGED <<calls, hand, wire, chan, wpc, cancelled, peer>>
      /\ buf' = [buf EXCEPT ![c] = Append(@, m)] /\ accepted' = accepted \cup {m}
  BY <1>1 DEF Offer, writerVars, NonSender, connVars
<1>3. /\ c \in Channels /\ buf \in [Channels -> Seq(Messages)] /\ m \in Messages
      /\ accepted \subseteq Messages /\ chan # NoChan
  <2>1. offerTo[p] # NoChan
    BY <1>1, <1>2 DEF Inv, ChanInv, Senders
  <2> QED
    BY <1>1, <1>2, <2>1, MessageTyped
       DEF Inv, TypeOK, SenderTypes, ChanTypes, Senders, AcceptedInv
<1>4. /\ \A b \in Channels : b # c => buf'[b] = buf[b]
      /\ buf'[c] = Append(buf[c], m) /\ buf[c] \in Seq(Messages)
  BY <1>2, <1>3
<1>5. \A x : InBuf(x) \/ x = m => InBuf(x)'
  <2>1. /\ \A i \in DOMAIN buf[c] : i \in DOMAIN buf'[c] /\ buf'[c][i] = buf[c][i]
        /\ Len(buf[c]) + 1 \in DOMAIN buf'[c] /\ buf'[c][Len(buf[c]) + 1] = m
    BY <1>3, <1>4
  <2> QED
    BY <1>3, <1>4, <2>1 DEF InBuf
<1>6. \A x : InHand(x)' = InHand(x) /\ InWire(x)' = InWire(x)
  BY <1>2 DEF InHand, InWire
<1>7. /\ \A x \in Messages : Sending(x)' <=> Sending(x) /\ x # m
      /\ m[2] <= calls'[m[1]]
  BY <1>1, <1>2, AfterReturn
<1>8. /\ \A q \in Senders : offerTo'[q] \in {offerTo[q], NoChan}
      /\ \A q \in Callers : spc'[q] \in {spc[q], "idle"}
  BY <1>2 DEF Return, Inv, TypeOK, SenderTypes, Senders
<1> QED
  BY <1>2, <1>3, <1>5, <1>6, <1>7, <1>8 DEF AcceptedInv

LEMMA WriteAccepted ==
  ASSUME Inv, AcceptedInv, NEW p \in Senders, Write(p)
  PROVE  AcceptedInv'
<1>1. /\ Return(p) /\ UNCHANGED <<calls, buf, hand, accepted, chan, wpc, cancelled, peer>>
      /\ wire' = wire \/ wire' = Append(wire, Message(p))
  BY DEF Write, chanVars, writerVars, NonSender, connVars
<1>2. wire \in Seq(Messages)
  BY DEF Inv, TypeOK, ChanTypes
<1>3. \A x : InWire(x) => InWire(x)'
  BY <1>1, <1>2 DEF InWire
<1>4. \A x : (InHand(x)' = InHand(x)) /\ (InBuf(x)' = InBuf(x))
  BY <1>1 DEF InHand, InBuf
<1>5. /\ \A q \in Senders : q # p => spc'[q] = spc[q] /\ offerTo'[q] = offerTo[q]
      /\ spc'[p] = "idle" /\ offerTo'[p] = NoChan
  BY <1>1 DEF Return, Inv, TypeOK, SenderTypes
<1>6. \A x : Sending(x)' => Sending(x)
  BY <1>1, <1>5 DEF Sending, Message, Senders
<1> QED
  BY <1>1, <1>3, <1>4, <1>5, <1>6 DEF AcceptedInv, Senders

LEMMA ReceiveAccepted ==
  ASSUME Inv, AcceptedInv, NEW w \in Channels, WriterReceive(w)
  PROVE  AcceptedInv'
<1>1. PICK c : c = recvFrom[w]
  OBVIOUS
<1>2. /\ wpc[w] = "recv" /\ buf[c] # <<>> /\ wpc' = [wpc EXCEPT ![w] = "write"]
      /\ hand' = [hand EXCEPT ![w] = Head(buf[c])] /\ buf' = [buf EXCEPT ![c] = Tail(@)]
      /\ UNCHANGED <<spc, calls, wire, accepted, chan, offerTo, cancelled, peer>>
  BY <1>1 DEF WriterReceive, LeaveSelect, NonWriter, senderVars, connVars
<1>3. /\ c \in Channels /\ buf \in [Channels -> Seq(Messages)]
      /\ hand \in [Channels -> Messages \cup {NoMessage}] /\ accepted \subseteq Messages
      /\ NoMessage \notin Messages
      /\ wpc \in [Channels -> {"none", "select", "recv", "write", "done"}]
  BY <1>1, <1>2, ConnectionAssumption
     DEF Inv, TypeOK, SenderTypes, ChanTypes, ChanInv, Messages
<1>4. /\ \A b \in Channels : b # c => buf'[b] = buf[b]
      /\ buf'[c] = Tail(buf[c]) /\ buf[c] \in Seq(Messages)
      /\ \A v \in Channels : v # w => hand'[v] = hand[v] /\ wpc'[v] = wpc[v]
      /\ hand'[w] = Head(buf[c]) /\ wpc'[w] = "write" /\ hand[w] = NoMessage
  BY <1>2, <1>3 DEF AcceptedInv
<1>5. \A i \in DOMAIN buf[c] :
        \/ buf[c][i] = Head(buf[c])
        \/ \E j \in DOMAIN Tail(buf[c]) : Tail(buf[c])[j] = buf[c][i]
  <2>1. buf[c][1] = Head(buf[c])
    BY <1>2, <1>4
  <2>2. ASSUME NEW i \in DOMAIN buf[c], i # 1
        PROVE  \E j \in DOMAIN Tail(buf[c]) : Tail(buf[c])[j] = buf[c][i]
    <3>1. i - 1 \in DOMAIN Tail(buf[c]) /\ Tail(buf[c])[i - 1] = buf[c][i]
      BY <1>2, <1>4, <2>2
    <3> QED
      BY <3>1
  <2> QED
    BY <2>1, <2>2
<1>6. \A x \in Messages : InHand(x) => InHand(x)'
  BY <1>3, <1>4 DEF InHand
<1>7. \A x : InBuf(x) => InBuf(x)' \/ InHand(x)'
  <2> SUFFICES ASSUME NEW x, NEW b \in Channels, NEW i \in DOMAIN buf[b], buf[b][i] = x
               PROVE  InBuf(x)' \/ InHand(x)'
    BY DEF InBuf
  <2>1. CASE b # c
    BY <1>4, <2>1 DEF InBuf
  <2>2. CASE b = c
    <3>1. x = hand'[w] \/ \E j \in DOMAIN buf'[c] : buf'[c][j] = x
      BY <1>4, <1>5, <2>2
    <3> QED
      BY <1>3, <3>1 DEF InBuf, InHand
  <2> QED
    BY <2>1, <2>2
<1>8. \A x : InWire(x)' = InWire(x) /\ Sending(x)' = Sending(x)
  BY <1>2 DEF InWire, Sending, Message
<1> QED
  BY <1>2, <1>3, <1>4, <1>6, <1>7, <1>8 DEF AcceptedInv

LEMMA WriterWriteAccepted ==
  ASSUME Inv, AcceptedInv, NEW w \in Channels, WriterWrite(w)
  PROVE  AcceptedInv'
<1>1. PICK m : m = hand[w]
  OBVIOUS
<1>2. /\ wpc[w] = "write" /\ hand' = [hand EXCEPT ![w] = NoMessage]
      /\ \/ wire' = Append(wire, m)
         \/ wire' = wire /\ WriteFails
      /\ \E to : wpc' = [wpc EXCEPT ![w] = to]
      /\ UNCHANGED <<spc, calls, buf, accepted, chan, offerTo, cancelled, peer, sockOpen>>
  BY <1>1 DEF WriterWrite, NonWriter, senderVars, connVars
<1>3. /\ hand \in [Channels -> Messages \cup {NoMessage}] /\ wire \in Seq(Messages)
      /\ wpc \in [Channels -> {"none", "select", "recv", "write", "done"}]
  BY DEF Inv, TypeOK, ChanTypes
<1>4. \A v \in Channels : /\ hand'[v] = IF v = w THEN NoMessage ELSE hand[v]
                          /\ v # w => wpc'[v] = wpc[v]
  BY <1>2, <1>3
<1>5. WriteFails => cancelled \/ peer = "gone"
  BY DEF WriteFails, Inv, MainInv, Exclusive, Locked, Finished
<1>6. ~WriteFails => \A x : InWire(x) \/ InHand(x) => InWire(x)' \/ InHand(x)'
  <2>1. ~WriteFails => \A x : InWire(x) \/ x = m => InWire(x)'
    BY <1>2, <1>3 DEF InWire
  <2>2. \A x : InHand(x) => InHand(x)' \/ x = m
    BY <1>1, <1>4 DEF InHand
  <2> QED
    BY <2>1, <2>2
<1>7. \A x : InBuf(x)' = InBuf(x) /\ Sending(x)' = Sending(x)
  BY <1>2 DEF InBuf, Sending, Message
<1> QED
  BY <1>2, <1>4, <1>5, <1>6, <1>7 DEF AcceptedInv

LEMMA AcceptedStep == Inv /\ AcceptedInv /\ [Next]_vars => AcceptedInv'
<1> SUFFICES ASSUME Inv, AcceptedInv, [Next]_vars PROVE AcceptedInv'
  OBVIOUS
<1> USE DEF connVars, lockVars, senderVars, chanVars, writerVars
<1> DEFINE Rest == UNCHANGED <<buf, hand, wire, calls, accepted, chan, wpc>>
           Lasts == (cancelled => cancelled') /\ (peer = "gone" => peer' = "gone")
<1>0. ASSUME Rest, Lasts, UNCHANGED <<spc, offerTo>> PROVE AcceptedInv'
  <2>1. Apart
    BY <1>0 DEF Apart, Still, AcceptedInv
  <2> QED
    BY <2>1, ApartStep
<1>1. CASE Main \/ HookPanics \/ Stop \/ ClearConn
  BY <1>0, <1>1 DEF Main, HookPanics, Stop, ClearConn, Start, CallOnConnStart, HeartbeatStart,
     UpdateActivity, UseWorker, CtxDone, CallOnConnStop, LockRequest, LockAcquire,
     HeartbeatStop, CloseSocket, CloseChan, MarkClosed, FreeWorker, OthersOfMain
<1>2. CASE Reader \/ ReaderData \/ HeartbeatNotAlive
  BY <1>0, <1>2 DEF Reader, ReaderData, ReaderSelect, ReaderError, ReaderExecute, ReaderStop,
     HeartbeatNotAlive, OthersOfReader, OthersOfHeartbeat
<1>3. CASE HeartbeatBeat
  <2>1. \A p \in Callers : spc'[p] = spc[p]
    BY <1>3, ConnectionAssumption DEF HeartbeatBeat, Inv, TypeOK, SenderTypes, Senders
  <2>2. Apart
    BY <1>3, <2>1 DEF HeartbeatBeat, OthersOfHeartbeat, Still, Apart, AcceptedInv
  <2> QED
    BY <2>2, ApartStep
<1>4. ASSUME NEW p \in Callers, NEW k \in Kinds, Call(p, k) PROVE AcceptedInv'
  BY <1>4, CallAccepted
<1>5. ASSUME NEW p \in Senders, SenderStep(p) PROVE AcceptedInv'
  <2>1. ASSUME Return(p), Rest, Lasts PROVE AcceptedInv'
    <3>1. /\ \A q \in Callers : spc'[q] \in {spc[q], "idle"}
          /\ \A q \in Senders : offerTo'[q] \in {offerTo[q], NoChan}
      BY <2>1 DEF Return, Inv, TypeOK, SenderTypes, Senders
    <3>2. Apart
      BY <2>1, <3>1 DEF Still, Apart, AcceptedInv
    <3> QED
      BY <3>2, ApartStep
  <2>2. ASSUME NEW to, At(p, spc[p], to), spc[p] # "idle", Rest, Lasts, UNCHANGED offerTo,
               to = "create" => chan = NoChan
        PROVE  AcceptedInv'
    <3>1. \A q \in Callers : spc'[q] = spc[q] \/ (q = p /\ spc'[q] = to)
      BY <2>2 DEF At, Inv, TypeOK, SenderTypes, Senders
    <3>2. to = "create" => \A w \in Channels : wpc[w] = "none"
      BY <2>2 DEF Inv, ChanInv
    <3>3. Apart
      BY <2>2, <3>1, <3>2 DEF Still, Apart, AcceptedInv, Channels
    <3> QED
      BY <3>3, ApartStep
  <2> HIDE DEF Rest, Lasts
  <2>3. CASE PreCheck(p)
    <3>1. Rest /\ Lasts
      BY <2>3 DEF PreCheck, NonSender, Rest, Lasts
    <3> QED
      BY <2>1, <2>2, <2>3, <3>1 DEF PreCheck, At
  <2>4. CASE Check(p)
    <3>1. Rest /\ Lasts
      BY <2>4 DEF Check, NonSender, Rest, Lasts
    <3> QED
      BY <2>1, <2>2, <2>4, <3>1 DEF Check, At
  <2>5. CASE RLock(p)
    <3>1. Rest /\ Lasts /\ UNCHANGED offerTo
      BY <2>5 DEF RLock, NonSender, Rest, Lasts
    <3> QED
      BY <2>2, <2>5, <3>1 DEF RLock, At
  <2>6. CASE TestChan(p)
    <3>1. Rest /\ Lasts /\ UNCHANGED offerTo
      BY <2>6 DEF TestChan, NonSender, Rest, Lasts
    <3> QED
      BY <2>2, <2>6, <3>1 DEF TestChan, At, AfterLazy
  <2>7. CASE OfferPanics(p) \/ OfferTimeout(p)
    <3>1. Rest /\ Lasts
      BY <2>7 DEF OfferPanics, OfferTimeout, NonSender, Rest, Lasts
    <3> QED
      BY <2>1, <2>7, <3>1 DEF OfferPanics, OfferTimeout
  <2>8. CASE MakeChan(p) \/ EnterSelect(p)
    <3>1. /\ UNCHANGED <<buf, hand, wire, calls, accepted, cancelled, peer>>
          /\ chan' # NoChan
          /\ \A q \in Callers : /\ spc[q] = "idle" => spc'[q] = "idle"
                                /\ spc'[q] = "create" => spc[q] = "create" /\ q # p
      <4>1. MakeChan(p) => p # NoChan
        BY ConnectionAssumption DEF MakeChan, At, Senders, Inv, ChanInv
      <4>2. EnterSelect(p) => chan # NoChan
        BY DEF EnterSelect, At, Inv, ChanInv
      <4> QED
        BY <2>8, <4>1, <4>2
           DEF MakeChan, EnterSelect, At, AfterLazy, NonSender, Inv, TypeOK, SenderTypes, Senders
    <3>2. \A w \in Channels : wpc'[w] = wpc[w] \/ (w = p /\ wpc[w] = "none")
      BY <2>8 DEF MakeChan, EnterSelect, At, Inv, TypeOK, ChanTypes, AcceptedInv, Channels
    <3>3. \A m : Sending(m)' => Sending(m)
      BY <3>1 DEF Sending, Message
    <3>4. \A m : InWire(m)' = InWire(m) /\ InHand(m)' = InHand(m) /\ InBuf(m)' = InBuf(m)
      BY <3>1 DEF InWire, InHand, InBuf
    <3> QED
      BY <3>1, <3>2, <3>3, <3>4 DEF AcceptedInv, Channels
  <2>9. CASE Offer(p)
    <3>1. p \in Callers
      BY <2>9 DEF Offer, Inv, ChanInv, Senders
    <3> QED
      BY <2>9, <3>1, OfferAccepted
  <2> QED
    BY <1>5, <2>3, <2>4, <2>5, <2>6, <2>7, <2>8, <2>9, WriteAccepted DEF SenderStep
<1>6. ASSUME NEW w \in Channels, WriterStep(w) PROVE AcceptedInv'
  <2>1. CASE WriterSelect(w) \/ WriterClosed(w) \/ WriterDone(w)
    <3>1. /\ UNCHANGED <<buf, hand, wire, calls, accepted, chan, spc, offerTo, cancelled, peer>>
          /\ wpc[w] \in {"select", "recv"} /\ \E to : wpc' = [wpc EXCEPT ![w] = to]
      BY <2>1 DEF WriterSelect, WriterClosed, WriterDone, LeaveSelect, NonWriter
    <3>2. \A v \in Channels : v # w => wpc'[v] = wpc[v]
      BY <3>1 DEF Inv, TypeOK, ChanTypes
    <3>3. \A m : Sending(m)' = Sending(m)
      BY <3>1 DEF Sending, Message
    <3>4. \A m : InWire(m)' = InWire(m) /\ InHand(m)' = InHand(m) /\ InBuf(m)' = InBuf(m)
      BY <3>1 DEF InWire, InHand, InBuf
    <3> QED
      BY <3>1, <3>2, <3>3, <3>4 DEF AcceptedInv, Channels
  <2> QED
    BY <1>6, <2>1, ReceiveAccepted, WriterWriteAccepted DEF WriterStep
<1>7. CASE PeerStalls \/ PeerResumes \/ PeerLeaves \/ TimePasses \/ UNCHANGED vars
  BY <1>0, <1>7 DEF PeerStalls, PeerResumes, PeerLeaves, TimePasses, NonPeer, vars
<1> QED
  BY <1>1, <1>2, <1>3, <1>4, <1>5, <1>6, <1>7 DEF Next

LEMMA AcceptedInit == Init => AcceptedInv
BY DEF Init, AcceptedInv, Sending, Channels

\* A writer that was started stays started, and a channel replaced stays so.
LEMMA StaysStarted ==
  ASSUME Inv, [Next]_vars
  PROVE  /\ \A w \in Channels : wpc[w] # "none" => wpc'[w] # "none"
         /\ Overwritten => Overwritten'
<1> USE DEF connVars, lockVars, senderVars, chanVars, writerVars
<1>1. ASSUME UNCHANGED wpc PROVE \A w \in Channels : wpc[w] # "none" => wpc'[w] # "none"
  BY <1>1
<1>2. CASE Main \/ HookPanics \/ Stop \/ ClearConn
  BY <1>1, <1>2 DEF Main, HookPanics, Stop, ClearConn, Start, CallOnConnStart, HeartbeatStart,
     UpdateActivity, UseWorker, CtxDone, CallOnConnStop, LockRequest, LockAcquire,
     HeartbeatStop, CloseSocket, CloseChan, MarkClosed, FreeWorker, OthersOfMain, Overwritten
<1>3. CASE Reader \/ ReaderData \/ HeartbeatBeat \/ HeartbeatNotAlive
  BY <1>1, <1>3 DEF Reader, ReaderData, ReaderSelect, ReaderError, ReaderExecute, ReaderStop,
     HeartbeatBeat, HeartbeatNotAlive, OthersOfReader, OthersOfHeartbeat, Overwritten
<1>4. ASSUME NEW p \in Callers, NEW k \in Kinds, Call(p, k) PROVE UNCHANGED wpc
  BY <1>4 DEF Call
<1>5. ASSUME NEW p \in Senders, SenderStep(p), ~MakeChan(p) PROVE UNCHANGED wpc
  BY <1>5 DEF SenderStep, PreCheck, RLock, TestChan, Check, Write, EnterSelect, Offer,
     OfferPanics, OfferTimeout
<1>6. ASSUME NEW w \in Channels, WriterStep(w) \/ \E p \in Senders : MakeChan(p)
      PROVE  \A v \in Channels : wpc[v] # "none" => wpc'[v] # "none"
  <2>1. \E v : \E to \in {"select", "recv", "write", "done"} : wpc' = [wpc EXCEPT ![v] = to]
    BY <1>6 DEF WriterStep, WriterSelect, WriterReceive, WriterClosed, WriterDone, WriterWrite,
       LeaveSelect, MakeChan
  <2> QED
    BY <2>1 DEF Inv, TypeOK, ChanTypes
<1>7. CASE PeerStalls \/ PeerResumes \/ PeerLeaves \/ TimePasses \/ UNCHANGED vars
  BY <1>1, <1>7 DEF PeerStalls, PeerResumes, PeerLeaves, TimePasses, NonPeer, vars, Overwritten
<1>8. \A w \in Channels : wpc[w] # "none" => wpc'[w] # "none"
  <2> SUFFICES ASSUME NEW w \in Channels, wpc[w] # "none" PROVE wpc'[w] # "none"
    OBVIOUS
  <2> QED
    BY <1>1, <1>2, <1>3, <1>4, <1>5, <1>6, <1>7 DEF Next
<1> QED
  BY <1>8 DEF Overwritten

\* The writer of the channel made last reads that channel; and unless a channel
\* was replaced there is one channel only, with its one writer.
LatestInv ==
  /\ chan # NoChan => wpc[chan] # "none" /\ (wpc[chan] = "recv" => recvFrom[chan] = chan)
  /\ ~cancelled /\ peer # "gone" => \A w \in Channels : wpc[w] # "done"
  /\ ~Overwritten =>
       /\ \A p \in Senders : offerTo[p] \in {chan, NoChan}
       /\ \A w \in Channels : /\ wpc[w] # "none" => w = chan
                              /\ recvFrom[w] \in {chan, NoChan}
                              /\ buf[w] # <<>> => w = chan

\* A step that leaves channels and writers alone.
Leaves == /\ UNCHANGED <<chan, wpc, recvFrom, buf>>
          /\ \A p \in Senders : offerTo'[p] \in {offerTo[p], NoChan}
          /\ (cancelled => cancelled') /\ (peer = "gone" => peer' = "gone")

LEMMA LeavesStep == ASSUME LatestInv, Leaves PROVE LatestInv'
<1>1. Overwritten' = Overwritten
  BY DEF Leaves, Overwritten
<1> QED
  BY <1>1 DEF LatestInv, Leaves

LEMMA MakeLatest ==
  ASSUME Inv, AcceptedInv, LatestInv, NEW p \in Senders, MakeChan(p)
  PROVE  LatestInv'
<1>1. /\ p \in Channels /\ wpc[p] = "none" /\ p # NoChan
      /\ wpc' = [wpc EXCEPT ![p] = "select"] /\ chan' = p
      /\ UNCHANGED <<recvFrom, buf, offerTo, cancelled, peer>>
  BY ConnectionAssumption DEF MakeChan, At, Inv, ChanInv, AcceptedInv, Senders, Channels,
     NonSender, connVars
<1>2. wpc'[p] = "select" /\ \A w \in Channels : w # p => wpc'[w] = wpc[w]
  BY <1>1 DEF Inv, TypeOK, ChanTypes
<1>3. CASE chan = NoChan
  <2>1. \A w \in Channels : wpc[w] = "none" /\ buf[w] = <<>>
    BY <1>3 DEF Inv, ChanInv, AcceptedInv
  <2>2. \A q \in Senders : offerTo[q] = NoChan
    BY <1>3 DEF AcceptedInv
  <2>3. ~Overwritten
    BY <2>1 DEF Overwritten
  <2>4. \A w \in Channels : recvFrom[w] = NoChan
    BY <1>3, <2>3 DEF LatestInv
  <2> QED
    BY <1>1, <1>2, <2>1, <2>2, <2>4 DEF LatestInv
<1>4. CASE chan # NoChan
  <2>1. chan \in Channels /\ wpc[chan] # "none" /\ chan # p
    BY <1>1, <1>4 DEF LatestInv, Inv, TypeOK, ChanTypes
  <2>2. Overwritten'
    BY <1>1, <1>2, <2>1 DEF Overwritten
  <2> QED
    BY <1>1, <1>2, <2>2 DEF LatestInv
<1> QED
  BY <1>3, <1>4

LEMMA OfferLatest ==
  ASSUME Inv, LatestInv, NEW p \in Senders, EnterSelect(p) \/ Offer(p)
  PROVE  LatestInv'
<1> USE DEF senderVars, chanVars, writerVars, NonSender, connVars
<1>1. UNCHANGED <<chan, wpc, recvFrom, cancelled, peer>> /\ Overwritten' = Overwritten
  BY DEF EnterSelect, Offer, Overwritten
<1>2. CASE EnterSelect(p)
  <2>1. UNCHANGED buf /\ \A q \in Senders : offerTo'[q] \in {offerTo[q], chan}
    BY <1>2 DEF EnterSelect, Inv, TypeOK, SenderTypes
  <2> QED
    BY <1>1, <2>1 DEF LatestInv
<1>3. CASE Offer(p)
  <2>1. /\ \A q \in Senders : offerTo'[q] \in {offerTo[q], NoChan}
        /\ offerTo[p] # NoChan
    BY <1>3 DEF Offer, Return, Inv, TypeOK, SenderTypes, ChanInv
  <2>2. \A w \in Channels : w # offerTo[p] => buf'[w] = buf[w]
    BY <1>3 DEF Offer, Inv, TypeOK, ChanTypes
  <2> QED
    BY <1>1, <2>1, <2>2 DEF LatestInv
<1> QED
  BY <1>2, <1>3

LEMMA WriterLatest ==
  ASSUME Inv, AcceptedInv, LatestInv, NEW w \in Channels, WriterStep(w)
  PROVE  LatestInv'
<1> USE DEF senderVars, chanVars, writerVars, NonWriter, connVars
<1>1. UNCHANGED <<chan, offerTo, cancelled, peer, sockOpen>>
  BY DEF WriterStep, WriterSelect, WriterReceive, WriterClosed, WriterDone, WriterWrite
<1>2. /\ wpc[w] # "none" /\ wpc'[w] # "none"
      /\ \A v \in Channels : v # w => wpc'[v] = wpc[v] /\ recvFrom'[v] = recvFrom[v]
  BY DEF WriterStep, WriterSelect, WriterReceive, WriterClosed, WriterDone, WriterWrite,
     LeaveSelect, Inv, TypeOK, ChanTypes
<1>3. Overwritten' = Overwritten
  BY <1>2 DEF Overwritten
<1>4. recvFrom'[w] \in {recvFrom[w], chan, NoChan} /\ (wpc'[w] = "recv" => recvFrom'[w] = chan)
  BY DEF WriterStep, WriterSelect, WriterReceive, WriterClosed, WriterDone, WriterWrite,
     LeaveSelect, Inv, TypeOK, ChanTypes
<1>5. wpc'[w] = "done" => cancelled \/ peer = "gone"
  <2>1. WriteFails => cancelled \/ peer = "gone"
    BY DEF WriteFails, Inv, MainInv, Exclusive, Locked, Finished
  <2> QED
    BY <2>1 DEF WriterStep, WriterSelect, WriterReceive, WriterClosed, WriterDone, WriterWrite,
       LeaveSelect, Inv, TypeOK, ChanTypes
<1>6. \A c \in Channels : buf'[c] # <<>> => buf[c] # <<>>
  BY DEF WriterStep, WriterSelect, WriterReceive, WriterClosed, WriterDone, WriterWrite,
     Inv, TypeOK, ChanTypes
<1>7. chan # NoChan => wpc'[chan] # "none" /\ (wpc'[chan] = "recv" => recvFrom'[chan] = chan)
  <2>1. CASE chan = w
    BY <1>2, <1>4, <2>1
  <2>2. CASE chan # w /\ chan # NoChan
    <3>1. chan \in Channels
      BY <2>2 DEF Inv, TypeOK, ChanTypes
    <3> QED
      BY <1>2, <2>2, <3>1 DEF LatestInv
  <2> QED
    BY <2>1, <2>2
<1>8. ~cancelled /\ peer # "gone" => \A v \in Channels : wpc'[v] # "done"
  BY <1>2, <1>5 DEF LatestInv
<1>9. ASSUME ~Overwritten, NEW v \in Channels
      PROVE  /\ wpc'[v] # "none" => v = chan
             /\ recvFrom'[v] \in {chan, NoChan}
             /\ buf'[v] # <<>> => v = chan
  <2>1. (wpc'[v] # "none" => v = chan) /\ recvFrom'[v] \in {chan, NoChan}
    BY <1>2, <1>4, <1>9 DEF LatestInv
  <2> QED
    BY <1>6, <1>9, <2>1 DEF LatestInv
<1>10. ~Overwritten => \A p \in Senders : offerTo[p] \in {chan, NoChan}
  BY DEF LatestInv
<1>11. UNCHANGED <<chan, offerTo, cancelled, peer>>
  BY <1>1
<1> QED
  BY <1>3, <1>7, <1>8, <1>9, <1>10, <1>11 DEF LatestInv

LEMMA LatestStep == Inv /\ AcceptedInv /\ LatestInv /\ [Next]_vars => LatestInv'
<1> SUFFICES ASSUME Inv, AcceptedInv, LatestInv, [Next]_vars PROVE LatestInv'
  OBVIOUS
<1> USE DEF connVars, lockVars, senderVars, chanVars, writerVars
<1>1. CASE Main \/ HookPanics \/ Stop \/ ClearConn
  <2>1. Leaves
    BY <1>1 DEF Main, HookPanics, Stop, ClearConn, Start, CallOnConnStart, HeartbeatStart,
       UpdateActivity, UseWorker, CtxDone, CallOnConnStop, LockRequest, LockAcquire,
       HeartbeatStop, CloseSocket, CloseChan, MarkClosed, FreeWorker, OthersOfMain, Leaves
  <2> QED
    BY <2>1, LeavesStep
<1>2. CASE Reader \/ ReaderData \/ HeartbeatBeat \/ HeartbeatNotAlive
  <2>1. Leaves
    BY <1>2 DEF Reader, ReaderData, ReaderSelect, ReaderError, ReaderExecute, ReaderStop,
       HeartbeatBeat, HeartbeatNotAlive, OthersOfReader, OthersOfHeartbeat, Leaves
  <2> QED
    BY <2>1, LeavesStep
<1>3. ASSUME NEW p \in Callers, NEW k \in Kinds, Call(p, k) PROVE LatestInv'
  <2>1. Leaves
    BY <1>3 DEF Call, NonSender, Leaves
  <2> QED
    BY <2>1, LeavesStep
<1>4. ASSUME NEW p \in Senders, SenderStep(p) PROVE LatestInv'
  <2>1. CASE \/ PreCheck(p) \/ RLock(p) \/ TestChan(p) \/ Check(p) \/ Write(p)
             \/ OfferPanics(p) \/ OfferTimeout(p)
    <3>1. Return(p) => \A q \in Senders : offerTo'[q] \in {offerTo[q], NoChan}
      BY DEF Return, Inv, TypeOK, SenderTypes
    <3>2. Leaves
      BY <2>1, <3>1 DEF PreCheck, RLock, TestChan, Check, Write, OfferPanics, OfferTimeout,
         NonSender, Leaves
    <3> QED
      BY <3>2, LeavesStep
  <2> QED
    BY <1>4, <2>1, MakeLatest, OfferLatest DEF SenderStep
<1>5. ASSUME NEW w \in Channels, WriterStep(w) PROVE LatestInv'
  BY <1>5, WriterLatest
<1>6. CASE PeerStalls \/ PeerResumes \/ PeerLeaves \/ TimePasses \/ UNCHANGED vars
  <2>1. Leaves
    BY <1>6 DEF PeerStalls, PeerResumes, PeerLeaves, TimePasses, NonPeer, vars, Leaves
  <2> QED
    BY <2>1, LeavesStep
<1> QED
  BY <1>1, <1>2, <1>3, <1>4, <1>5, <1>6 DEF Next

LEMMA LatestInit == Init => LatestInv
BY DEF Init, LatestInv

\* While the connection is up every accepted message is on the wire, with a
\* writer, in a channel a writer receives from next, or in a channel that a
\* second first caller replaced: nobody drops one otherwise, for any number of
\* callers (SendToQueue, SendBuffMsg, StartWriter).
THEOREM NothingDropped == Spec => []AcceptedIsKept
<1>1. Inv /\ AcceptedInv /\ LatestInv => AcceptedIsKept
  <2> SUFFICES ASSUME Inv, AcceptedInv, LatestInv, ~cancelled, peer # "gone",
                      NEW d \in Channels, NEW i \in DOMAIN buf[d]
               PROVE  \/ \E w \in Channels : wpc[w] \notin {"none", "done"} /\ Source(w) = d
                      \/ Overwritten /\ d # chan
    BY DEF AcceptedInv, AcceptedIsKept, InWire, InHand, InBuf
  <2>1. buf[d] # <<>> /\ chan \in Channels /\ chan # NoChan
    BY ConnectionAssumption DEF AcceptedInv, Inv, TypeOK, ChanTypes
  <2>2. wpc[chan] \notin {"none", "done"} /\ Source(chan) = chan
    BY <2>1 DEF LatestInv, Source
  <2>3. d # chan => Overwritten
    BY <2>1 DEF LatestInv
  <2> QED
    BY <2>1, <2>2, <2>3
<1> QED
  BY <1>1, AcceptedInit, AcceptedStep, LatestInit, LatestStep, Invariance, PTL DEF Spec

-----------------------------------------------------------------------------
(* The order of each caller's messages.                                     *)

\* If x and y are of one caller, x is the earlier one.
Earlier(x, y) == x[1] = y[1] => x[2] < y[2]

\* The messages of a caller get later from the wire to the writer and on through
\* the channel.
InLine ==
  ~Overwritten =>
    /\ \A i, j \in DOMAIN wire :
         wire[i] \in accepted /\ wire[j] \in accepted /\ i < j => Earlier(wire[i], wire[j])
    /\ \A w \in Channels : hand[w] # NoMessage =>
         /\ \A i \in DOMAIN wire : wire[i] \in accepted => Earlier(wire[i], hand[w])
         /\ \A c \in Channels : \A k \in DOMAIN buf[c] : Earlier(hand[w], buf[c][k])
    /\ \A c \in Channels : \A k \in DOMAIN buf[c] :
         /\ \A i \in DOMAIN wire : wire[i] \in accepted => Earlier(wire[i], buf[c][k])
         /\ \A l \in DOMAIN buf[c] : k < l => Earlier(buf[c][k], buf[c][l])

OrderInv == Inv /\ OnePlace /\ AcceptedInv /\ LatestInv /\ InLine

LEMMA OrderOffer ==
  ASSUME OrderInv, NEW p \in Callers, Offer(p)
  PROVE  InLine'
<1> USE DEF OrderInv
<1>1. PICK m, c : m = Message(p) /\ c = offerTo[p]
  OBVIOUS
<1>2. /\ spc[p] = "offer" /\ c # NoChan /\ UNCHANGED <<hand, wire, wpc>>
      /\ buf' = [buf EXCEPT ![c] = Append(@, m)] /\ accepted' = accepted \cup {m}
  BY <1>1 DEF Offer, writerVars, Inv, ChanInv, Senders
<1>3. m \in Messages /\ ~InWire(m) /\ ~InHand(m) /\ ~InBuf(m) /\ Sending(m)
  BY <1>1, <1>2, OwnMessage DEF Sending
<1>4. /\ buf \in [Channels -> Seq(Messages)] /\ wire \in Seq(Messages)
      /\ hand \in [Channels -> Messages \cup {NoMessage}] /\ c \in Channels
      /\ calls[p] \in Nat
  BY <1>1, <1>2, ConnectionAssumption DEF Inv, TypeOK, ChanTypes, SenderTypes, Senders
<1>5. ASSUME NEW x \in Messages, InWire(x) \/ InHand(x) \/ InBuf(x) PROVE Earlier(x, m)
  <2> SUFFICES ASSUME x[1] = p PROVE x[2] < m[2]
    BY <1>1 DEF Earlier, Message
  <2>1. x[2] <= calls[p] /\ ~Sending(x) /\ x = <<p, x[2]>> /\ x[2] \in Nat
    BY <1>5, ConnectionAssumption DEF OnePlace, Messages
  <2>2. m = <<p, calls[p]>>
    BY <1>1 DEF Message
  <2>3. x # m
    BY <1>3, <2>1
  <2>4. m[2] = calls[p]
    BY <2>2
  <2>5. x[2] # calls[p]
    BY <2>1, <2>2, <2>3
  <2>6. x[2] <= calls[p]
    BY <2>1
  <2> HIDE DEF OrderInv
  <2> QED
    BY <1>4, <2>1, <2>4, <2>5, <2>6
<1>6. /\ buf'[c] = Append(buf[c], m) /\ buf[c] \in Seq(Messages)
      /\ DOMAIN buf'[c] = DOMAIN buf[c] \cup {Len(buf[c]) + 1}
      /\ \A k \in DOMAIN buf[c] : buf'[c][k] = buf[c][k] /\ k < Len(buf[c]) + 1 /\ k \in Nat
      /\ buf'[c][Len(buf[c]) + 1] = m /\ Len(buf[c]) \in Nat
      /\ \A d \in Channels : d # c => buf'[d] = buf[d]
  <2>1. buf'[c] = Append(buf[c], m) /\ buf[c] \in Seq(Messages)
    BY <1>2, <1>4
  <2> QED
    BY <1>2, <1>3, <1>4, <2>1
<1>7. /\ \A i \in DOMAIN wire : Earlier(wire[i], m) /\ wire[i] # m
      /\ \A w \in Channels : hand[w] # NoMessage => Earlier(hand[w], m)
      /\ \A k \in DOMAIN buf[c] : Earlier(buf[c][k], m)
  <2>1. \A i \in DOMAIN wire : wire[i] \in Messages /\ InWire(wire[i])
    BY <1>4 DEF InWire
  <2>2. \A w \in Channels : hand[w] # NoMessage => hand[w] \in Messages /\ InHand(hand[w])
    BY <1>4 DEF InHand
  <2>3. \A k \in DOMAIN buf[c] : buf[c][k] \in Messages /\ InBuf(buf[c][k])
    BY <1>4, <1>6 DEF InBuf
  <2> QED
    BY <1>3, <1>5, <2>1, <2>2, <2>3
<1> SUFFICES ASSUME ~Overwritten
             PROVE  /\ \A i, j \in DOMAIN wire' :
                         wire'[i] \in accepted' /\ wire'[j] \in accepted' /\ i < j
                         => Earlier(wire'[i], wire'[j])
                    /\ \A w \in Channels : hand'[w] # NoMessage =>
                         /\ \A i \in DOMAIN wire' :
                              wire'[i] \in accepted' => Earlier(wire'[i], hand'[w])
                         /\ \A d \in Channels : \A k \in DOMAIN buf'[d] :
                              Earlier(hand'[w], buf'[d][k])
                    /\ \A d \in Channels : \A k \in DOMAIN buf'[d] :
                         /\ \A i \in DOMAIN wire' :
                              wire'[i] \in accepted' => Earlier(wire'[i], buf'[d][k])
                         /\ \A l \in DOMAIN buf'[d] : k < l => Earlier(buf'[d][k], buf'[d][l])
  BY <1>2 DEF InLine, Overwritten, Earlier
<1>8. /\ \A i \in DOMAIN wire : wire[i] \in accepted' <=> wire[i] \in accepted
      /\ InLine /\ ~Overwritten
  BY <1>2, <1>7
<1>9. ASSUME NEW d \in Channels, NEW k \in DOMAIN buf'[d]
      PROVE  /\ \A w \in Channels : hand[w] # NoMessage => Earlier(hand[w], buf'[d][k])
             /\ \A i \in DOMAIN wire : wire[i] \in accepted => Earlier(wire[i], buf'[d][k])
             /\ \A l \in DOMAIN buf'[d] : k < l => Earlier(buf'[d][k], buf'[d][l])
  <2>1. CASE d # c
    BY <1>6, <1>8, <2>1 DEF InLine
  <2>2. CASE d = c /\ k \in DOMAIN buf[c]
    <3>1. ASSUME NEW l \in DOMAIN buf'[c], k < l PROVE Earlier(buf'[c][k], buf'[c][l])
      <4>1. CASE l \in DOMAIN buf[c]
        BY <1>6, <1>8, <2>2, <3>1, <4>1 DEF InLine
      <4>2. CASE l = Len(buf[c]) + 1
        BY <1>6, <1>7, <2>2, <4>2
      <4> QED
        BY <1>6, <4>1, <4>2
    <3> QED
      BY <1>4, <1>6, <1>8, <2>2, <3>1 DEF InLine
  <2>3. CASE d = c /\ k = Len(buf[c]) + 1
    <3>1. \A l \in DOMAIN buf'[c] : ~(k < l)
      BY <1>6, <2>3
    <3> QED
      BY <1>6, <1>7, <2>3, <3>1
  <2> QED
    BY <1>6, <2>1, <2>2, <2>3
<1> QED
  BY <1>2, <1>8, <1>9 DEF InLine

LEMMA OrderReceive ==
  ASSUME OrderInv, NEW w \in Channels, WriterReceive(w)
  PROVE  InLine'
<1> USE DEF OrderInv
<1>1. PICK c : c = recvFrom[w]
  OBVIOUS
<1>2. /\ c \in Channels /\ wpc[w] = "recv" /\ buf[c] # <<>> /\ buf[c] \in Seq(Messages)
      /\ hand' = [hand EXCEPT ![w] = Head(buf[c])] /\ buf' = [buf EXCEPT ![c] = Tail(@)]
      /\ wpc' = [wpc EXCEPT ![w] = "write"] /\ UNCHANGED <<wire, accepted>>
  BY <1>1 DEF WriterReceive, LeaveSelect, NonWriter, senderVars, Inv, ChanInv, TypeOK, ChanTypes
<1>3. Overwritten' = Overwritten
  BY <1>2 DEF Overwritten, Inv, TypeOK, ChanTypes
<1> SUFFICES ASSUME ~Overwritten PROVE InLine'
  BY <1>3 DEF InLine
<1>4. /\ \A d \in Channels : d # c => buf'[d] = buf[d] /\ buf[d] = <<>>
      /\ buf'[c] = Tail(buf[c]) /\ 1 \in DOMAIN buf[c] /\ hand'[w] = buf[c][1]
      /\ \A v \in Channels : v # w => hand'[v] = NoMessage
  <2>1. \A v \in Channels : v # w => wpc[v] = "none"
    BY <1>2 DEF LatestInv
  <2>2. \A d \in Channels : d # c => buf[d] = <<>>
    BY <1>2 DEF LatestInv
  <2> QED
    BY <1>2, <2>1, <2>2 DEF AcceptedInv, Inv, TypeOK, ChanTypes
<1>5. \A k \in DOMAIN buf'[c] : /\ k \in Nat /\ 1 < k + 1 /\ k + 1 \in DOMAIN buf[c]
                                /\ buf'[c][k] = buf[c][k + 1]
  <2>1. DOMAIN Tail(buf[c]) = 1..(Len(buf[c]) - 1) /\ Len(buf[c]) \in Nat
    BY <1>2
  <2>2. \A k \in 1..(Len(buf[c]) - 1) : Tail(buf[c])[k] = buf[c][k + 1]
    BY <1>2
  <2>3. DOMAIN buf[c] = 1..Len(buf[c])
    BY <1>2
  <2>4. \A k \in 1..(Len(buf[c]) - 1) : k \in Nat /\ 1 < k + 1 /\ k + 1 \in DOMAIN buf[c]
    BY <2>1, <2>3
  <2>5. buf'[c] = Tail(buf[c])
    BY <1>4
  <2> QED
    BY <2>1, <2>2, <2>4, <2>5
<1>6. ASSUME NEW i \in DOMAIN wire, wire[i] \in accepted
      PROVE  /\ Earlier(wire[i], hand'[w])
             /\ \A k \in DOMAIN buf'[c] : Earlier(wire[i], buf'[c][k])
  BY <1>2, <1>4, <1>5, <1>6 DEF InLine
<1>7. ASSUME NEW k \in DOMAIN buf'[c]
      PROVE  /\ Earlier(hand'[w], buf'[c][k])
             /\ \A l \in DOMAIN buf'[c] : k < l => Earlier(buf'[c][k], buf'[c][l])
  <2>1. Earlier(hand'[w], buf'[c][k])
    BY <1>2, <1>4, <1>5 DEF InLine
  <2>2. ASSUME NEW l \in DOMAIN buf'[c], k < l PROVE Earlier(buf'[c][k], buf'[c][l])
    <3>1. k + 1 < l + 1
      BY <1>5, <2>2
    <3> QED
      BY <1>2, <1>5, <3>1 DEF InLine
  <2> QED
    BY <2>1, <2>2
<1>8. \A d \in Channels : d # c => DOMAIN buf'[d] = {}
  BY <1>4
<1> QED
  BY <1>2, <1>4, <1>6, <1>7, <1>8 DEF InLine, Earlier

\* What is appended to the wire comes after the accepted messages that are there.
LEMMA OrderAppend ==
  ASSUME OrderInv, ~Overwritten, NEW m \in Messages,
         wire' = Append(wire, m), accepted' = accepted,
         m \in accepted => \A i \in DOMAIN wire : wire[i] \in accepted => Earlier(wire[i], m)
  PROVE  /\ \A i, j \in DOMAIN wire' :
              wire'[i] \in accepted' /\ wire'[j] \in accepted' /\ i < j
              => Earlier(wire'[i], wire'[j])
         /\ \A i \in DOMAIN wire' : \/ wire'[i] = m
                                    \/ i \in DOMAIN wire /\ wire'[i] = wire[i]
<1>1. wire \in Seq(Messages)
  BY DEF OrderInv, Inv, TypeOK, ChanTypes
<1>2. /\ DOMAIN wire' = DOMAIN wire \cup {Len(wire) + 1} /\ Len(wire) \in Nat
      /\ \A i \in DOMAIN wire : wire'[i] = wire[i] /\ i \in Nat /\ i < Len(wire) + 1
      /\ wire'[Len(wire) + 1] = m
  BY <1>1
<1>3. ASSUME NEW i \in DOMAIN wire', NEW j \in DOMAIN wire', i < j,
             wire'[i] \in accepted, wire'[j] \in accepted
      PROVE  Earlier(wire'[i], wire'[j])
  <2>1. i \in DOMAIN wire
    BY <1>2, <1>3
  <2>2. CASE j \in DOMAIN wire
    BY <1>2, <1>3, <2>1, <2>2 DEF OrderInv, InLine
  <2>3. CASE j = Len(wire) + 1
    BY <1>2, <1>3, <2>1, <2>3
  <2> QED
    BY <1>2, <2>2, <2>3
<1> QED
  BY <1>2, <1>3

LEMMA OrderWrite ==
  ASSUME OrderInv, ~Overwritten, NEW m \in Messages,
         wire' = Append(wire, m), UNCHANGED <<wpc, buf, accepted>>,
         \A w \in Channels : hand'[w] \in {hand[w], NoMessage},
         m \in accepted =>
           /\ \A i \in DOMAIN wire : wire[i] \in accepted => Earlier(wire[i], m)
           /\ \A c \in Channels : \A k \in DOMAIN buf[c] : Earlier(m, buf[c][k])
           /\ \A w \in Channels : hand'[w] = NoMessage
  PROVE  InLine'
<1>1. /\ \A i, j \in DOMAIN wire' :
           wire'[i] \in accepted' /\ wire'[j] \in accepted' /\ i < j
           => Earlier(wire'[i], wire'[j])
      /\ \A i \in DOMAIN wire' : \/ wire'[i] = m
                                 \/ i \in DOMAIN wire /\ wire'[i] = wire[i]
  BY OrderAppend
<1>2. ASSUME NEW w \in Channels, hand'[w] # NoMessage
      PROVE  /\ \A i \in DOMAIN wire' : wire'[i] \in accepted => Earlier(wire'[i], hand'[w])
             /\ \A c \in Channels : \A k \in DOMAIN buf[c] : Earlier(hand'[w], buf[c][k])
  BY <1>1, <1>2 DEF OrderInv, InLine
<1>3. ASSUME NEW c \in Channels, NEW k \in DOMAIN buf[c]
      PROVE  /\ \A i \in DOMAIN wire' : wire'[i] \in accepted => Earlier(wire'[i], buf[c][k])
             /\ \A l \in DOMAIN buf[c] : k < l => Earlier(buf[c][k], buf[c][l])
  BY <1>1 DEF OrderInv, InLine
<1> QED
  BY <1>1, <1>2, <1>3 DEF InLine, Earlier

LEMMA OrderStep == OrderInv /\ [Next]_vars => InLine'
<1> SUFFICES ASSUME OrderInv, [Next]_vars PROVE InLine'
  OBVIOUS
<1> USE DEF connVars, lockVars, senderVars, chanVars, writerVars
<1>a. Overwritten => Overwritten'
  BY StaysStarted DEF OrderInv
<1> SUFFICES ASSUME ~Overwritten PROVE InLine'
  BY <1>a DEF InLine
<1>0. ASSUME UNCHANGED <<buf, hand, wire, accepted>> PROVE InLine'
  BY <1>0 DEF OrderInv, InLine, Earlier
<1>1. CASE Main \/ HookPanics \/ Stop \/ ClearConn
  BY <1>0, <1>1 DEF Main, HookPanics, Stop, ClearConn, Start, CallOnConnStart, HeartbeatStart,
     UpdateActivity, UseWorker, CtxDone, CallOnConnStop, LockRequest, LockAcquire,
     HeartbeatStop, CloseSocket, CloseChan, MarkClosed, FreeWorker, OthersOfMain
<1>2. CASE Reader \/ ReaderData \/ HeartbeatBeat \/ HeartbeatNotAlive
  BY <1>0, <1>2 DEF Reader, ReaderData, ReaderSelect, ReaderError, ReaderExecute, ReaderStop,
     HeartbeatBeat, HeartbeatNotAlive, OthersOfReader, OthersOfHeartbeat
<1>3. ASSUME NEW p \in Callers, NEW k \in Kinds, Call(p, k) PROVE InLine'
  BY <1>0, <1>3 DEF Call
<1>4. ASSUME NEW p \in Senders, SenderStep(p), ~Write(p), ~Offer(p) PROVE InLine'
  BY <1>0, <1>4 DEF SenderStep, PreCheck, RLock, TestChan, MakeChan, Check, EnterSelect,
     OfferPanics, OfferTimeout
<1>5. ASSUME NEW p \in Senders, Offer(p) PROVE InLine'
  <2>1. p \in Callers
    BY <1>5 DEF Offer, OrderInv, Inv, ChanInv, Senders
  <2> QED
    BY <1>5, <2>1, OrderOffer
<1>6. ASSUME NEW p \in Senders, Write(p) PROVE InLine'
  <2>1. CASE UNCHANGED wire
    BY <1>0, <1>6, <2>1 DEF Write
  <2>2. CASE p \in Callers /\ wire' = Append(wire, Message(p))
    <3>1. PICK m : m = Message(p)
      OBVIOUS
    <3>2. m \in Messages /\ m \notin accepted
      <4>1. spc[p] # "idle"
        BY <1>6 DEF Write
      <4> QED
        BY <2>2, <3>1, <4>1, OwnMessage DEF OrderInv, AcceptedInv, Sending
    <3>3. UNCHANGED <<buf, hand, accepted, wpc>>
      BY <1>6 DEF Write
    <3> QED
      BY <2>2, <3>1, <3>2, <3>3, OrderWrite
  <2> QED
    BY <1>6, <2>1, <2>2 DEF Write, Senders
<1>7. ASSUME NEW w \in Channels, WriterStep(w) PROVE InLine'
  <2>1. CASE WriterSelect(w) \/ WriterClosed(w) \/ WriterDone(w)
    BY <1>0, <2>1 DEF WriterSelect, WriterClosed, WriterDone, NonWriter
  <2>2. CASE WriterWrite(w)
    <3>1. PICK m : m = hand[w]
      OBVIOUS
    <3>2. /\ wpc[w] = "write" /\ hand' = [hand EXCEPT ![w] = NoMessage] /\ UNCHANGED <<buf, accepted>>
          /\ wire' = wire \/ wire' = Append(wire, m)
          /\ m \in Messages /\ m # NoMessage
      BY <2>2, <3>1, ConnectionAssumption
         DEF WriterWrite, NonWriter, OrderInv, Inv, TypeOK, ChanTypes, ChanInv, Messages
    <3>3. \A v \in Channels : hand'[v] = NoMessage
      <4>1. \A v \in Channels : v # w => hand[v] = NoMessage
        BY <3>2 DEF OrderInv, LatestInv, AcceptedInv
      <4> QED
        BY <3>2, <4>1 DEF OrderInv, Inv, TypeOK, ChanTypes
    <3>4. /\ \A i \in DOMAIN wire : wire[i] \in accepted => Earlier(wire[i], m)
          /\ \A c \in Channels : \A k \in DOMAIN buf[c] : Earlier(m, buf[c][k])
      BY <3>1, <3>2 DEF OrderInv, InLine
    <3>5. CASE wire' = wire
      BY <3>2, <3>3, <3>5 DEF OrderInv, InLine, Earlier
    <3>6. CASE wire' = Append(wire, m)
      <4>1. /\ \A i, j \in DOMAIN wire' :
                 wire'[i] \in accepted' /\ wire'[j] \in accepted' /\ i < j
                 => Earlier(wire'[i], wire'[j])
            /\ \A i \in DOMAIN wire' : \/ wire'[i] = m
                                       \/ i \in DOMAIN wire /\ wire'[i] = wire[i]
        BY <3>2, <3>4, <3>6, OrderAppend
      <4>2. ASSUME NEW c \in Channels, NEW k \in DOMAIN buf[c]
            PROVE  /\ \A i \in DOMAIN wire' : wire'[i] \in accepted => Earlier(wire'[i], buf[c][k])
                   /\ \A l \in DOMAIN buf[c] : k < l => Earlier(buf[c][k], buf[c][l])
        BY <3>4, <4>1 DEF OrderInv, InLine
      <4> QED
        BY <3>2, <3>3, <4>1, <4>2 DEF InLine, Earlier
    <3> QED
      BY <3>2, <3>5, <3>6
  <2> QED
    BY <1>7, <2>1, <2>2, OrderReceive DEF WriterStep
<1>8. CASE PeerStalls \/ PeerResumes \/ PeerLeaves \/ TimePasses \/ UNCHANGED vars
  BY <1>0, <1>8 DEF PeerStalls, PeerResumes, PeerLeaves, TimePasses, NonPeer, vars
<1> QED
  BY <1>1, <1>2, <1>3, <1>4, <1>5, <1>6, <1>7, <1>8 DEF Next

\* As long as msgBuffChan was not replaced, the buffered messages of every caller
\* reach the wire in the order of its calls, for any number of callers and
\* whatever methods they use in between (SendToQueue, SendBuffMsg, StartWriter).
THEOREM CallersInOrder == Spec => []BufferedInOrder
<1>1. Init => InLine
  BY DEF Init, InLine
<1>2. Init => OrderInv
  BY <1>1, InitInv, OnePlaceInit, AcceptedInit, LatestInit DEF OrderInv
<1>3. OrderInv /\ [Next]_vars => OrderInv'
  BY InvStep, OnePlaceStep, AcceptedStep, LatestStep, OrderStep DEF OrderInv
<1>4. OrderInv => BufferedInOrder
  BY DEF OrderInv, InLine, BufferedInOrder, Earlier
<1> QED
  BY <1>2, <1>3, <1>4, PTL DEF Spec

-----------------------------------------------------------------------------
(***************************************************************************)
(* The WebSocket connection.  Calls that were under way when the finalizer *)
(* came find an open connection, and a closed connection is detached: for  *)
(* any number of callers and calls and any capacity of the channel.        *)
(***************************************************************************)

\* The phases of a sender in which it holds the read lock.
InLock == {"lazy", "create", "check", "write", "select", "offer"}

Reading ==
  /\ spc \in [Senders -> SenderPhases]
  /\ readers \subseteq Senders /\ late \subseteq readers
  /\ \A p \in Senders : p \in readers <=> spc[p] \in InLock

\* The finalizer's turn comes when nobody holds the read lock, so whoever holds
\* it afterwards came later.
LateInTurn == mpc \in Turn => readers \subseteq late

\* Nothing is closed before the finalizer's turn.
ClosedInTurn == ~sockOpen \/ closedChans # {} => mpc \in Turn \cup {"dead"}

\* What Start and the finalizer have done in each phase.
Done ==
  /\ mpc \in {"onstop", "lock", "acquire"} \cup Turn => cancelled
  /\ mpc \in {"close", "closechan", "markclosed"} \cup Finished => hb # "on"
  /\ mpc \in {"closechan", "markclosed"} \cup Finished => ~sockOpen /\ ~registered
  /\ isClosed => mpc \in Finished \cup {"dead"}
  /\ ~HasHeartbeat => hb = "off" /\ mpc # "hbstart"

WsInv == /\ Reading /\ LateInTurn /\ ClosedInTurn /\ Done
        /\ EarlyCallsUnharmed /\ ClosedIsDetached

-----------------------------------------------------------------------------
\* A call that holds the lock since before the finalizer's turn.
LEMMA Early == Reading /\ LateInTurn /\ ClosedInTurn /\ mpc # "dead" => EarlyCallsUnharmed
BY DEF Reading, LateInTurn, ClosedInTurn, EarlyCallsUnharmed, InLock

LEMMA WsInitInv == WsInit => WsInv
<1> SUFFICES ASSUME WsInit PROVE WsInv
  OBVIOUS
<1>1. Reading
  BY DEF WsInit, Init, Reading, SenderPhases, InLock
<1>2. LateInTurn /\ ClosedInTurn /\ Done /\ ClosedIsDetached
  BY DEF WsInit, Init, LateInTurn, ClosedInTurn, Done, ClosedIsDetached, Turn, Finished
<1>3. mpc # "dead"
  BY DEF WsInit, Init
<1> QED
  BY <1>1, <1>2, <1>3, Early DEF WsInv

-----------------------------------------------------------------------------
(* Start and the finalizer: the senders stand still                         *)

LEMMA MainStep ==
  ASSUME WsInv, WsMain, UNCHANGED late, mpc # "dead"
  PROVE  WsInv'
<1>1. UNCHANGED <<spc, readers, offerTo, late>>
  BY DEF WsMain, WsStart, WsFinalizer, Start, CallOnConnStart, HeartbeatStart,
         UpdateActivity, UseWorker, CtxDone, FreeWorker, CallOnConnStop, LockRequest,
         WsLock, HeartbeatStop, CloseSocket, CloseChan, MarkClosed, OthersOfMain,
         lockVars, senderVars
<1>2. Reading'
  BY <1>1 DEF WsInv, Reading
<1>3. LateInTurn' /\ ClosedInTurn' /\ Done' /\ ClosedIsDetached' /\ mpc' # "dead"
  <2> USE <1>1 DEF WsInv, LateInTurn, ClosedInTurn, Done, ClosedIsDetached, Goto, Turn,
          Finished, OthersOfMain, connVars, chanVars
  <2>1. CASE Start
    BY <2>1 DEF Start
  <2>2. CASE CallOnConnStart
    BY <2>2 DEF CallOnConnStart
  <2>3. CASE HeartbeatStart
    BY <2>3 DEF HeartbeatStart
  <2>4. CASE UpdateActivity
    BY <2>4 DEF UpdateActivity
  <2>5. CASE UseWorker
    BY <2>5 DEF UseWorker
  <2>6. CASE CtxDone
    BY <2>6 DEF CtxDone
  <2>7. CASE FreeWorker
    BY <2>7 DEF FreeWorker
  <2>8. CASE CallOnConnStop
    BY <2>8 DEF CallOnConnStop
  <2>9. CASE LockRequest
    BY <2>9 DEF LockRequest
  <2>10. CASE WsLock
    BY <2>10 DEF WsLock
  <2>11. CASE HeartbeatStop
    BY <2>11 DEF HeartbeatStop
  <2>12. CASE CloseSocket
    BY <2>12 DEF CloseSocket
  <2>13. CASE CloseChan
    BY <2>13 DEF CloseChan
  <2>14. CASE MarkClosed
    BY <2>14 DEF MarkClosed
  <2> QED
    BY <2>1, <2>2, <2>3, <2>4, <2>5, <2>6, <2>7, <2>8, <2>9, <2>10, <2>11, <2>12,
       <2>13, <2>14 DEF WsMain, WsStart, WsFinalizer
<1>4. EarlyCallsUnharmed'
  BY <1>2, <1>3 DEF Reading, LateInTurn, ClosedInTurn, EarlyCallsUnharmed, InLock
<1> QED
  BY <1>2, <1>3, <1>4 DEF WsInv

\* The process ends; nothing else changes.
LEMMA PanicStep ==
  ASSUME WsInv, WsPanics, UNCHANGED late
  PROVE  WsInv'
BY DEF WsInv, WsPanics, Reading, LateInTurn, ClosedInTurn, Done, EarlyCallsUnharmed,
       ClosedIsDetached, Turn, Finished, connVars, OthersOfMain, lockVars, senderVars,
       chanVars

-----------------------------------------------------------------------------
(* Steps that neither the lock nor what it protects takes part in           *)

Quiet ==
  /\ UNCHANGED <<mpc, sockOpen, isClosed, hb, readers, spc, offerTo, closedChans, late>>
  /\ cancelled => cancelled'
  /\ registered' => registered

LEMMA QuietStep == ASSUME WsInv, Quiet PROVE WsInv'
BY DEF Quiet, WsInv, Reading, LateInTurn, ClosedInTurn, Done, EarlyCallsUnharmed,
       ClosedIsDetached

LEMMA QuietActions ==
  ASSUME UNCHANGED late,
         \/ Stop \/ ClearConn
         \/ WsReader \/ WsReadData \/ WsReadPing
         \/ HeartbeatNotAlive
         \/ \E w \in Channels : WsWriter(w)
         \/ PeerStalls \/ PeerResumes \/ PeerLeaves \/ TimePasses
  PROVE  Quiet
<1> USE DEF Quiet, lockVars, connVars, senderVars, chanVars
<1>1. CASE Stop \/ ClearConn
  BY <1>1 DEF Stop, ClearConn, OthersOfMain
<1>2. CASE WsReader \/ WsReadData \/ WsReadPing
  BY <1>2 DEF WsReader, ReaderSelect, WsReadError, WsExecuted, ReaderStop, WsReadData,
              WsReadPing, OthersOfReader
<1>3. CASE HeartbeatNotAlive
  BY <1>3 DEF HeartbeatNotAlive, OthersOfHeartbeat
<1>4. CASE \E w \in Channels : WsWriter(w)
  BY <1>4 DEF WsWriter, WriterSelect, WriterReceive, WriterClosed, WriterDone,
              WsWriterWrite, NonWriter
<1>5. CASE PeerStalls \/ PeerResumes \/ PeerLeaves \/ TimePasses
  BY <1>5 DEF PeerStalls, PeerResumes, PeerLeaves, TimePasses, NonPeer
<1> QED
  BY <1>1, <1>2, <1>3, <1>4, <1>5

-----------------------------------------------------------------------------
(* Senders                                                                  *)

\* A sender moves between phases, and takes, keeps or gives back the lock.
Moves(p) ==
  /\ UNCHANGED <<mpc, connVars, hb, closedChans>>
  /\ \E to \in SenderPhases :
       /\ spc' = [spc EXCEPT ![p] = to]
       /\ readers' = IF to \in InLock THEN readers \cup {p} ELSE readers \ {p}
  /\ late' \subseteq readers'
  /\ mpc \in Turn => readers' \subseteq late'

LEMMA SenderMoves ==
  ASSUME WsInv, mpc # "dead", NEW p \in Senders, Moves(p)
  PROVE  WsInv'
<1>1. Reading'
  <2>1. PICK to \in SenderPhases :
          /\ spc' = [spc EXCEPT ![p] = to]
          /\ readers' = IF to \in InLock THEN readers \cup {p} ELSE readers \ {p}
    BY DEF Moves
  <2> QED
    BY <2>1 DEF WsInv, Reading, Moves
<1>2. LateInTurn' /\ ClosedInTurn' /\ Done' /\ ClosedIsDetached' /\ mpc' # "dead"
  BY DEF WsInv, Moves, LateInTurn, ClosedInTurn, Done, ClosedIsDetached, connVars, Turn
<1>3. EarlyCallsUnharmed'
  BY <1>1, <1>2 DEF Reading, LateInTurn, ClosedInTurn, EarlyCallsUnharmed, InLock
<1> QED
  BY <1>1, <1>2, <1>3 DEF WsInv

\* A call and a beat come to the lock.
LEMMA Calls ==
  ASSUME WsInv, NEW p \in Senders, spc[p] = "idle",
         spc' = [spc EXCEPT ![p] = "rlock"],
         UNCHANGED <<mpc, connVars, hb, closedChans, readers, late>>
  PROVE  Moves(p)
<1>1. readers' = readers \ {p}
  BY DEF WsInv, Reading, InLock
<1> QED
  BY <1>1 DEF Moves, WsInv, Reading, LateInTurn, InLock, SenderPhases

LEMMA RLockMoves ==
  ASSUME WsInv, NEW p \in Senders, WsRLock(p)
  PROVE  Moves(p)
<1>1. UNCHANGED <<mpc, connVars, hb, closedChans>>
  BY DEF WsRLock, NonSender, chanVars
<1>2. PICK to \in {"lazy", "check"} : spc' = [spc EXCEPT ![p] = to]
  BY DEF WsRLock, At
<1>3. readers' = readers \cup {p}
  BY DEF WsRLock
<1>4. late' \subseteq readers' /\ (mpc \in Turn => readers' \subseteq late')
  BY <1>3 DEF WsInv, Reading, LateInTurn, WsRLock
<1> QED
  BY <1>1, <1>2, <1>3, <1>4 DEF Moves, InLock, SenderPhases

LEMMA LockedMoves ==
  ASSUME WsInv, NEW p \in Senders, WsLocked(p), late' = late \cap readers'
  PROVE  Moves(p)
<1>1. UNCHANGED <<mpc, connVars, hb, closedChans>> /\ spc[p] \in InLock
  BY DEF WsLocked, WsTestChan, WsMakeChan, WsCheck, Write, EnterSelect, Offer, OfferPanics,
         OfferTimeout, At, InLock, NonSender, chanVars
<1>2. \E to \in SenderPhases :
        /\ spc' = [spc EXCEPT ![p] = to]
        /\ readers' = IF to \in InLock THEN readers \cup {p} ELSE readers \ {p}
  <2>1. p \in readers /\ readers = readers \cup {p}
    BY <1>1 DEF WsInv, Reading
  <2>2. CASE Return(p)
    BY <2>2 DEF Return, InLock, SenderPhases
  <2>3. CASE UNCHANGED readers /\ \E to \in InLock : spc' = [spc EXCEPT ![p] = to]
    BY <2>1, <2>3 DEF InLock, SenderPhases
  <2>4. CASE WsTestChan(p) \/ WsMakeChan(p) \/ EnterSelect(p)
    BY <2>3, <2>4 DEF WsTestChan, WsMakeChan, EnterSelect, At, lockVars, InLock
  <2>5. CASE WsCheck(p)
    BY <2>2, <2>3, <2>5 DEF WsCheck, lockVars, InLock
  <2>6. CASE Write(p) \/ Offer(p) \/ OfferPanics(p) \/ OfferTimeout(p)
    BY <2>2, <2>6 DEF Write, Offer, OfferPanics, OfferTimeout
  <2> QED
    BY <2>4, <2>5, <2>6 DEF WsLocked
<1>3. readers' \subseteq readers
  BY <1>1, <1>2 DEF WsInv, Reading
<1>4. late' \subseteq readers' /\ (mpc \in Turn => readers' \subseteq late')
  BY <1>3 DEF WsInv, LateInTurn
<1> QED
  BY <1>1, <1>2, <1>4 DEF Moves

-----------------------------------------------------------------------------
LEMMA WsNextInv == WsInv /\ [WsNext]_wsVars => WsInv'
<1> SUFFICES ASSUME WsInv, [WsNext]_wsVars PROVE WsInv'
  OBVIOUS
<1>1. CASE UNCHANGED wsVars
  <2>1. Quiet
    BY <1>1 DEF wsVars, vars, Quiet, connVars, lockVars, senderVars, chanVars
  <2> QED
    BY <2>1, QuietStep
<1>2. CASE WsNext
  <2>1. mpc # "dead"
    BY <1>2 DEF WsNext
  <2>2. CASE UNCHANGED late /\ WsMain
    BY <2>1, <2>2, MainStep
  <2>3. CASE UNCHANGED late /\ WsPanics
    BY <2>3, PanicStep
  <2>4. CASE /\ UNCHANGED late
             /\ \/ Stop \/ ClearConn \/ WsReader \/ WsReadData \/ WsReadPing
                \/ HeartbeatNotAlive \/ \E w \in Channels : WsWriter(w)
                \/ PeerStalls \/ PeerResumes \/ PeerLeaves \/ TimePasses
    BY <2>4, QuietActions, QuietStep
  <2>5. CASE UNCHANGED late /\ WsBeat
    <3>1. Hb \in Senders
      BY DEF Senders
    <3>2. Moves(Hb)
      BY <2>5, <3>1, Calls DEF WsBeat, OthersOfHeartbeat, connVars, lockVars, chanVars
    <3> QED
      BY <2>1, <3>1, <3>2, SenderMoves
  <2>6. CASE UNCHANGED late /\ \E p \in Callers, k \in Kinds : WsCall(p, k)
    <3>1. PICK p \in Callers, k \in Kinds : WsCall(p, k)
      BY <2>6
    <3>2. p \in Senders
      BY DEF Senders
    <3>3. Moves(p)
      BY <2>6, <3>1, <3>2, Calls DEF WsCall, At, NonSender, lockVars, chanVars
    <3> QED
      BY <2>1, <3>2, <3>3, SenderMoves
  <2>7. CASE \E p \in Senders : WsSender(p)
    BY <2>1, <2>7, RLockMoves, LockedMoves, SenderMoves DEF WsSender
  <2> QED
    BY <1>2, <2>2, <2>3, <2>4, <2>5, <2>6, <2>7 DEF WsNext
<1> QED
  BY <1>1, <1>2

\* The invariant holds: which senders hold the lock and since when, and what is
\* closed in which phase of the finalizer (ws_connection.go).
THEOREM WsInvariance == WsSpec => []WsInv
BY WsInitInv, WsNextInv, PTL DEF WsSpec

\* The finalizer's Lock and Unlock make it wait for every call under way, which
\* finds the socket and the channel open (finalizer).
THEOREM EarlyCallsAreSafe == WsSpec => []EarlyCallsUnharmed
<1>1. WsInv => EarlyCallsUnharmed
  BY DEF WsInv
<1> QED
  BY <1>1, WsInvariance, PTL

\* A WebSocket connection that shows itself closed is detached (finalizer).
THEOREM WsDetachedWhenClosed == WsSpec => []ClosedIsDetached
<1>1. WsInv => ClosedIsDetached
  BY DEF WsInv
<1> QED
  BY <1>1, WsInvariance, PTL
=============================================================================

----------------------------- MODULE ServerProof -----------------------------
(***************************************************************************)
(* Proofs about Server: the connection limit, the worker pool, the order   *)
(* of a connection's requests, and what Server.Stop reaches.               *)
(***************************************************************************)
EXTENDS Server, FiniteSetTheorems, SequenceTheorems, TLAPS

\* The accept loop passed the gate only below the limit, and connections are
\* numbered in the order they were accepted.
AcceptInv ==
  /\ Cardinality(registered) <= MaxConn
  /\ apc = "accept" => Cardinality(registered) < MaxConn
  /\ \A c \in Conns : stage[c] = "none" <=> cID < c
  /\ \A c \in registered : stage[c] # "none"
  /\ stopPc = "no" => {c \in Conns : Open(c)} \subseteq registered

\* A connection past useWorker has a worker, its reader runs from then on, and
\* only a cancelled one leaves the wait.
PoolInv ==
  /\ \A c \in Conns :
       /\ stage[c] \in {"none", "new", "start"} => rpc[c] = "none"
       /\ stage[c] \in {"serving", "onstop", "closed"} => workerID[c] \in Workers
       /\ rpc[c] # "none" => workerID[c] \in Workers
       /\ stage[c] \in {"onstop", "closed", "done"} => c \in cancelled
  /\ LostToPanicsOnly

\* Request req waits at or runs on worker w.
Belongs(req, w) ==
  /\ workerID[req[1]] = w /\ rpc[req[1]] # "none"
  /\ handled[req[1]] < req[2] /\ req[2] <= arrived[req[1]]
  /\ rpc[req[1]] = "send" => req[2] < arrived[req[1]]

\* The requests of a connection are all at its worker, in increasing order.
OrderInv ==
  /\ \A c \in Conns : /\ handled[c] <= arrived[c]
                      /\ rpc[c] = "send" => handled[c] < arrived[c]
  /\ \A w \in Workers : \A i \in DOMAIN taskQueue[w] :
       /\ Belongs(taskQueue[w][i], w)
       /\ \A j \in DOMAIN taskQueue[w] :
            i < j /\ taskQueue[w][i][1] = taskQueue[w][j][1]
            => taskQueue[w][i][2] < taskQueue[w][j][2]
  /\ \A w \in Workers : running[w] # None =>
       /\ Belongs(running[w], w)
       /\ \A i \in DOMAIN taskQueue[w] :
            running[w][1] = taskQueue[w][i][1]
            => running[w][2] < taskQueue[w][i][2]

\* What was registered when Stop began is still registered or was cancelled,
\* and once its shard is scanned it is in the snapshot or was cancelled.
StopInv ==
  /\ stopPc \in {"clear", "exit"} => atStop \subseteq registered \cup cancelled
  /\ stopPc = "no" => scanned = {}
  /\ stopPc = "clear" => atStop \cap scanned \subseteq snapshot \cup cancelled
  /\ StopReachesAll

Inv == TypeOK /\ AcceptInv /\ PoolInv /\ OrderInv /\ StopInv

-----------------------------------------------------------------------------
(* Facts about the constants and the operators.                             *)

\* The pool has a worker, and a ConnID selects one.
LEMMA PoolFacts ==
  /\ WorkerPoolSize \in Nat \ {0}
  /\ \A c \in Conns : c \in Nat /\ c % WorkerPoolSize \in Workers
<1>1. WorkerPoolSize \in Nat \ {0}
  BY ServerAssumption DEF WorkerPoolSize
<1>2. \A c \in Conns : c \in Nat
  BY ServerAssumption DEF Conns
<1>3. ASSUME NEW c \in Conns PROVE c % WorkerPoolSize \in Workers
  <2>1. c % WorkerPoolSize \in 0..(WorkerPoolSize - 1)
    <3> HIDE DEF WorkerPoolSize
    <3> QED
      BY <1>1, <1>2
  <2> QED
    BY <2>1 DEF Workers
<1> QED
  BY <1>1, <1>2, <1>3

\* A set of connections is finite, and one more or one less counts as such.
LEMMA ConnSets ==
  ASSUME NEW S \in SUBSET Conns
  PROVE  /\ IsFiniteSet(S) /\ Cardinality(S) \in Nat
         /\ \A c : /\ Cardinality(S \ {c}) <= Cardinality(S)
                   /\ c \notin S => Cardinality(S \cup {c}) = Cardinality(S) + 1
<1>1. IsFiniteSet(Conns)
  BY ServerAssumption, FS_Interval DEF Conns
<1>2. IsFiniteSet(S)
  BY <1>1, FS_Subset
<1>3. Cardinality(S) \in Nat
  BY <1>2, FS_CardinalityType
<1>4. ASSUME NEW c
      PROVE  /\ Cardinality(S \ {c}) <= Cardinality(S)
             /\ c \notin S => Cardinality(S \cup {c}) = Cardinality(S) + 1
  <2>1. Cardinality(S \ {c}) =
          IF c \in S THEN Cardinality(S) - 1 ELSE Cardinality(S)
    BY <1>2, FS_RemoveElement
  <2>2. Cardinality(S \cup {c}) =
          IF c \in S THEN Cardinality(S) ELSE Cardinality(S) + 1
    BY <1>2, FS_AddElement
  <2> QED
    BY <1>3, <2>1, <2>2
<1> QED
  BY <1>2, <1>3, <1>4

\* Appending one element.
LEMMA Appended ==
  ASSUME NEW S, NEW s \in Seq(S), NEW e \in S
  PROVE  /\ Append(s, e) \in Seq(S)
         /\ \A i \in DOMAIN Append(s, e) :
              \/ i \in DOMAIN s /\ Append(s, e)[i] = s[i]
              \/ i = Len(s) + 1 /\ Append(s, e)[i] = e
         /\ \A i \in DOMAIN s : i \in Nat /\ i < Len(s) + 1
<1>1. Len(s) \in Nat /\ DOMAIN s = 1..Len(s)
  BY LenProperties
<1>2. /\ Append(s, e) \in Seq(S) /\ Len(Append(s, e)) = Len(s) + 1
      /\ \A i \in 1..Len(s) : Append(s, e)[i] = s[i]
      /\ Append(s, e)[Len(s) + 1] = e
  BY AppendProperties
<1>3. DOMAIN Append(s, e) = 1..(Len(s) + 1)
  BY <1>2, LenProperties
<1> QED
  BY <1>1, <1>2, <1>3

\* The tail of a non-empty sequence.
LEMMA Tailed ==
  ASSUME NEW S, NEW s \in Seq(S), s # <<>>
  PROVE  /\ Head(s) \in S /\ Tail(s) \in Seq(S)
         /\ 1 \in DOMAIN s /\ Head(s) = s[1]
         /\ \A i \in DOMAIN Tail(s) :
              i \in Nat \ {0} /\ i + 1 \in DOMAIN s /\ Tail(s)[i] = s[i + 1]
<1>1. Len(s) \in Nat \ {0} /\ DOMAIN s = 1..Len(s)
  BY LenProperties, EmptySeq
<1>2. /\ Head(s) = s[1] /\ Tail(s) \in Seq(S) /\ Len(Tail(s)) = Len(s) - 1
      /\ \A i \in 1..Len(Tail(s)) : Tail(s)[i] = s[i + 1]
  BY HeadTailProperties
<1>3. DOMAIN Tail(s) = 1..(Len(s) - 1)
  BY <1>2, LenProperties
<1>4. s[1] \in S
  BY <1>1, ElementOfSeq
<1> QED
  BY <1>1, <1>2, <1>3, <1>4

-----------------------------------------------------------------------------
(* Types                                                                    *)

LEMMA TypeStep == TypeOK /\ PoolInv /\ OrderInv /\ [Next]_vars => TypeOK'
<1> SUFFICES ASSUME TypeOK, PoolInv, OrderInv, [Next]_vars PROVE TypeOK'
  OBVIOUS
<1> USE DEF TypeOK, AcceptTypes, PoolTypes, acceptVars, connVars, poolVars,
        readVars, workVars, stopVars, Go
<1>1. CASE Gate
  BY <1>1 DEF Gate
<1>2. CASE Accept
  <2>1. cID + 1 \in 0..NConn
    BY <1>2, ServerAssumption DEF Accept
  <2>2. cID + 1 \in Conns
    BY <1>2, ServerAssumption DEF Accept, Conns
  <2> QED
    BY <1>2, <2>1, <2>2 DEF Accept, Stages
<1>3. CASE AcceptError
  BY <1>3 DEF AcceptError
<1>4. ASSUME NEW c \in Conns, ConnStep(c) PROVE TypeOK'
  <2>1. CASE StartConn(c)
    BY <2>1 DEF StartConn, Stages
  <2>2. CASE UseWorker(c)
    BY <2>2, PoolFacts DEF UseWorker, Stages
  <2>3. CASE CtxDone(c)
    BY <2>3 DEF CtxDone, Stages
  <2>4. CASE Finalize(c)
    BY <2>4 DEF Finalize, Stages
  <2>5. CASE FreeWorker(c)
    BY <2>5 DEF FreeWorker, Stages, PoolInv
  <2> QED
    BY <1>4, <2>1, <2>2, <2>3, <2>4, <2>5 DEF ConnStep
<1>5. ASSUME NEW c \in Conns, HookPanics(c) \/ StopConn(c) PROVE TypeOK'
  BY <1>5 DEF HookPanics, StopConn, Stages
<1>6. ASSUME NEW c \in Conns, ReadRequest(c) PROVE TypeOK'
  <2>1. arrived[c] + 1 \in 0..MaxReq
    BY <1>6, ServerAssumption DEF ReadRequest
  <2> QED
    BY <1>6, <2>1 DEF ReadRequest
<1>7. ASSUME NEW c \in Conns, Enqueue(c) PROVE TypeOK'
  <2>1. arrived[c] \in 1..MaxReq /\ workerID[c] \in Workers
    BY <1>7 DEF Enqueue, PoolInv, OrderInv
  <2> QED
    BY <1>7, <2>1, Appended DEF Enqueue, Requests
<1>8. ASSUME NEW c \in Conns, ReaderEnds(c) PROVE TypeOK'
  BY <1>8 DEF ReaderEnds
<1>9. ASSUME NEW w \in Workers, Take(w) PROVE TypeOK'
  BY <1>9, Tailed DEF Take
<1>10. ASSUME NEW w \in Workers, Finish(w) PROVE TypeOK'
  <2>1. running[w][1] \in Conns /\ running[w][2] \in 0..MaxReq
    BY <1>10 DEF Finish, Requests
  <2> QED
    BY <1>10, <2>1 DEF Finish
<1>11. CASE StopServer
  BY <1>11 DEF StopServer
<1>12. CASE StopStep
  BY <1>12 DEF StopStep, ScanShard, ClearOne, ClearDone
<1>13. CASE UNCHANGED vars
  BY <1>13 DEF vars
<1> QED
  BY <1>1, <1>2, <1>3, <1>4, <1>5, <1>6, <1>7, <1>8, <1>9, <1>10, <1>11,
     <1>12, <1>13 DEF Next

-----------------------------------------------------------------------------
(* The connection limit                                                     *)

\* Actions that touch neither the accept loop nor the manager, nor which
\* connections have a socket.
LEMMA AcceptUnchanged ==
  ASSUME TypeOK, AcceptInv, UNCHANGED <<acceptVars, registered>>,
         stopPc' = "no" => stopPc = "no",
         \A c \in Conns : (stage'[c] = "none" <=> stage[c] = "none")
                          /\ (stage[c] \in {"closed", "done"}
                              => stage'[c] \in {"closed", "done"})
  PROVE  AcceptInv'
<1>1. \A c \in Conns : Open(c)' => Open(c)
  BY DEF Open
<1> QED
  BY <1>1 DEF AcceptInv, acceptVars, TypeOK, AcceptTypes

LEMMA AcceptStep == TypeOK /\ AcceptInv /\ [Next]_vars => AcceptInv'
<1> SUFFICES ASSUME TypeOK, AcceptInv, [Next]_vars PROVE AcceptInv'
  OBVIOUS
<1>a. registered \in SUBSET Conns
  BY DEF TypeOK, AcceptTypes
<1>b. Cardinality(registered) \in Nat /\ MaxConn \in Nat /\ cID \in Nat
  BY <1>a, ConnSets, ServerAssumption DEF TypeOK, AcceptTypes
<1> USE DEF acceptVars, connVars, poolVars, readVars, workVars, stopVars, Go
<1>1. CASE Gate
  BY <1>1 DEF Gate, AcceptInv, Open
<1>2. CASE Accept
  <2>1. /\ cID + 1 \in Conns /\ apc' = "gate" /\ cID' = cID + 1
        /\ stage' = [stage EXCEPT ![cID + 1] = "new"]
        /\ registered' = registered \cup {cID + 1}
        /\ stopPc' = stopPc
    BY <1>2, <1>b, ServerAssumption DEF Accept, Conns
  <2>2. stage[cID + 1] = "none"
    BY <2>1, <1>b DEF AcceptInv
  <2>3. cID + 1 \notin registered
    BY <2>2 DEF AcceptInv
  <2>4. Cardinality(registered') = Cardinality(registered) + 1
    BY <2>1, <2>3, <1>a, ConnSets
  <2>5. Cardinality(registered') <= MaxConn
    BY <2>4, <1>b, <1>2 DEF Accept, AcceptInv
  <2>6. \A c \in Conns : stage'[c] = "none" <=> cID' < c
    <3>1. \A c \in Conns : c \in Nat
      BY PoolFacts
    <3> QED
      BY <2>1, <2>2, <3>1, <1>b DEF AcceptInv, TypeOK, AcceptTypes
  <2>7. \A c \in registered' : stage'[c] # "none"
    BY <2>1, <1>a DEF AcceptInv, TypeOK, AcceptTypes
  <2>8. stopPc' = "no" => {c \in Conns : Open(c)'} \subseteq registered'
    BY <2>1 DEF AcceptInv, Open, TypeOK, AcceptTypes
  <2> QED
    BY <2>1, <2>5, <2>6, <2>7, <2>8 DEF AcceptInv
<1>3. CASE AcceptError
  BY <1>3 DEF AcceptError, AcceptInv, Open
<1>4. ASSUME NEW c \in Conns, ConnStep(c) PROVE AcceptInv'
  <2>1. CASE StartConn(c)
    BY <2>1, AcceptUnchanged DEF StartConn, TypeOK, AcceptTypes
  <2>2. CASE UseWorker(c)
    BY <2>2, AcceptUnchanged DEF UseWorker, TypeOK, AcceptTypes
  <2>3. CASE CtxDone(c)
    BY <2>3, AcceptUnchanged DEF CtxDone, TypeOK, AcceptTypes
  <2>4. CASE Finalize(c)
    <3>1. /\ registered' = registered \ {c} /\ UNCHANGED <<apc, cID, stopPc>>
          /\ stage[c] = "onstop" /\ stage' = [stage EXCEPT ![c] = "closed"]
      BY <2>4 DEF Finalize
    <3>2. /\ Cardinality(registered') \in Nat
          /\ Cardinality(registered') <= Cardinality(registered)
      <4>1. registered \ {c} \in SUBSET Conns
        BY <1>a
      <4> QED
        BY <3>1, <4>1, <1>a, ConnSets
    <3>3. \A d \in Conns : Open(d)' => Open(d) /\ d # c
      BY <3>1 DEF Open, TypeOK, AcceptTypes
    <3> QED
      BY <3>1, <3>2, <3>3, <1>b DEF AcceptInv, TypeOK, AcceptTypes
  <2>5. CASE FreeWorker(c)
    BY <2>5, AcceptUnchanged DEF FreeWorker, TypeOK, AcceptTypes
  <2> QED
    BY <1>4, <2>1, <2>2, <2>3, <2>4, <2>5 DEF ConnStep
<1>5. ASSUME NEW c \in Conns, HookPanics(c) PROVE AcceptInv'
  BY <1>5, AcceptUnchanged DEF HookPanics, TypeOK, AcceptTypes
<1>6. ASSUME NEW c \in Conns,
             StopConn(c) \/ ReadRequest(c) \/ Enqueue(c) \/ ReaderEnds(c)
      PROVE  AcceptInv'
  BY <1>6, AcceptUnchanged DEF StopConn, ReadRequest, Enqueue, ReaderEnds
<1>7. ASSUME NEW w \in Workers, Take(w) \/ Finish(w) PROVE AcceptInv'
  BY <1>7, AcceptUnchanged DEF Take, Finish
<1>8. CASE StopServer
  BY <1>8, AcceptUnchanged DEF StopServer
<1>9. CASE StopStep
  <2>1. ASSUME NEW c \in Conns, ClearOne(c) PROVE AcceptInv'
    <3>1. CASE registered' = registered
      BY <2>1, <3>1, AcceptUnchanged DEF ClearOne
    <3>2. CASE registered' = registered \ {c}
      <4>1. registered \ {c} \in SUBSET Conns
        BY <1>a
      <4>2. /\ Cardinality(registered') \in Nat
            /\ Cardinality(registered') <= Cardinality(registered)
        BY <3>2, <4>1, <1>a, ConnSets
      <4>3. UNCHANGED <<apc, cID, stage>> /\ stopPc' # "no"
        BY <2>1 DEF ClearOne
      <4> QED
        BY <3>2, <4>2, <4>3, <1>b DEF AcceptInv
    <3> QED
      BY <2>1, <3>1, <3>2 DEF ClearOne
  <2>2. ASSUME NEW c \in Conns, ScanShard(c) PROVE AcceptInv'
    BY <2>2, AcceptUnchanged DEF ScanShard
  <2>3. CASE ClearDone
    BY <2>3, AcceptUnchanged DEF ClearDone
  <2> QED
    BY <1>9, <2>1, <2>2, <2>3 DEF StopStep
<1>10. CASE UNCHANGED vars
  BY <1>10, AcceptUnchanged DEF vars
<1> QED
  BY <1>1, <1>2, <1>3, <1>4, <1>5, <1>6, <1>7, <1>8, <1>9, <1>10 DEF Next

-----------------------------------------------------------------------------
(* What Stop reaches                                                        *)

LEMMA StopInvStep ==
  TypeOK /\ PoolInv /\ StopInv /\ [Next]_vars => StopInv'
<1> SUFFICES ASSUME TypeOK, PoolInv, StopInv, [Next]_vars PROVE StopInv'
  OBVIOUS
<1> USE DEF TypeOK, AcceptTypes, StopInv, StopReachesAll, acceptVars,
        connVars, poolVars, readVars, workVars, stopVars, Go
<1>1. CASE Gate \/ Accept \/ AcceptError
  BY <1>1 DEF Gate, Accept, AcceptError
<1>2. ASSUME NEW c \in Conns, ConnStep(c) \/ HookPanics(c) PROVE StopInv'
  <2>1. CASE Finalize(c)
    <3>1. c \in cancelled
      BY <2>1 DEF Finalize, PoolInv
    <3> QED
      BY <2>1, <3>1 DEF Finalize
  <2> QED
    BY <1>2, <2>1 DEF ConnStep, StartConn, UseWorker, CtxDone, FreeWorker,
                      HookPanics
<1>3. ASSUME NEW c \in Conns,
             StopConn(c) \/ ReadRequest(c) \/ Enqueue(c) \/ ReaderEnds(c)
      PROVE  StopInv'
  BY <1>3 DEF StopConn, ReadRequest, Enqueue, ReaderEnds
<1>4. ASSUME NEW w \in Workers, Take(w) \/ Finish(w) PROVE StopInv'
  BY <1>4 DEF Take, Finish
<1>5. CASE StopServer
  <2>1. scanned' = scanned /\ snapshot' = snapshot
    BY <1>5 DEF StopServer
  <2> QED
    BY <1>5, <2>1 DEF StopServer
<1>6. CASE StopStep
  BY <1>6 DEF StopStep, ScanShard, ClearOne, ClearDone
<1>7. CASE UNCHANGED vars
  BY <1>7 DEF vars
<1> QED
  BY <1>1, <1>2, <1>3, <1>4, <1>5, <1>6, <1>7 DEF Next

-----------------------------------------------------------------------------
(* The worker pool                                                          *)

\* Actions that leave the pool alone and take no worker from its holder.
LEMMA PoolUnchanged ==
  ASSUME PoolInv, UNCHANGED <<poolVars, stage, rpc>>,
         cancelled \subseteq cancelled'
  PROVE  PoolInv'
BY DEF PoolInv, LostToPanicsOnly, Holds, Loses, poolVars

LEMMA PoolStep == TypeOK /\ AcceptInv /\ PoolInv /\ [Next]_vars => PoolInv'
<1> SUFFICES ASSUME TypeOK, AcceptInv, PoolInv, [Next]_vars PROVE PoolInv'
  OBVIOUS
<1> USE DEF acceptVars, connVars, poolVars, readVars, workVars, stopVars, Go
<1>1. CASE Gate \/ AcceptError
  BY <1>1, PoolUnchanged DEF Gate, AcceptError
<1>2. CASE Accept
  <2> DEFINE d == cID + 1
  <2>1. d \in Conns /\ stage' = [stage EXCEPT ![d] = "new"]
    BY <1>2, ServerAssumption DEF Accept, Conns, TypeOK, AcceptTypes
  <2>2. stage[d] = "none"
    BY <2>1 DEF AcceptInv, TypeOK, AcceptTypes
  <2>3. UNCHANGED <<poolVars, rpc, cancelled>>
    BY <1>2 DEF Accept
  <2> HIDE DEF d
  <2> QED
    BY <2>1, <2>2, <2>3 DEF PoolInv, LostToPanicsOnly, Holds, Loses, TypeOK, AcceptTypes
<1>3. ASSUME NEW c \in Conns, ConnStep(c) PROVE PoolInv'
  <2>1. CASE StartConn(c)
    BY <2>1 DEF StartConn, TypeOK, AcceptTypes, PoolTypes, PoolInv, LostToPanicsOnly, Holds, Loses
  <2>2. CASE UseWorker(c)
    <3>1. PICK w \in IF freeWorkers = {} THEN {c % WorkerPoolSize} ELSE freeWorkers :
            /\ workerID' = [workerID EXCEPT ![c] = w]
            /\ freeWorkers' = freeWorkers \ {w}
      BY <2>2 DEF UseWorker
    <3>2. w \in Workers
      BY <3>1, PoolFacts DEF TypeOK, PoolTypes
    <3>3. /\ stage[c] = "start" /\ stage' = [stage EXCEPT ![c] = "serving"]
          /\ rpc' = [rpc EXCEPT ![c] = "read"] /\ UNCHANGED cancelled
      BY <2>2 DEF UseWorker
    <3>4. LostToPanicsOnly'
      <4> SUFFICES ASSUME WorkerMode = "Bind", NEW v \in Workers \ freeWorkers'
                   PROVE  \E d \in Conns : Holds(d, v)' \/ Loses(d, v)'
        BY DEF LostToPanicsOnly, Holds, Loses
      <4>1. CASE v = w
        BY <3>1, <3>3, <4>1 DEF Holds, Loses, TypeOK, AcceptTypes, PoolTypes
      <4>2. CASE v # w
        <5>1. PICK d \in Conns : Holds(d, v) \/ Loses(d, v)
          BY <3>1, <4>2 DEF PoolInv, LostToPanicsOnly, Holds, Loses
        <5>2. d # c
          BY <3>3, <5>1 DEF Holds, Loses
        <5> QED
          BY <3>1, <3>3, <5>1, <5>2 DEF Holds, Loses, TypeOK, AcceptTypes, PoolTypes
      <4> QED
        BY <4>1, <4>2
    <3> QED
      BY <3>1, <3>2, <3>3, <3>4 DEF PoolInv, TypeOK, AcceptTypes, PoolTypes
  <2>3. CASE CtxDone(c)
    BY <2>3 DEF CtxDone, TypeOK, AcceptTypes, PoolTypes, PoolInv, LostToPanicsOnly, Holds, Loses
  <2>4. CASE Finalize(c)
    BY <2>4 DEF Finalize, TypeOK, AcceptTypes, PoolTypes, PoolInv, LostToPanicsOnly, Holds, Loses
  <2>5. CASE FreeWorker(c)
    <3>1. /\ stage[c] = "closed" /\ stage' = [stage EXCEPT ![c] = "done"]
          /\ UNCHANGED <<workerID, rpc, cancelled>>
          /\ freeWorkers \subseteq freeWorkers'
          /\ WorkerMode = "Bind" => workerID[c] \in freeWorkers'
      BY <2>5 DEF FreeWorker
    <3>2. LostToPanicsOnly'
      BY <3>1 DEF TypeOK, AcceptTypes, PoolTypes, PoolInv, LostToPanicsOnly, Holds, Loses
    <3> QED
      BY <3>1, <3>2 DEF PoolInv, TypeOK, AcceptTypes
  <2> QED
    BY <1>3, <2>1, <2>2, <2>3, <2>4, <2>5 DEF ConnStep
<1>4. ASSUME NEW c \in Conns, HookPanics(c) PROVE PoolInv'
  BY <1>4 DEF HookPanics, TypeOK, AcceptTypes, PoolTypes, PoolInv, LostToPanicsOnly, Holds, Loses
<1>5. ASSUME NEW c \in Conns, StopConn(c) PROVE PoolInv'
  BY <1>5, PoolUnchanged DEF StopConn
<1>6. ASSUME NEW c \in Conns, ReadRequest(c) \/ Enqueue(c) \/ ReaderEnds(c)
      PROVE  PoolInv'
  <2>1. /\ UNCHANGED <<poolVars, stage>> /\ cancelled \subseteq cancelled'
        /\ rpc[c] # "none"
        /\ \A d \in Conns : d # c => rpc'[d] = rpc[d]
    BY <1>6 DEF ReadRequest, Enqueue, ReaderEnds, TypeOK, PoolTypes
  <2>2. LostToPanicsOnly'
    BY <2>1 DEF PoolInv, LostToPanicsOnly, Holds, Loses
  <2> QED
    BY <2>1, <2>2 DEF PoolInv
<1>7. ASSUME NEW w \in Workers, Take(w) \/ Finish(w) PROVE PoolInv'
  BY <1>7, PoolUnchanged DEF Take, Finish
<1>8. CASE StopServer \/ StopStep
  BY <1>8, PoolUnchanged DEF StopServer, StopStep, ScanShard, ClearOne, ClearDone
<1>9. CASE UNCHANGED vars
  BY <1>9, PoolUnchanged DEF vars
<1> QED
  BY <1>1, <1>2, <1>3, <1>4, <1>5, <1>6, <1>7, <1>8, <1>9 DEF Next

-----------------------------------------------------------------------------
(* The order of a connection's requests                                     *)

\* Actions after which every request still belongs where it is.
LEMMA OrderUnchanged ==
  ASSUME TypeOK, OrderInv, UNCHANGED <<workVars, arrived>>,
         \A c \in Conns : rpc[c] # "none" =>
           /\ rpc'[c] # "none" /\ workerID'[c] = workerID[c]
           /\ rpc'[c] = "send" => rpc[c] = "send",
         \A c \in Conns : rpc[c] = "none" => rpc'[c] # "send"
  PROVE  OrderInv'
<1> USE DEF TypeOK, PoolTypes, workVars
<1>1. ASSUME NEW req \in Requests, NEW w, Belongs(req, w) PROVE Belongs(req, w)'
  BY <1>1 DEF Belongs, Requests
<1>2. \A w \in Workers : \A i \in DOMAIN taskQueue[w] : taskQueue[w][i] \in Requests
  BY ElementOfSeq, LenProperties
<1>3. \A c \in Conns : /\ handled'[c] <= arrived'[c]
                       /\ rpc'[c] = "send" => handled'[c] < arrived'[c]
  BY DEF OrderInv
<1>4. \A w \in Workers : \A i \in DOMAIN taskQueue[w] : Belongs(taskQueue[w][i], w)'
  BY <1>1, <1>2 DEF OrderInv
<1>5. \A w \in Workers : running[w] # None => Belongs(running[w], w)'
  BY <1>1 DEF OrderInv
<1> QED
  BY <1>3, <1>4, <1>5 DEF OrderInv, Belongs

LEMMA OrderStep == TypeOK /\ PoolInv /\ OrderInv /\ [Next]_vars => OrderInv'
<1> SUFFICES ASSUME TypeOK, PoolInv, OrderInv, [Next]_vars PROVE OrderInv'
  OBVIOUS
<1> USE DEF acceptVars, connVars, poolVars, readVars, stopVars
<1>a. \A w \in Workers : \A i \in DOMAIN taskQueue[w] : taskQueue[w][i] \in Requests
  BY ElementOfSeq, LenProperties DEF TypeOK, PoolTypes
<1>1. CASE Gate \/ Accept \/ AcceptError
  BY <1>1, OrderUnchanged DEF Gate, Accept, AcceptError
<1>2. ASSUME NEW c \in Conns, ConnStep(c) PROVE OrderInv'
  <2>1. CASE UseWorker(c)
    <3>1. rpc[c] = "none" /\ rpc' = [rpc EXCEPT ![c] = "read"]
      BY <2>1 DEF UseWorker, Go, PoolInv
    <3>2. \A d \in Conns : d # c => workerID'[d] = workerID[d]
      BY <2>1 DEF UseWorker, TypeOK, PoolTypes
    <3> QED
      BY <2>1, <3>1, <3>2, OrderUnchanged DEF UseWorker, TypeOK, PoolTypes
  <2> QED
    BY <1>2, <2>1, OrderUnchanged
    DEF ConnStep, StartConn, CtxDone, Finalize, FreeWorker
<1>3. ASSUME NEW c \in Conns, HookPanics(c) \/ StopConn(c) PROVE OrderInv'
  BY <1>3, OrderUnchanged DEF HookPanics, StopConn
<1>4. ASSUME NEW c \in Conns, ReadRequest(c) PROVE OrderInv'
  <2>1. /\ rpc[c] = "read" /\ rpc' = [rpc EXCEPT ![c] = "send"]
        /\ arrived' = [arrived EXCEPT ![c] = @ + 1]
        /\ UNCHANGED <<taskQueue, running, handled, workerID>>
    BY <1>4 DEF ReadRequest, workVars
  <2>2. ASSUME NEW req \in Requests, NEW w, Belongs(req, w)
        PROVE  Belongs(req, w)'
    BY <2>1, <2>2 DEF Belongs, Requests, TypeOK, PoolTypes
  <2>3. \A d \in Conns : /\ handled'[d] <= arrived'[d]
                         /\ rpc'[d] = "send" => handled'[d] < arrived'[d]
    BY <2>1 DEF OrderInv, TypeOK, PoolTypes
  <2>4. \A w \in Workers : \A i \in DOMAIN taskQueue[w] : Belongs(taskQueue[w][i], w)'
    BY <1>a, <2>1, <2>2 DEF OrderInv
  <2>5. \A w \in Workers : running[w] # None => Belongs(running[w], w)'
    BY <2>1, <2>2 DEF OrderInv, TypeOK, PoolTypes
  <2> QED
    BY <2>1, <2>3, <2>4, <2>5 DEF OrderInv, Belongs
<1>5. ASSUME NEW c \in Conns, Enqueue(c) PROVE OrderInv'
  <2>0. workerID[c] \in Workers /\ <<c, arrived[c]>> \in Requests
    BY <1>5 DEF Enqueue, PoolInv, OrderInv, TypeOK, PoolTypes, Requests
  <2>v. PICK v \in Workers : v = workerID[c]
    BY <2>0
  <2>e. PICK e \in Requests : e = <<c, arrived[c]>>
    BY <2>0
  <2>q. PICK q \in Seq(Requests) : q = taskQueue[v]
    BY DEF TypeOK, PoolTypes
  <2>1. /\ rpc[c] = "send" /\ rpc' = [rpc EXCEPT ![c] = "read"]
        /\ taskQueue' = [taskQueue EXCEPT ![v] = Append(q, e)]
        /\ UNCHANGED <<arrived, workerID, running, handled>>
    BY <1>5, <2>v, <2>e, <2>q DEF Enqueue
  <2>3. ASSUME NEW req \in Requests, NEW w \in Workers, Belongs(req, w)
        PROVE  Belongs(req, w)' /\ (req[1] = c => req[2] < arrived[c] /\ w = v)
    BY <2>1, <2>v, <2>3 DEF Belongs, Requests, TypeOK, PoolTypes
  <2>4. Belongs(e, v)'
    BY <2>1, <2>v, <2>e DEF Belongs, OrderInv, TypeOK, PoolTypes
  <2>5. \A d \in Conns : /\ handled'[d] <= arrived'[d]
                         /\ rpc'[d] = "send" => handled'[d] < arrived'[d]
    BY <2>1 DEF OrderInv, TypeOK, PoolTypes
  <2>6. \A w \in Workers : w # v => taskQueue'[w] = taskQueue[w]
    BY <2>1 DEF TypeOK, PoolTypes
  <2>7. taskQueue'[v] = Append(q, e)
    BY <2>1 DEF TypeOK, PoolTypes
  <2>8. /\ \A i \in DOMAIN taskQueue'[v] :
             \/ i \in DOMAIN q /\ taskQueue'[v][i] = q[i]
             \/ i = Len(q) + 1 /\ taskQueue'[v][i] = e
        /\ \A i \in DOMAIN q : i \in Nat /\ i < Len(q) + 1
        /\ Len(q) \in Nat
    BY <2>7, Appended, LenProperties
  <2>9. \A i \in DOMAIN q : /\ q[i] \in Requests /\ Belongs(q[i], v)'
                            /\ q[i][1] = c => q[i][2] < arrived[c]
    BY <1>a, <2>q, <2>3 DEF OrderInv
  <2>10. ASSUME NEW w \in Workers, NEW i \in DOMAIN taskQueue'[w]
         PROVE  /\ Belongs(taskQueue[w][i], w)'
                /\ \A j \in DOMAIN taskQueue'[w] :
                     i < j /\ taskQueue'[w][i][1] = taskQueue'[w][j][1]
                     => taskQueue'[w][i][2] < taskQueue'[w][j][2]
    <3>1. CASE w = v
      <4>1. Belongs(taskQueue[w][i], w)'
        BY <3>1, <2>4, <2>8, <2>9
      <4>2. ASSUME NEW j \in DOMAIN taskQueue'[w], i < j,
                   taskQueue'[w][i][1] = taskQueue'[w][j][1]
            PROVE  taskQueue'[w][i][2] < taskQueue'[w][j][2]
        <5>1. i \in DOMAIN q /\ taskQueue'[v][i] = q[i]
          BY <2>8, <3>1, <4>2
        <5>2. CASE j \in DOMAIN q /\ taskQueue'[v][j] = q[j]
          BY <2>q, <3>1, <4>2, <5>1, <5>2 DEF OrderInv
        <5>3. CASE taskQueue'[v][j] = e
          BY <2>e, <2>9, <3>1, <4>2, <5>1, <5>3
        <5> QED
          BY <2>8, <3>1, <4>2, <5>2, <5>3
      <4> QED
        BY <4>1, <4>2
    <3>2. CASE w # v
      <4>1. taskQueue'[w] = taskQueue[w]
        BY <2>6, <3>2
      <4>2. taskQueue[w][i] \in Requests /\ Belongs(taskQueue[w][i], w)
        BY <1>a, <4>1 DEF OrderInv
      <4>3. Belongs(taskQueue[w][i], w)'
        BY <2>3, <4>1, <4>2
      <4> QED
        BY <4>1, <4>3 DEF OrderInv
    <3> QED
      BY <3>1, <3>2
  <2>11. ASSUME NEW w \in Workers, running'[w] # None
         PROVE  /\ Belongs(running[w], w)'
                /\ \A i \in DOMAIN taskQueue'[w] :
                     running'[w][1] = taskQueue'[w][i][1]
                     => running'[w][2] < taskQueue'[w][i][2]
    <3>1. running'[w] = running[w] /\ running[w] \in Requests /\ Belongs(running[w], w)
      BY <2>1, <2>11 DEF OrderInv, TypeOK, PoolTypes
    <3>2. /\ Belongs(running[w], w)'
          /\ running[w][1] = c => running[w][2] < arrived[c]
      BY <2>3, <3>1
    <3>3. \A i \in DOMAIN taskQueue[w] :
            running[w][1] = taskQueue[w][i][1] => running[w][2] < taskQueue[w][i][2]
      BY <2>11, <3>1 DEF OrderInv
    <3>4. ASSUME NEW i \in DOMAIN taskQueue'[w],
                 running[w][1] = taskQueue'[w][i][1]
          PROVE  running[w][2] < taskQueue'[w][i][2]
      <4>1. CASE w = v /\ i \in DOMAIN q /\ taskQueue'[v][i] = q[i]
        BY <2>q, <3>3, <3>4, <4>1
      <4>2. CASE w = v /\ taskQueue'[v][i] = e
        BY <2>e, <3>2, <3>4, <4>2
      <4>3. CASE w # v
        BY <2>6, <3>3, <3>4, <4>3
      <4> QED
        BY <2>8, <4>1, <4>2, <4>3
    <3> QED
      BY <3>1, <3>2, <3>4
  <2> QED
    BY <2>5, <2>10, <2>11 DEF OrderInv
<1>6. ASSUME NEW c \in Conns, ReaderEnds(c) PROVE OrderInv'
  BY <1>6, OrderUnchanged DEF ReaderEnds, TypeOK, PoolTypes
<1>7. ASSUME NEW w \in Workers, Take(w) PROVE OrderInv'
  <2>q. PICK q \in Seq(Requests) : q = taskQueue[w] /\ q # <<>>
    BY <1>7 DEF Take, TypeOK, PoolTypes
  <2>1. /\ taskQueue'[w] = Tail(q) /\ running'[w] = Head(q)
        /\ \A v \in Workers : v # w => /\ taskQueue'[v] = taskQueue[v]
                                       /\ running'[v] = running[v]
        /\ UNCHANGED <<handled, arrived, rpc, workerID>>
    BY <1>7, <2>q DEF Take, TypeOK, PoolTypes
  <2>2. /\ 1 \in DOMAIN q /\ Head(q) = q[1]
        /\ \A i \in DOMAIN Tail(q) : i \in Nat \ {0} /\ i + 1 \in DOMAIN q
                                     /\ Tail(q)[i] = q[i + 1]
    BY <2>q, Tailed
  <2>3. ASSUME NEW req, NEW v, Belongs(req, v) PROVE Belongs(req, v)'
    BY <2>1, <2>3 DEF Belongs
  <2>4. \A i \in DOMAIN q : /\ Belongs(q[i], w)'
                            /\ \A j \in DOMAIN q : i < j /\ q[i][1] = q[j][1]
                                                   => q[i][2] < q[j][2]
    BY <2>q, <2>3 DEF OrderInv
  <2>5. ASSUME NEW v \in Workers, NEW i \in DOMAIN taskQueue'[v]
        PROVE  /\ Belongs(taskQueue[v][i], v)'
               /\ \A j \in DOMAIN taskQueue'[v] :
                    i < j /\ taskQueue'[v][i][1] = taskQueue'[v][j][1]
                    => taskQueue'[v][i][2] < taskQueue'[v][j][2]
    <3>1. CASE v = w
      <4>1. i \in Nat /\ i + 1 \in DOMAIN q /\ taskQueue'[w][i] = q[i + 1]
        BY <2>1, <2>2, <3>1
      <4>2. \A j \in DOMAIN taskQueue'[w] :
              j \in Nat /\ j + 1 \in DOMAIN q /\ taskQueue'[w][j] = q[j + 1]
        BY <2>1, <2>2
      <4>3. \A j \in Nat : i < j => i + 1 < j + 1
        BY <4>1
      <4> QED
        BY <2>4, <3>1, <4>1, <4>2, <4>3
    <3>2. CASE v # w
      <4>1. taskQueue'[v] = taskQueue[v]
        BY <2>1, <3>2
      <4>2. Belongs(taskQueue[v][i], v)
        BY <4>1 DEF OrderInv
      <4>3. Belongs(taskQueue[v][i], v)'
        BY <2>3, <4>1, <4>2
      <4> QED
        BY <4>1, <4>3 DEF OrderInv
    <3> QED
      BY <3>1, <3>2
  <2>6. ASSUME NEW v \in Workers, running'[v] # None
        PROVE  /\ Belongs(running[v], v)'
               /\ \A i \in DOMAIN taskQueue'[v] :
                    running'[v][1] = taskQueue'[v][i][1]
                    => running'[v][2] < taskQueue'[v][i][2]
    <3>1. CASE v = w
      <4>1. \A i \in DOMAIN taskQueue'[w] :
              1 < i + 1 /\ i + 1 \in DOMAIN q /\ taskQueue'[w][i] = q[i + 1]
        BY <2>1, <2>2
      <4>2. running'[w] = q[1]
        BY <2>1, <2>2
      <4> QED
        BY <2>2, <2>4, <3>1, <4>1, <4>2
    <3>2. CASE v # w
      <4>1. taskQueue'[v] = taskQueue[v] /\ running'[v] = running[v]
        BY <2>1, <3>2
      <4>2. Belongs(running[v], v)
        BY <2>6, <4>1 DEF OrderInv
      <4>3. Belongs(running[v], v)'
        BY <2>3, <4>1, <4>2
      <4> QED
        BY <2>6, <4>1, <4>3 DEF OrderInv
    <3> QED
      BY <3>1, <3>2
  <2>7. \A d \in Conns : /\ handled'[d] <= arrived'[d]
                         /\ rpc'[d] = "send" => handled'[d] < arrived'[d]
    BY <2>1 DEF OrderInv
  <2> QED
    BY <2>5, <2>6, <2>7 DEF OrderInv
<1>8. ASSUME NEW w \in Workers, Finish(w) PROVE OrderInv'
  <2>r. PICK r \in Requests : r = running[w] /\ Belongs(r, w)
    BY <1>8 DEF Finish, OrderInv, TypeOK, PoolTypes
  <2>1. /\ handled' = [handled EXCEPT ![r[1]] = r[2]]
        /\ running' = [running EXCEPT ![w] = None]
        /\ UNCHANGED <<taskQueue, arrived, rpc, workerID>>
    BY <1>8, <2>r DEF Finish
  <2>2. ASSUME NEW req \in Requests, NEW v, Belongs(req, v),
               req[1] = r[1] => r[2] < req[2]
        PROVE  Belongs(req, v)'
    BY <2>1, <2>2 DEF Belongs, Requests, TypeOK, PoolTypes
  <2>3. \A d \in Conns : /\ handled'[d] <= arrived'[d]
                         /\ rpc'[d] = "send" => handled'[d] < arrived'[d]
    BY <2>1, <2>r DEF OrderInv, Belongs, Requests, TypeOK, PoolTypes
  <2>4. ASSUME NEW v \in Workers, NEW i \in DOMAIN taskQueue'[v]
        PROVE  Belongs(taskQueue[v][i], v)'
    <3>1. taskQueue'[v][i] = taskQueue[v][i] /\ taskQueue[v][i] \in Requests
          /\ Belongs(taskQueue[v][i], v)
      BY <1>a, <2>1 DEF OrderInv
    <3>2. taskQueue[v][i][1] = r[1] => r[2] < taskQueue[v][i][2]
      <4> SUFFICES ASSUME taskQueue[v][i][1] = r[1] PROVE r[2] < taskQueue[v][i][2]
        OBVIOUS
      <4>1. v = w
        BY <2>r, <3>1 DEF Belongs
      <4> QED
        BY <1>8, <2>r, <2>1, <4>1 DEF OrderInv, Finish
    <3> QED
      BY <2>2, <3>1, <3>2
  <2>5. ASSUME NEW v \in Workers, running'[v] # None
        PROVE  v # w /\ running'[v] = running[v] /\ Belongs(running[v], v)'
    <3>1. v # w /\ running'[v] = running[v] /\ running[v] \in Requests
          /\ Belongs(running[v], v)
      BY <2>1, <2>5 DEF OrderInv, TypeOK, PoolTypes
    <3>2. running[v][1] # r[1]
      BY <2>r, <3>1 DEF Belongs
    <3> QED
      BY <2>2, <3>1, <3>2
  <2> QED
    BY <2>1, <2>3, <2>4, <2>5 DEF OrderInv
<1>9. CASE StopServer \/ StopStep
  BY <1>9, OrderUnchanged DEF StopServer, StopStep, ScanShard, ClearOne, ClearDone
<1>10. CASE UNCHANGED vars
  BY <1>10, OrderUnchanged DEF vars
<1> QED
  BY <1>1, <1>2, <1>3, <1>4, <1>5, <1>6, <1>7, <1>8, <1>9, <1>10 DEF Next

-----------------------------------------------------------------------------
(* The theorems                                                             *)

LEMMA InitInv == Init => Inv
<1> SUFFICES ASSUME Init PROVE Inv
  OBVIOUS
<1> USE DEF Init
<1>1. 0 \in 0..NConn /\ 0 \in 0..MaxReq
  BY ServerAssumption
<1>2. TypeOK
  <2>1. AcceptTypes
    BY <1>1 DEF AcceptTypes, Stages
  <2>2. PoolTypes
    BY <1>1 DEF PoolTypes
  <2> QED
    BY <2>1, <2>2 DEF TypeOK
<1>3. AcceptInv
  <2>1. Cardinality({}) = 0
    BY FS_EmptySet
  <2>2. \A c \in Conns : 0 < c
    BY ServerAssumption DEF Conns
  <2> QED
    BY <2>1, <2>2, ServerAssumption DEF AcceptInv, Open
<1>4. PoolInv
  BY DEF PoolInv, LostToPanicsOnly, Holds, Loses
<1>5. OrderInv
  BY DEF OrderInv
<1>6. StopInv
  BY DEF StopInv, StopReachesAll
<1> QED
  BY <1>2, <1>3, <1>4, <1>5, <1>6 DEF Inv

\* The inductive invariant holds.
THEOREM Invariance == Spec => []Inv
<1>1. Inv /\ [Next]_vars => Inv'
  BY TypeStep, AcceptStep, PoolStep, OrderStep, StopInvStep DEF Inv
<1> QED
  BY <1>1, InitInv, PTL DEF Spec

\* The variables keep their types.
THEOREM TypeCorrect == Spec => []TypeOK
<1>1. Inv => TypeOK
  BY DEF Inv
<1> QED
  BY <1>1, Invariance, PTL

\* The limit of ListenTcpConn holds for every MaxConn and any number of
\* clients: at most MaxConn connections are registered, and before Stop every
\* open socket belongs to one of them.
THEOREM LimitHolds == Spec => []WithinLimit
<1>1. Inv => WithinLimit
  BY DEF Inv, AcceptInv, WithinLimit
<1> QED
  BY <1>1, Invariance, PTL

\* In Bind mode a worker leaves the pool for good only with a connection whose
\* OnConnStop hook panicked: any other one that is not free is in the hands of a
\* Start that will run freeWorker.
THEOREM WorkersKept == Spec => []LostToPanicsOnly
<1>1. Inv => LostToPanicsOnly
  BY DEF Inv, PoolInv
<1> QED
  BY <1>1, Invariance, PTL

\* Requests of one connection are handled one at a time and in order, whatever
\* the mode, the size of the pool and how many connections share a worker.
THEOREM RequestsInOrder == Spec => []HandledInOrder
<1>1. ASSUME Inv, NEW w \in Workers, running[w] # None
      PROVE  LET c == running[w][1]  n == running[w][2] IN
               /\ handled[c] < n
               /\ \A v \in Workers \ {w} : running[v] # None => running[v][1] # c
               /\ \A v \in Workers : \A i \in DOMAIN taskQueue[v] :
                    taskQueue[v][i][1] = c => n < taskQueue[v][i][2]
  <2>1. Belongs(running[w], w)
    BY <1>1 DEF Inv, OrderInv
  <2>2. \A v \in Workers \ {w} : running[v] # None => running[v][1] # running[w][1]
    BY <1>1, <2>1 DEF Inv, OrderInv, Belongs
  <2>3. ASSUME NEW v \in Workers, NEW i \in DOMAIN taskQueue[v],
               taskQueue[v][i][1] = running[w][1]
        PROVE  running[w][2] < taskQueue[v][i][2]
    <3>1. v = w
      BY <1>1, <2>1, <2>3 DEF Inv, OrderInv, Belongs
    <3> QED
      BY <1>1, <2>3, <3>1 DEF Inv, OrderInv
  <2> QED
    BY <2>1, <2>2, <2>3 DEF Belongs
<1>2. Inv => HandledInOrder
  BY <1>1 DEF HandledInOrder
<1> QED
  BY <1>2, Invariance, PTL

\* ClearConn stops every connection that was registered when Stop was called.
THEOREM StopIsThorough == Spec => []StopReachesAll
<1>1. Inv => StopReachesAll
  BY DEF Inv, StopInv
<1> QED
  BY <1>1, Invariance, PTL

-----------------------------------------------------------------------------
(* The promise of the pool: each request once, and none skipped.            *)

\* Request n of connection c waits in a queue, runs, or is about to be queued.
Waits(c, n) ==
  \/ rpc[c] = "send" /\ n = arrived[c]
  \/ \E w \in Workers : \/ running[w] = <<c, n>>
                        \/ \E i \in DOMAIN taskQueue[w] : taskQueue[w][i] = <<c, n>>

\* A request that was read and not handled is somewhere.
NothingSkipped ==
  \A c \in Conns, n \in 1..MaxReq : handled[c] < n /\ n <= arrived[c] => Waits(c, n)

LEMMA SkippedStep == Inv /\ NothingSkipped /\ [Next]_vars => NothingSkipped'
<1> SUFFICES ASSUME Inv, NothingSkipped, [Next]_vars,
                    NEW c \in Conns, NEW n \in 1..MaxReq,
                    handled'[c] < n, n <= arrived'[c]
             PROVE  Waits(c, n)'
  BY DEF NothingSkipped
<1> USE NoneAssumption
<1>0. /\ arrived \in [Conns -> 0..MaxReq] /\ handled \in [Conns -> 0..MaxReq]
      /\ rpc \in [Conns -> {"none", "read", "send", "done"}]
      /\ taskQueue \in [Workers -> Seq(Requests)]
      /\ running \in [Workers -> Requests \cup {None}]
      /\ n \in Nat /\ MaxReq \in Nat
  BY ServerAssumption DEF Inv, TypeOK, PoolTypes
<1>1. ASSUME UNCHANGED <<arrived, handled, taskQueue, running>>,
             \A d \in Conns : rpc[d] = "send" => rpc'[d] = "send"
      PROVE  Waits(c, n)'
  BY <1>1 DEF NothingSkipped, Waits
<1>2. ASSUME NEW d \in Conns, ReadRequest(d) PROVE Waits(c, n)'
  <2>1. /\ rpc[d] = "read" /\ rpc' = [rpc EXCEPT ![d] = "send"]
        /\ arrived' = [arrived EXCEPT ![d] = @ + 1]
        /\ UNCHANGED <<handled, taskQueue, running>>
    BY <1>2 DEF ReadRequest, workVars
  <2>2. CASE c = d /\ n = arrived'[c]
    BY <1>0, <2>1, <2>2 DEF Waits
  <2>3. CASE ~(c = d /\ n = arrived'[c])
    <3>1. n <= arrived[c]
      BY <1>0, <2>1, <2>3
    <3>2. Waits(c, n)
      BY <2>1, <3>1 DEF NothingSkipped
    <3>3. rpc[c] = "send" => c # d
      BY <2>1
    <3> QED
      BY <1>0, <2>1, <3>2, <3>3 DEF Waits
  <2> QED
    BY <2>2, <2>3
<1>3. ASSUME NEW d \in Conns, Enqueue(d) PROVE Waits(c, n)'
  <2> DEFINE w == workerID[d]
  <2>1. /\ rpc[d] = "send" /\ rpc' = [rpc EXCEPT ![d] = "read"]
        /\ taskQueue' = [taskQueue EXCEPT ![w] = Append(@, <<d, arrived[d]>>)]
        /\ UNCHANGED <<handled, arrived, running>>
    BY <1>3 DEF Enqueue
  <2>2. w \in Workers /\ <<d, arrived[d]>> \in Requests
    BY <1>0, <2>1 DEF Inv, PoolInv, OrderInv, Requests
  <2> HIDE DEF w
  <2>3. /\ \A v \in Workers : v # w => taskQueue'[v] = taskQueue[v]
        /\ taskQueue'[w] = Append(taskQueue[w], <<d, arrived[d]>>)
    BY <1>0, <2>1, <2>2
  <2>4. /\ \A i \in DOMAIN taskQueue[w] :
             i \in DOMAIN taskQueue'[w] /\ taskQueue'[w][i] = taskQueue[w][i]
        /\ \E i \in DOMAIN taskQueue'[w] : taskQueue'[w][i] = <<d, arrived[d]>>
    <3>1. taskQueue[w] \in Seq(Requests)
      BY <1>0, <2>2
    <3>2. Len(taskQueue[w]) + 1 \in DOMAIN taskQueue'[w]
      BY <2>2, <2>3, <3>1
    <3> QED
      BY <2>2, <2>3, <3>1, <3>2
  <2>5. Waits(c, n)
    BY <2>1 DEF NothingSkipped
  <2>6. CASE rpc[c] = "send" /\ n = arrived[c]
    <3>1. CASE c = d
      BY <2>2, <2>4, <2>6, <3>1 DEF Waits
    <3>2. CASE c # d
      BY <1>0, <2>1, <2>6, <3>2 DEF Waits
    <3> QED
      BY <3>1, <3>2
  <2>7. CASE \E v \in Workers : \/ running[v] = <<c, n>>
                                \/ \E i \in DOMAIN taskQueue[v] : taskQueue[v][i] = <<c, n>>
    BY <2>1, <2>3, <2>4, <2>7 DEF Waits
  <2> QED
    BY <2>5, <2>6, <2>7 DEF Waits
<1>4. ASSUME NEW d \in Conns, ReaderEnds(d) PROVE Waits(c, n)'
  BY <1>0, <1>1, <1>4 DEF ReaderEnds, workVars
<1>5. ASSUME NEW d \in Conns, UseWorker(d) PROVE Waits(c, n)'
  <2>1. rpc[d] = "none" /\ rpc' = [rpc EXCEPT ![d] = "read"]
    BY <1>5 DEF UseWorker, Go, Inv, PoolInv
  <2> QED
    BY <1>0, <1>1, <1>5, <2>1 DEF UseWorker, workVars
<1>6. ASSUME NEW w \in Workers, Take(w) PROVE Waits(c, n)'
  <2>1. /\ running[w] = None /\ taskQueue[w] # <<>>
        /\ running' = [running EXCEPT ![w] = Head(taskQueue[w])]
        /\ taskQueue' = [taskQueue EXCEPT ![w] = Tail(@)]
        /\ UNCHANGED <<handled, arrived, rpc>>
    BY <1>6 DEF Take, readVars
  <2>2. Waits(c, n)
    BY <2>1 DEF NothingSkipped
  <2>3. /\ \A v \in Workers : v # w => taskQueue'[v] = taskQueue[v] /\ running'[v] = running[v]
        /\ taskQueue'[w] = Tail(taskQueue[w]) /\ running'[w] = Head(taskQueue[w])
    BY <1>0, <2>1
  <2>4. /\ taskQueue[w] \in Seq(Requests) /\ <<c, n>> # None
    BY <1>0 DEF Requests
  <2>5. \A i \in DOMAIN taskQueue[w] :
          \/ taskQueue[w][i] = Head(taskQueue[w])
          \/ \E j \in DOMAIN Tail(taskQueue[w]) : Tail(taskQueue[w])[j] = taskQueue[w][i]
    <3>1. taskQueue[w][1] = Head(taskQueue[w])
      BY <2>1, <2>4
    <3>2. ASSUME NEW i \in DOMAIN taskQueue[w], i # 1
          PROVE  \E j \in DOMAIN Tail(taskQueue[w]) : Tail(taskQueue[w])[j] = taskQueue[w][i]
      <4>1. i - 1 \in DOMAIN Tail(taskQueue[w]) /\ Tail(taskQueue[w])[i - 1] = taskQueue[w][i]
        BY <2>1, <2>4, <3>2
      <4> QED
        BY <4>1
    <3> QED
      BY <3>1, <3>2
  <2>6. CASE rpc[c] = "send" /\ n = arrived[c]
    BY <2>1, <2>6 DEF Waits
  <2>7. ASSUME NEW v \in Workers, running[v] = <<c, n>> PROVE Waits(c, n)'
    <3>1. v # w
      BY <2>1, <2>4, <2>7
    <3> QED
      BY <2>3, <2>7, <3>1 DEF Waits
  <2>8. ASSUME NEW v \in Workers, NEW i \in DOMAIN taskQueue[v], taskQueue[v][i] = <<c, n>>
        PROVE  Waits(c, n)'
    <3>1. CASE v # w
      BY <2>3, <2>8, <3>1 DEF Waits
    <3>2. CASE v = w
      <4>1. \/ running'[w] = <<c, n>>
            \/ \E j \in DOMAIN taskQueue'[w] : taskQueue'[w][j] = <<c, n>>
        BY <2>3, <2>5, <2>8, <3>2
      <4> QED
        BY <4>1 DEF Waits
    <3> QED
      BY <3>1, <3>2
  <2> QED
    BY <2>2, <2>6, <2>7, <2>8 DEF Waits
<1>7. ASSUME NEW w \in Workers, Finish(w) PROVE Waits(c, n)'
  <2>1. /\ running[w] # None /\ running' = [running EXCEPT ![w] = None]
        /\ handled' = [handled EXCEPT ![running[w][1]] = running[w][2]]
        /\ UNCHANGED <<taskQueue, arrived, rpc>>
    BY <1>7 DEF Finish, readVars
  <2>2. /\ running[w][1] \in Conns /\ running[w][2] \in Nat
        /\ handled[running[w][1]] < running[w][2]
    BY <1>0, <2>1 DEF Inv, OrderInv, Belongs, Requests
  <2>3. handled[c] < n /\ running[w] # <<c, n>>
    BY <1>0, <2>1, <2>2
  <2>4. Waits(c, n)
    BY <2>1, <2>3 DEF NothingSkipped
  <2> QED
    BY <1>0, <2>1, <2>3, <2>4 DEF Waits
<1>8. CASE UNCHANGED vars
  BY <1>1, <1>8 DEF vars, readVars, workVars
<1>9. CASE Gate \/ Accept \/ AcceptError \/ StopServer \/ StopStep
  BY <1>1, <1>9 DEF Gate, Accept, AcceptError, StopServer, StopStep, ClearDone, ScanShard,
     ClearOne, readVars, workVars
<1>10. ASSUME NEW d \in Conns,
              StartConn(d) \/ CtxDone(d) \/ Finalize(d) \/ FreeWorker(d) \/ HookPanics(d) \/ StopConn(d)
       PROVE  Waits(c, n)'
  BY <1>1, <1>10 DEF StartConn, CtxDone, Finalize, FreeWorker, HookPanics, StopConn, readVars, workVars
<1> QED
  BY <1>2, <1>3, <1>4, <1>5, <1>6, <1>7, <1>8, <1>9, <1>10 DEF Next, ConnStep

\* A handler that returns handled the next request of its connection.
LEMMA FinishIsNext ==
  ASSUME Inv, NothingSkipped, NEW w \in Workers, running[w] # None
  PROVE  /\ running[w][1] \in Conns
         /\ running[w][2] = handled[running[w][1]] + 1
         /\ handled[running[w][1]] < arrived[running[w][1]]
<1> DEFINE c == running[w][1]
           n == running[w][2]
<1>1. /\ running[w] \in Requests /\ handled \in [Conns -> 0..MaxReq]
      /\ arrived \in [Conns -> 0..MaxReq] /\ MaxReq \in Nat
  BY ServerAssumption DEF Inv, TypeOK, PoolTypes
<1>2. c \in Conns /\ n \in 1..MaxReq /\ running[w] = <<c, n>>
  BY <1>1 DEF Requests
<1>3. Belongs(<<c, n>>, w)
  BY <1>2 DEF Inv, OrderInv
<1> HIDE DEF c, n
<1>4. /\ workerID[c] = w /\ rpc[c] # "none" /\ handled[c] < n /\ n <= arrived[c]
      /\ rpc[c] = "send" => n < arrived[c]
  BY <1>3 DEF Belongs
<1>5. ASSUME handled[c] + 1 < n PROVE FALSE
  <2> DEFINE k == handled[c] + 1
  <2>1. k \in 1..MaxReq /\ handled[c] < k /\ k <= arrived[c] /\ k < n /\ k # arrived[c]
    BY <1>1, <1>2, <1>4, <1>5
  <2> HIDE DEF k
  <2>2. Waits(c, k)
    BY <1>2, <2>1 DEF NothingSkipped
  <2>3. PICK v \in Workers : \/ running[v] = <<c, k>>
                             \/ \E i \in DOMAIN taskQueue[v] : taskQueue[v][i] = <<c, k>>
    BY <2>1, <2>2 DEF Waits
  <2>4. v = w
    <3>1. CASE running[v] = <<c, k>>
      <4>1. running[v] # None
        BY <1>2, <2>1, <3>1, NoneAssumption DEF Requests
      <4>2. Belongs(<<c, k>>, v)
        BY <3>1, <4>1 DEF Inv, OrderInv
      <4> QED
        BY <1>4, <4>2 DEF Belongs
    <3>2. CASE \E i \in DOMAIN taskQueue[v] : taskQueue[v][i] = <<c, k>>
      <4>1. Belongs(<<c, k>>, v)
        BY <3>2 DEF Inv, OrderInv
      <4> QED
        BY <1>4, <4>1 DEF Belongs
    <3> QED
      BY <2>3, <3>1, <3>2
  <2>5. PICK i \in DOMAIN taskQueue[w] : taskQueue[w][i] = <<c, k>>
    BY <1>2, <2>1, <2>3, <2>4
  <2>6. n < k
    <3>1. running[w][1] = taskQueue[w][i][1] => running[w][2] < taskQueue[w][i][2]
      BY DEF Inv, OrderInv
    <3>2. running[w][1] = c /\ running[w][2] = n
      BY <1>2
    <3> QED
      BY <2>5, <3>1, <3>2
  <2> QED
    BY <1>1, <1>2, <2>1, <2>6
<1>6. n = handled[c] + 1 /\ handled[c] < arrived[c]
  BY <1>1, <1>2, <1>4, <1>5
<1> QED
  BY <1>2, <1>6 DEF c, n

\* The pool keeps its promise step by step: whatever the connections, the
\* workers and Server.Stop do, a connection's requests are handled one by one,
\* in order, each once and none left out (OrderedService, but for its liveness).
THEOREM ServiceImplemented == Spec => Service!Spec
<1>1. Init => NothingSkipped
  <2> SUFFICES ASSUME Init, NEW c \in Conns, NEW n \in 1..MaxReq, n <= arrived[c] PROVE FALSE
    BY DEF NothingSkipped
  <2> QED
    BY ServerAssumption DEF Init
<1>2. Init => Service!Init
  BY DEF Init, Service!Init, Up
<1>3. ASSUME Inv, NothingSkipped, [Next]_vars PROVE [Service!Next]_(Service!vars)
  <2> USE DEF Service!vars, Service!Next
  <2>1. ASSUME NEW c \in Conns, ReadRequest(c), Up PROVE Service!Arrive(c)
    BY <2>1 DEF ReadRequest, Service!Arrive, workVars, stopVars, Up
  <2>2. ASSUME NEW w \in Workers, Finish(w), Up PROVE \E c \in Conns : Service!Handle(c)
    <3>1. Service!Handle(running[w][1])
      BY <1>3, <2>2, FinishIsNext DEF Finish, Service!Handle, readVars, stopVars, Up
    <3> QED
      BY <1>3, <2>2, <3>1, FinishIsNext DEF Finish
  <2>3. ASSUME NEW c \in Conns, ClearOne(c), Up
        PROVE  Service!Crash \/ UNCHANGED <<arrived, handled, Up>>
    BY <2>3 DEF ClearOne, Service!Crash, readVars, workVars, Up
  <2>4. ASSUME NEW c \in Conns,
               ConnStep(c) \/ HookPanics(c) \/ StopConn(c) \/ Enqueue(c) \/ ReaderEnds(c)
        PROVE  UNCHANGED <<arrived, handled, Up>>
    BY <2>4 DEF ConnStep, StartConn, UseWorker, CtxDone, Finalize, FreeWorker, HookPanics,
       StopConn, Enqueue, ReaderEnds, readVars, workVars, stopVars, Up
  <2>5. ASSUME NEW w \in Workers, Take(w) PROVE UNCHANGED <<arrived, handled, Up>>
    BY <2>5 DEF Take, readVars, stopVars, Up
  <2>6. ASSUME Gate \/ Accept \/ AcceptError \/ StopServer \/ ClearDone \/ UNCHANGED vars
        PROVE  UNCHANGED <<arrived, handled, Up>>
    BY <2>6 DEF Gate, Accept, AcceptError, StopServer, ClearDone, readVars, workVars,
       stopVars, vars, Up
  <2>7. ASSUME NEW c \in Conns, ScanShard(c) PROVE UNCHANGED <<arrived, handled, Up>>
    BY <2>7 DEF ScanShard, readVars, workVars, Up
  <2> QED
    BY <1>3, <2>1, <2>2, <2>3, <2>4, <2>5, <2>6, <2>7 DEF Next, StopStep
<1> QED
  BY <1>1, <1>2, <1>3, SkippedStep, Invariance, PTL DEF Spec, Service!Spec
=============================================================================

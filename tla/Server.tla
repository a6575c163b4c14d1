-------------------------------- MODULE Server --------------------------------
(***************************************************************************)
(* The TCP server of zinx/znet: the accept loop with its connection limit  *)
(* (server.go, ListenTcpConn), the connection manager (connmanager.go),    *)
(* the worker pool (msgHandler.go) and Server.Stop.  A connection is here  *)
(* a coarse Connection: what it does to the manager, the pool and the task *)
(* queues is kept, its senders and its lock are not.                       *)
(*                                                                         *)
(* Request n of connection c is the pair <<c, n>>.  The map of the manager *)
(* is sharded; every connection is taken to be alone in its shard.         *)
(*                                                                         *)
(* A definition named X_Word is X with one mistake in it; no action uses   *)
(* it.  Each one shows that a property of the run can fail.                *)
(***************************************************************************)
EXTENDS Integers, Sequences, FiniteSets

CONSTANTS
  MaxConn,      \* GlobalObject.MaxConn
  WorkerMode,   \* "Bind" or "Hash"
  PoolSize,     \* GlobalObject.WorkerPoolSize, used in "Hash" mode
  TaskLen,      \* GlobalObject.MaxWorkerTaskLen
  HookMayPanic, \* the user's OnConnStart / OnConnStop hook may panic
  MayStop,      \* Server.Stop may be called
  None,         \* no worker, no request
  NConn,        \* bound: connections the clients open
  MaxReq        \* bound: requests read from one connection

ASSUME ServerAssumption ==
  /\ MaxConn \in Nat \ {0} /\ PoolSize \in Nat \ {0} /\ TaskLen \in Nat \ {0}
  /\ WorkerMode \in {"Bind", "Hash"} /\ HookMayPanic \in BOOLEAN
  /\ MayStop \in BOOLEAN
  /\ NConn \in Nat /\ MaxReq \in Nat

Conns == 1..NConn

\* newMsgHandle: in Bind mode the pool has one worker for each connection.
WorkerPoolSize == IF WorkerMode = "Bind" THEN MaxConn ELSE PoolSize
Workers == 0..(WorkerPoolSize - 1)
Requests == Conns \X (1..MaxReq)

ASSUME NoneAssumption == None \notin Workers /\ None \notin Requests

VARIABLES
  apc,          \* accept loop: "gate" (limit check) or "accept"
  cID,          \* connections accepted so far; the last ConnID
  stage,        \* per connection: where Connection.Start is
  cancelled,    \* connections whose context is done
  registered,   \* connections in the manager's map
  workerID,     \* per connection
  freeWorkers,
  rpc, arrived, \* per connection: its reader, the requests it read
  taskQueue, running, \* per worker
  handled,      \* per connection: the last request whose handler returned
  stopPc,       \* Server.Stop: "no", "clear", "exit" or "crashed"
  scanned, snapshot, \* ClearConn's iteration over the shards
  atStop        \* history: the connections registered when Stop began

acceptVars == <<apc, cID>>
connVars   == <<stage, cancelled, registered>>
poolVars   == <<workerID, freeWorkers>>
readVars   == <<rpc, arrived>>
workVars   == <<taskQueue, running, handled>>
stopVars   == <<stopPc, scanned, snapshot, atStop>>
vars == <<acceptVars, connVars, poolVars, readVars, workVars, stopVars>>

\* "start" is Start before useWorker, "serving" its wait for the context,
\* "onstop" the OnConnStop hook, "closed" between finalizer and freeWorker;
\* "dead" is a Start that a panic of a hook ended.
Stages == {"none", "new", "start", "serving", "onstop", "closed", "done", "dead"}

AcceptTypes ==
  /\ apc \in {"gate", "accept"} /\ cID \in 0..NConn
  /\ stage \in [Conns -> Stages]
  /\ cancelled \subseteq Conns /\ registered \subseteq Conns
  /\ stopPc \in {"no", "clear", "exit", "crashed"}
  /\ scanned \subseteq Conns /\ snapshot \subseteq Conns /\ atStop \subseteq Conns

PoolTypes ==
  /\ workerID \in [Conns -> Workers \cup {None}]
  /\ freeWorkers \subseteq Workers
  /\ rpc \in [Conns -> {"none", "read", "send", "done"}]
  /\ arrived \in [Conns -> 0..MaxReq]
  /\ taskQueue \in [Workers -> Seq(Requests)]
  /\ running \in [Workers -> Requests \cup {None}]
  /\ handled \in [Conns -> 0..MaxReq]

TypeOK == AcceptTypes /\ PoolTypes

\* Server.Start has run: the worker pool and the accept loop are there.
Init ==
  /\ apc = "gate" /\ cID = 0
  /\ stage = [c \in Conns |-> "none"] /\ cancelled = {} /\ registered = {}
  /\ workerID = [c \in Conns |-> None]
  /\ freeWorkers = IF WorkerMode = "Bind" THEN Workers ELSE {}
  /\ rpc = [c \in Conns |-> "none"] /\ arrived = [c \in Conns |-> 0]
  /\ taskQueue = [w \in Workers |-> <<>>] /\ running = [w \in Workers |-> None]
  /\ handled = [c \in Conns |-> 0]
  /\ stopPc = "no" /\ scanned = {} /\ snapshot = {} /\ atStop = {}

-----------------------------------------------------------------------------
(* The accept loop.  Only it adds to the manager, so a Len() that overlaps  *)
(* a Remove is never below the number registered when it returns.           *)

Gate_OffByOne ==
  /\ apc = "gate" /\ Cardinality(registered) <= MaxConn
  /\ apc' = "accept"
  /\ UNCHANGED <<cID, connVars, poolVars, readVars, workVars, stopVars>>

\* At the limit the loop sleeps (AcceptDelay) and looks again.
Gate ==
  /\ apc = "gate" /\ Cardinality(registered) < MaxConn
  /\ apc' = "accept"
  /\ UNCHANGED <<cID, connVars, poolVars, readVars, workVars, stopVars>>

\* Accept returns; newServerConn registers the connection; `go s.StartConn`.
Accept ==
  /\ apc = "accept" /\ cID < NConn
  /\ apc' = "gate" /\ cID' = cID + 1
  /\ stage' = [stage EXCEPT ![cID + 1] = "new"]
  /\ registered' = registered \cup {cID + 1}
  /\ UNCHANGED <<cancelled, poolVars, readVars, workVars, stopVars>>

\* Accept failed on an open listener: the loop sleeps and starts over.
AcceptError ==
  /\ apc = "accept" /\ apc' = "gate"
  /\ UNCHANGED <<cID, connVars, poolVars, readVars, workVars, stopVars>>

-----------------------------------------------------------------------------
(* Connection.Start                                                         *)

Go(c, from, to) == stage[c] = from /\ stage' = [stage EXCEPT ![c] = to]

StartConn(c) ==
  /\ Go(c, "new", "start")
  /\ UNCHANGED <<acceptVars, cancelled, registered, poolVars, readVars,
                 workVars, stopVars>>

\* A panic of either hook unwinds Start: its deferred recover ends it.
HookPanics(c) ==
  /\ HookMayPanic /\ stage[c] \in {"start", "onstop"}
  /\ stage' = [stage EXCEPT ![c] = "dead"]
  /\ UNCHANGED <<acceptVars, cancelled, registered, poolVars, readVars,
                 workVars, stopVars>>

UseWorker_Hashed(c) ==
  /\ Go(c, "start", "serving")
  /\ \E w \in IF freeWorkers = {} THEN {c % WorkerPoolSize} ELSE freeWorkers :
       /\ workerID' = [workerID EXCEPT ![c] = c % WorkerPoolSize]
       /\ freeWorkers' = freeWorkers \ {w}
  /\ rpc' = [rpc EXCEPT ![c] = "read"]
  /\ UNCHANGED <<acceptVars, cancelled, registered, arrived, workVars,
                 stopVars>>

\* useWorker takes some free worker; when there is none, and in Hash mode, it
\* is the one the ConnID selects.  Then `go c.StartReader()`.
UseWorker(c) ==
  /\ Go(c, "start", "serving")
  /\ \E w \in IF freeWorkers = {} THEN {c % WorkerPoolSize} ELSE freeWorkers :
       /\ workerID' = [workerID EXCEPT ![c] = w]
       /\ freeWorkers' = freeWorkers \ {w}
  /\ rpc' = [rpc EXCEPT ![c] = "read"]
  /\ UNCHANGED <<acceptVars, cancelled, registered, arrived, workVars,
                 stopVars>>

CtxDone(c) ==
  /\ c \in cancelled /\ Go(c, "serving", "onstop")
  /\ UNCHANGED <<acceptVars, cancelled, registered, poolVars, readVars,
                 workVars, stopVars>>

\* finalizer, after its hook: the socket is closed and the connection removed.
Finalize(c) ==
  /\ Go(c, "onstop", "closed")
  /\ registered' = registered \ {c}
  /\ UNCHANGED <<acceptVars, cancelled, poolVars, readVars, workVars, stopVars>>

FreeWorker(c) ==
  /\ Go(c, "closed", "done")
  /\ freeWorkers' = IF WorkerMode = "Bind" THEN freeWorkers \cup {workerID[c]}
                    ELSE freeWorkers
  /\ UNCHANGED <<acceptVars, cancelled, registered, workerID, readVars,
                 workVars, stopVars>>

\* Connection.Stop by anyone.  Until Start has made the context it is the call
\* of a nil function, which changes nothing here.
StopConn(c) ==
  /\ stage[c] \notin {"none", "new"}
  /\ cancelled' = cancelled \cup {c}
  /\ UNCHANGED <<acceptVars, stage, registered, poolVars, readVars, workVars,
                 stopVars>>

ConnStep(c) == StartConn(c) \/ UseWorker(c) \/ CtxDone(c) \/ Finalize(c)
               \/ FreeWorker(c)

\* The connection's socket is open.
Open(c) == stage[c] \notin {"none", "closed", "done"}

-----------------------------------------------------------------------------
(* The reader of a connection: StartReader and SendMsgToTaskQueue.          *)

ReadRequest(c) ==
  /\ rpc[c] = "read" /\ Open(c) /\ arrived[c] < MaxReq
  /\ rpc' = [rpc EXCEPT ![c] = "send"]
  /\ arrived' = [arrived EXCEPT ![c] = @ + 1]
  /\ UNCHANGED <<acceptVars, connVars, poolVars, workVars, stopVars>>

Enqueue_AnyWorker(c) ==
  /\ rpc[c] = "send"
  /\ \E w \in Workers :
       /\ Len(taskQueue[w]) < TaskLen
       /\ taskQueue' = [taskQueue EXCEPT ![w] = Append(@, <<c, arrived[c]>>)]
  /\ rpc' = [rpc EXCEPT ![c] = "read"]
  /\ UNCHANGED <<acceptVars, connVars, poolVars, arrived, running, handled,
                 stopVars>>

\* The send on the worker's channel waits while the channel is full.
Enqueue(c) ==
  /\ rpc[c] = "send"
  /\ LET w == workerID[c] IN
       /\ Len(taskQueue[w]) < TaskLen
       /\ taskQueue' = [taskQueue EXCEPT ![w] = Append(@, <<c, arrived[c]>>)]
  /\ rpc' = [rpc EXCEPT ![c] = "read"]
  /\ UNCHANGED <<acceptVars, connVars, poolVars, arrived, running, handled,
                 stopVars>>

\* The context is done, or the Read failed: the deferred Stop runs.
ReaderEnds(c) ==
  /\ rpc[c] = "read"
  /\ rpc' = [rpc EXCEPT ![c] = "done"]
  /\ cancelled' = cancelled \cup {c}
  /\ UNCHANGED <<acceptVars, stage, registered, poolVars, arrived, workVars,
                 stopVars>>

-----------------------------------------------------------------------------
(* The workers: startOneWorker                                              *)

Take_DropsClosed(w) ==
  /\ running[w] = None /\ taskQueue[w] # <<>>
  /\ running' = [running EXCEPT ![w] =
                   IF Head(taskQueue[w])[1] \in cancelled THEN None
                   ELSE Head(taskQueue[w])]
  /\ taskQueue' = [taskQueue EXCEPT ![w] = Tail(@)]
  /\ UNCHANGED <<acceptVars, connVars, poolVars, readVars, handled, stopVars>>

Take(w) ==
  /\ running[w] = None /\ taskQueue[w] # <<>>
  /\ running' = [running EXCEPT ![w] = Head(taskQueue[w])]
  /\ taskQueue' = [taskQueue EXCEPT ![w] = Tail(@)]
  /\ UNCHANGED <<acceptVars, connVars, poolVars, readVars, handled, stopVars>>

\* The handler returned, or panicked into doMsgHandle's recover.
Finish(w) ==
  /\ running[w] # None
  /\ LET req == running[w] IN handled' = [handled EXCEPT ![req[1]] = req[2]]
  /\ running' = [running EXCEPT ![w] = None]
  /\ UNCHANGED <<acceptVars, connVars, poolVars, readVars, taskQueue, stopVars>>

-----------------------------------------------------------------------------
(* Server.Stop: ClearConn, then a send on exitChan.  newServer leaves       *)
(* exitChan nil, so the send waits forever: "exit" is where Stop stays, and *)
(* the accept loop goes on.                                                 *)

StopServer ==
  /\ MayStop /\ stopPc = "no" /\ stopPc' = "clear"
  /\ atStop' = registered
  /\ UNCHANGED <<acceptVars, connVars, poolVars, readVars, workVars, scanned,
                 snapshot>>

\* IterBuffered copies each shard under its own lock.
ScanShard(c) ==
  /\ stopPc = "clear" /\ c \notin scanned
  /\ scanned' = scanned \cup {c}
  /\ snapshot' = snapshot \cup (registered \cap {c})
  /\ UNCHANGED <<acceptVars, connVars, poolVars, readVars, workVars, stopPc,
                 atStop>>

ClearOne_NoStop(c) ==
  /\ stopPc = "clear" /\ scanned = Conns /\ c \in snapshot
  /\ snapshot' = snapshot \ {c}
  /\ registered' = registered \ {c}
  /\ UNCHANGED <<acceptVars, stage, cancelled, poolVars, readVars, workVars,
                 stopPc, scanned, atStop>>

\* RemoveCb: a connection still in the map is stopped and removed.  Stopping
\* one whose Start has not made the context panics, which ends the process.
ClearOne(c) ==
  /\ stopPc = "clear" /\ scanned = Conns /\ c \in snapshot
  /\ IF c \in registered /\ stage[c] = "new"
       THEN stopPc' = "crashed" /\ UNCHANGED <<connVars, snapshot>>
       ELSE /\ snapshot' = snapshot \ {c}
            /\ cancelled' = cancelled \cup ({c} \cap registered)
            /\ registered' = registered \ {c}
            /\ UNCHANGED <<stage, stopPc>>
  /\ UNCHANGED <<acceptVars, poolVars, readVars, workVars, scanned, atStop>>

ClearDone ==
  /\ stopPc = "clear" /\ scanned = Conns /\ snapshot = {}
  /\ stopPc' = "exit"
  /\ UNCHANGED <<acceptVars, connVars, poolVars, readVars, workVars, scanned,
                 snapshot, atStop>>

StopStep == ClearDone \/ \E c \in Conns : ScanShard(c) \/ ClearOne(c)

-----------------------------------------------------------------------------
Up == stopPc # "crashed"

Next ==
  /\ Up
  /\ \/ Gate \/ Accept \/ AcceptError
     \/ \E c \in Conns : \/ ConnStep(c) \/ HookPanics(c) \/ StopConn(c)
                         \/ ReadRequest(c) \/ Enqueue(c) \/ ReaderEnds(c)
     \/ \E w \in Workers : Take(w) \/ Finish(w)
     \/ StopServer \/ StopStep

Spec == Init /\ [][Next]_vars

\* Every goroutine keeps running and every handler returns.  Readers that wait
\* for room in one channel get it in the order they came, so none is passed
\* over for ever.  Clients, users and Server.Stop are under no obligation.
Fairness ==
  /\ WF_vars(Up /\ Gate) /\ WF_vars(Up /\ StopStep)
  /\ \A c \in Conns : WF_vars(Up /\ ConnStep(c)) /\ SF_vars(Up /\ Enqueue(c))
  /\ \A w \in Workers : WF_vars(Up /\ Take(w)) /\ WF_vars(Up /\ Finish(w))

FairSpec == Spec /\ Fairness

-----------------------------------------------------------------------------
(* Properties                                                               *)

\* The manager never holds more than MaxConn connections, and until Stop is
\* called no more than MaxConn sockets are open (ListenTcpConn's limit).
WithinLimit ==
  /\ Cardinality(registered) <= MaxConn
  /\ stopPc = "no" => {c \in Conns : Open(c)} \subseteq registered

\* Start of c is between useWorker and freeWorker: it will give w back.
Holds(c, w) == workerID[c] = w /\ stage[c] \in {"serving", "onstop", "closed"}

\* A panic of c's OnConnStop hook unwound Start: its freeWorker never runs.
Loses(c, w) == workerID[c] = w /\ stage[c] = "dead"

\* In Bind mode a worker that is not free is in the hands of a Start that will
\* still give it back, or is lost for good to a connection whose OnConnStop hook
\* panicked: nothing else takes a worker out of the pool, and each such panic at
\* most one, although connections may have been given the same one (useWorker,
\* freeWorker and the recover of Start).
LostToPanicsOnly ==
  WorkerMode = "Bind" =>
    \A w \in Workers \ freeWorkers : \E c \in Conns : Holds(c, w) \/ Loses(c, w)

\* The requests of one connection are handled one at a time and in the order
\* they were read: a later one never runs before or beside an earlier one
\* (SendMsgToTaskQueue, startOneWorker).
HandledInOrder ==
  \A w \in Workers : running[w] # None =>
    LET c == running[w][1]  n == running[w][2] IN
      /\ handled[c] < n
      /\ \A v \in Workers \ {w} : running[v] # None => running[v][1] # c
      /\ \A v \in Workers : \A i \in DOMAIN taskQueue[v] :
           taskQueue[v][i][1] = c => n < taskQueue[v][i][2]

\* When ClearConn is done, every connection that was registered when Stop was
\* called has been stopped, whatever was accepted or closed meanwhile.  It says
\* nothing of a ClearConn that met a connection before its Start made the
\* context: that one ends the process ("crashed").
StopReachesAll == stopPc = "exit" => atStop \subseteq cancelled

Service == INSTANCE OrderedService WITH up <- Up

\* Every request of every connection is handled, in order and once, whichever
\* worker serves the connection and whenever it closes (msgHandler.go).
ImplementsService == Service!FairSpec
=============================================================================

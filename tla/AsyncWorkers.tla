----------------------------- MODULE AsyncWorkers -----------------------------
(***************************************************************************)
(* The asynchronous workers of zinx/zasync_op (async_op, async_worker)     *)
(* with the result object their operations set (AsyncOp).  Business threads*)
(* (Registrars) call Process with an operation, which runs on the worker   *)
(* its id selects and there calls SetReturnedObj; they register their      *)
(* callbacks when they like.                                               *)
(*                                                                         *)
(* Workers are made on demand: the first look at the array is not locked,  *)
(* the second is.  An operation stands for the setter that runs it.        *)
(*                                                                         *)
(* A definition named X_Word is X with one mistake in it, as in AsyncOp.   *)
(***************************************************************************)
EXTENDS AsyncOp, Integers

CONSTANTS
  ArrayLen,     \* len(asyncWorkerArray), 2048 in the code
  TaskCap,      \* cap(taskQ), 2048 in the code
  MinInt,       \* the smallest int
  OpIds         \* ids Process is called with

\* The lengths of arrays the code uses are powers of two, as is -MinInt.
ASSUME AsyncWorkersAssumption ==
  /\ ArrayLen \in Nat \ {0} /\ TaskCap \in Nat \ {0}
  /\ MinInt \in Int /\ MinInt < 0 /\ -MinInt % ArrayLen = 0
  /\ OpIds \subseteq MinInt..(-MinInt - 1)

VARIABLES
  asyncWorkerArray,   \* the worker at each index, 0 for nil
  taskQ,              \* the queue of each worker made
  running,            \* the operation each worker is in
  locker,             \* who holds initAsyncWorkerLocker
  call,               \* where each business thread is in Process
  index,              \* history: the index of each operation given to Process
  accepted, ended,    \* history: operations whose Process returned, that ended
  before              \* history: <<a, b>>: a was accepted when b was called

wvars == <<asyncWorkerArray, taskQ, running, locker, call, index,
           accepted, ended, before>>
allvars == <<vars, wvars>>

Workers == DOMAIN taskQ
Idle == [at |-> "out", op |-> Nil, worker |-> 0]

WInit ==
  /\ Init
  /\ asyncWorkerArray = [i \in 0..(ArrayLen - 1) |-> 0]
  /\ taskQ = <<>> /\ running = <<>> /\ locker = Nil
  /\ call = [r \in Registrars |-> Idle]
  /\ index = [s \in Setters |-> ArrayLen]
  /\ accepted = {} /\ ended = {} /\ before = {}

-----------------------------------------------------------------------------
(* Process                                                                  *)

\* Go's remainder has the sign of the dividend, and -MinInt is MinInt.
Abs(id) == IF id < 0 /\ id # MinInt THEN -id ELSE id
Index(id) == IF Abs(id) < 0 THEN -(-Abs(id) % ArrayLen) ELSE Abs(id) % ArrayLen

Goes(r, at, worker) ==
  call' = [call EXCEPT ![r].at = at, ![r].worker = worker]

Worker(r) == asyncWorkerArray[index[call[r].op]]

Process(r, s, id) ==
  /\ call[r] = Idle /\ index[s] = ArrayLen
  /\ call' = [call EXCEPT ![r] = [at |-> "look", op |-> s, worker |-> 0]]
  /\ index' = [index EXCEPT ![s] = Index(id)]
  /\ before' = before \cup (accepted \X {s})
  /\ UNCHANGED <<asyncWorkerArray, taskQ, running, locker, accepted, ended>>

\* The look without the lock.
Look(r) ==
  /\ call[r].at = "look"
  /\ Goes(r, IF Worker(r) = 0 THEN "lock" ELSE "send", Worker(r))
  /\ UNCHANGED <<asyncWorkerArray, taskQ, running, locker, index,
                 accepted, ended, before>>

Lock(r) ==
  /\ call[r].at = "lock" /\ locker = Nil
  /\ locker' = r /\ Goes(r, "locked", 0)
  /\ UNCHANGED <<asyncWorkerArray, taskQ, running, index, accepted, ended, before>>

Found_Never(r) == FALSE
\* The look with the lock.
Found(r) == Worker(r) # 0

\* The worker that is there, or a new one, and its goroutine.
GetWorker(r) ==
  /\ call[r].at = "locked" /\ locker' = Nil
  /\ IF Found(r)
       THEN /\ Goes(r, "send", Worker(r))
            /\ UNCHANGED <<asyncWorkerArray, taskQ, running>>
       ELSE LET w == Len(taskQ) + 1 IN
            /\ asyncWorkerArray' = [asyncWorkerArray EXCEPT ![index[call[r].op]] = w]
            /\ taskQ' = Append(taskQ, <<>>) /\ running' = Append(running, Nil)
            /\ Goes(r, "send", w)
  /\ UNCHANGED <<index, accepted, ended, before>>

\* AsyncWorker.process waits for room in the queue.
Send(r) ==
  /\ call[r].at = "send"
  /\ LET w == call[r].worker IN
       /\ Len(taskQ[w]) < TaskCap
       /\ taskQ' = [taskQ EXCEPT ![w] = Append(@, call[r].op)]
  /\ accepted' = accepted \cup {call[r].op}
  /\ call' = [call EXCEPT ![r] = Idle]
  /\ UNCHANGED <<asyncWorkerArray, running, locker, index, ended, before>>

-----------------------------------------------------------------------------
(* loopExecTask                                                             *)

Exec(w) ==
  /\ running[w] = Nil /\ taskQ[w] # <<>>
  /\ running' = [running EXCEPT ![w] = Head(taskQ[w])]
  /\ taskQ' = [taskQ EXCEPT ![w] = Tail(@)]
  /\ UNCHANGED <<asyncWorkerArray, locker, call, index, accepted, ended, before>>

InOp(s) == \E w \in Workers : running[w] = s

\* The operation returns, or panics before it has a result, which its task
\* recovers.
OpEnds(w) ==
  /\ running[w] # Nil /\ pc[running[w]] \in {"call", "done"}
  /\ running' = [running EXCEPT ![w] = Nil]
  /\ ended' = ended \cup {running[w]}
  /\ UNCHANGED <<asyncWorkerArray, taskQ, locker, call, index, accepted, before>>

InProcess(r) == Look(r) \/ Lock(r) \/ GetWorker(r) \/ Send(r)

\* A thread is in one call at a time.
WNext ==
  \/ /\ UNCHANGED vars
     /\ \/ \E r \in Registrars :
             \/ InProcess(r)
             \/ \E s \in Setters, id \in OpIds :
                  pc[r] \in {"call", "done"} /\ Process(r, s, id)
        \/ \E w \in Workers : Exec(w) \/ OpEnds(w)
  \/ /\ UNCHANGED wvars
     /\ \/ \E s \in Setters : (InOp(s) \/ s \in pending) /\ Setter(s)
        \/ \E r \in Registrars : call[r] = Idle /\ Registrar(r)
        \/ RunCallback

WSpec == WInit /\ [][WNext]_allvars

\* A thread inside a call goes on, and the workers keep taking tasks.
WFairSpec ==
  /\ WSpec
  /\ WF_allvars(RunCallback /\ UNCHANGED wvars)
  /\ \A s \in Setters : WF_allvars((StoreObj(s) \/ Step(s)) /\ UNCHANGED wvars)
  /\ \A r \in Registrars :
       WF_allvars((StoreFunc(r) \/ CheckReturned(r) \/ Step(r)) /\ UNCHANGED wvars)
  /\ \A r \in Registrars : WF_allvars(InProcess(r) /\ UNCHANGED vars)

-----------------------------------------------------------------------------
(* Properties                                                               *)

\* Operations whose ids select the same worker run one at a time, and one that
\* was accepted before another was called ends before the other begins
\* (getCurWorker, loopExecTask).
OpsOneByOne ==
  /\ \A v, w \in Workers : v # w /\ running[v] # Nil /\ running[w] # Nil
       => index[running[v]] # index[running[w]]
  /\ \A p \in before : index[p[1]] = index[p[2]] /\ (InOp(p[2]) \/ p[2] \in ended)
       => p[1] \in ended
=============================================================================

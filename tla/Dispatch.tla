------------------------------- MODULE Dispatch -------------------------------
(***************************************************************************)
(* The way of one request through zinx: the chain of interceptors that the *)
(* reader executes (znet/chainBuilder.go, zinterceptor/chain.go), the last *)
(* of them, MsgHandle.Intercept, which hands it to a worker, and there the *)
(* router's three steps (znet/request.go, Call) or, in RouterSlicesMode,   *)
(* the list of handlers (RouterSlicesNext) built by znet/router.go.        *)
(*                                                                         *)
(* Interceptors and handlers are the user's: each may call what the        *)
(* framework offers, return or panic at any time.  rstack and wstack are   *)
(* the call stacks of the reader and the worker.  The index of the list is *)
(* an integer that wraps around, int8 in the code.                         *)
(*                                                                         *)
(* A definition named X_Word is X with one mistake in it; no action uses   *)
(* it.  Each one shows that a property of the run can fail.                *)
(***************************************************************************)
EXTENDS Integers, Sequences

CONSTANTS
  IndexMax,     \* largest index: 127
  NInter,       \* interceptors added to the chain
  MaxProceed,   \* bound: calls of Proceed by one interceptor
  MaxHandlers,  \* bound: handlers registered
  MaxGotos      \* bound: calls of Goto

ASSUME DispatchAssumption ==
  /\ IndexMax \in Nat \ {0} /\ NInter \in Nat /\ MaxProceed \in Nat
  /\ MaxHandlers \in Nat /\ MaxHandlers <= 2 * IndexMax + 1 /\ MaxGotos \in Nat

PRE_HANDLE  == 0
HANDLE      == 1
POST_HANDLE == 2
HANDLE_OVER == 3
Steps == PRE_HANDLE..HANDLE_OVER

\* int8(x)
Wrap(x) == ((x + IndexMax + 1) % (2 * (IndexMax + 1))) - (IndexMax + 1)

VARIABLES
  mode,       \* "router" or "slices": GlobalObject.RouterSlicesMode
  use, group, \* RouterSlices.Handlers and a GroupRouter's Handlers
  api,        \* the handlers of the message id, or <<>> with ready = FALSE
  ready,      \* the id is registered and requests may come
  rstack,     \* reader: the interceptors it is in
  tasks,      \* dispatches of the request that wait for the worker
  wstack,     \* worker: the procedures it is in
  steps, needNext, index,      \* fields of the Request
  ran,        \* history: handlers entered
  nexts,      \* history: calls of RouterSlicesNext
  stopped,    \* history: Len(ran) at the first Abort, or -1
  escaped,    \* history: a panic reached doMsgHandlerSlices
  overrun,    \* history: the list was indexed out of range
  due,        \* history: the step that is due next
  gotos

setupVars == <<mode, use, group, api, ready>>
reqVars   == <<steps, needNext, index>>
pastVars  == <<ran, nexts, stopped, escaped, overrun, due, gotos>>
vars == <<setupVars, rstack, tasks, wstack, reqVars, pastVars>>

\* A RouterRecovery calls Next and recovers; other handlers do as they like.
Handlers == {"recovery", "plain"}

RFrames == [pos : 0..NInter, calls : 0..MaxProceed]
WFrames == [fn : {"call", "step", "next", "handler"}, i : Int, called : BOOLEAN]

TypeOK ==
  /\ mode \in {"router", "slices"} /\ ready \in BOOLEAN
  /\ use \in Seq(Handlers) /\ group \in Seq(Handlers) /\ api \in Seq(Handlers)
  /\ rstack \in Seq(RFrames) /\ tasks \in Nat /\ wstack \in Seq(WFrames)
  /\ steps \in 0..4 /\ needNext \in BOOLEAN
  /\ index \in (-IndexMax - 1)..IndexMax
  /\ ran \in Seq(Nat) /\ nexts \in Nat /\ stopped \in Int
  /\ escaped \in BOOLEAN /\ overrun \in BOOLEAN /\ due \in 0..3
  /\ gotos \in 0..MaxGotos

\* newMsgHandle and NewRequest.
Init ==
  /\ mode \in {"router", "slices"}
  /\ use = <<>> /\ group = <<>> /\ api = <<>> /\ ready = FALSE
  /\ rstack = <<>> /\ tasks = 0 /\ wstack = <<>>
  /\ steps = PRE_HANDLE /\ needNext = TRUE /\ index = -1
  /\ ran = <<>> /\ nexts = 0 /\ stopped = -1 /\ escaped = FALSE
  /\ overrun = FALSE /\ due = PRE_HANDLE /\ gotos = 0

Top(s) == s[Len(s)]
Pop(s) == SubSeq(s, 1, Len(s) - 1)

-----------------------------------------------------------------------------
(* Registration: RouterSlices and GroupRouter.  A second registration of an *)
(* id, and a group's for an id out of its range, panic.                     *)

Running == <<rstack, tasks, wstack, reqVars, pastVars>>
Room(n) == ~ready /\ mode = "slices" /\ Len(use) + Len(group) + n <= MaxHandlers

Use(h) ==
  /\ Room(1) /\ use' = Append(use, h)
  /\ UNCHANGED <<mode, group, api, ready, Running>>

GroupUse(h) ==
  /\ Room(1) /\ group' = Append(group, h)
  /\ UNCHANGED <<mode, use, api, ready, Running>>

\* The list of an id: the common handlers, its group's, its own.
AddHandler(own) ==
  /\ Room(Len(own)) /\ ready' = TRUE
  /\ api' = use \o group \o own
  /\ UNCHANGED <<mode, use, group, Running>>

AddRouter ==
  /\ ~ready /\ mode = "router" /\ ready' = TRUE
  /\ UNCHANGED <<mode, use, group, api, Running>>

-----------------------------------------------------------------------------
(* The reader: Execute and Chain.Proceed.  Position NInter is MsgHandle.    *)

OthersOfReader == <<setupVars, wstack, reqVars, pastVars>>

\* Execute, once: Proceed at position 0.
Execute ==
  /\ ready /\ rstack = <<>> /\ tasks = 0 /\ wstack = <<>> /\ steps = PRE_HANDLE
  /\ ran = <<>> /\ nexts = 0 /\ due = PRE_HANDLE /\ gotos = 0
  /\ rstack' = <<[pos |-> 0, calls |-> 0]>>
  /\ UNCHANGED <<tasks, OthersOfReader>>

\* An interceptor calls Proceed, or ProceedWithIMessage, of its chain.
Proceed ==
  /\ rstack # <<>> /\ Top(rstack).pos < NInter /\ Top(rstack).calls < MaxProceed
  /\ rstack' = Append([rstack EXCEPT ![Len(rstack)].calls = @ + 1],
                      [pos |-> Top(rstack).pos + 1, calls |-> 0])
  /\ UNCHANGED <<tasks, OthersOfReader>>

InterceptorReturns ==
  /\ rstack # <<>> /\ Top(rstack).pos < NInter
  /\ rstack' = Pop(rstack)
  /\ UNCHANGED <<tasks, OthersOfReader>>

\* A panic unwinds Execute; the reader's recover ends the connection.
InterceptorPanics ==
  /\ rstack # <<>> /\ Top(rstack).pos < NInter
  /\ rstack' = <<>>
  /\ UNCHANGED <<tasks, OthersOfReader>>

\* MsgHandle.Intercept: SendMsgToTaskQueue; its own Proceed finds no one left.
Intercept ==
  /\ rstack # <<>> /\ Top(rstack).pos = NInter
  /\ rstack' = Pop(rstack) /\ tasks' = tasks + 1
  /\ UNCHANGED OthersOfReader

-----------------------------------------------------------------------------
(* The worker: doMsgHandle, Request.Call and the router's methods           *)

OthersOfWorker == <<setupVars, rstack>>
Frame(fn, i) == [fn |-> fn, i |-> i, called |-> FALSE]
In(fn) == wstack # <<>> /\ Top(wstack).fn = fn

TakeTask ==
  /\ tasks > 0 /\ wstack = <<>> /\ tasks' = tasks - 1
  /\ IF mode = "router"
       THEN /\ wstack' = <<Frame("call", 0)>> /\ due' = PRE_HANDLE
            /\ UNCHANGED <<index, nexts>>
       ELSE /\ wstack' = <<Frame("next", 0)>> /\ index' = Wrap(index + 1)
            /\ nexts' = nexts + 1 /\ UNCHANGED due
  /\ UNCHANGED <<OthersOfWorker, steps, needNext, ran, stopped, escaped,
                 overrun, gotos>>

\* Call's loop runs the method of the step, until there is none left.
CallStep ==
  /\ In("call") /\ steps < HANDLE_OVER
  /\ wstack' = Append(wstack, Frame("step", steps)) /\ due' = steps + 1
  /\ UNCHANGED <<OthersOfWorker, tasks, reqVars, ran, nexts, stopped, escaped,
                 overrun, gotos>>

CallEnds ==
  /\ In("call") /\ steps >= HANDLE_OVER
  /\ wstack' = <<>> /\ steps' = PRE_HANDLE
  /\ UNCHANGED <<OthersOfWorker, tasks, needNext, index, pastVars>>

StepReturns_Sticky ==
  /\ In("step")
  /\ wstack' = Pop(wstack)
  /\ steps' = IF needNext THEN steps + 1 ELSE steps
  /\ UNCHANGED <<OthersOfWorker, tasks, index, needNext, pastVars>>

\* The method returns; Request.next.
StepReturns ==
  /\ In("step")
  /\ wstack' = Pop(wstack)
  /\ steps' = IF needNext THEN steps + 1 ELSE steps
  /\ needNext' = TRUE
  /\ UNCHANGED <<OthersOfWorker, tasks, index, pastVars>>

Goto_Advancing(s) ==
  /\ In("step") /\ gotos < MaxGotos /\ gotos' = gotos + 1
  /\ steps' = s /\ due' = s
  /\ UNCHANGED <<OthersOfWorker, tasks, wstack, index, needNext, ran, nexts,
                 stopped, escaped, overrun>>

Goto(s) ==
  /\ In("step") /\ gotos < MaxGotos /\ gotos' = gotos + 1
  /\ steps' = s /\ needNext' = FALSE /\ due' = s
  /\ UNCHANGED <<OthersOfWorker, tasks, wstack, index, ran, nexts, stopped,
                 escaped, overrun>>

\* doMsgHandle recovers.  The fields of the request stay as they are.
StepPanics ==
  /\ In("step") /\ wstack' = <<>> /\ escaped' = TRUE
  /\ UNCHANGED <<OthersOfWorker, tasks, reqVars, ran, nexts, stopped, overrun,
                 due, gotos>>

\* A method of the router, or a handler of the user's own.
InUserCode ==
  \/ In("step")
  \/ In("handler") /\ api[Top(wstack).i] = "plain"

Abort_Next ==
  /\ InUserCode
  /\ IF mode = "slices"
       THEN /\ index' = Wrap(index + 1) /\ UNCHANGED <<steps, due>>
            /\ stopped' = IF stopped = -1 THEN Len(ran) ELSE stopped
       ELSE /\ steps' = HANDLE_OVER /\ due' = HANDLE_OVER
            /\ UNCHANGED <<index, stopped>>
  /\ UNCHANGED <<OthersOfWorker, tasks, wstack, needNext, ran, nexts, escaped,
                 overrun, gotos>>

Abort ==
  /\ InUserCode
  /\ IF mode = "slices"
       THEN /\ index' = Wrap(Len(api)) /\ UNCHANGED <<steps, due>>
            /\ stopped' = IF stopped = -1 THEN Len(ran) ELSE stopped
       ELSE /\ steps' = HANDLE_OVER /\ due' = HANDLE_OVER
            /\ UNCHANGED <<index, stopped>>
  /\ UNCHANGED <<OthersOfWorker, tasks, wstack, needNext, ran, nexts, escaped,
                 overrun, gotos>>

-----------------------------------------------------------------------------
(* The worker: doMsgHandlerSlices, RouterSlicesNext and the handlers        *)

Left == index < Wrap(Len(api))

\* The loop of RouterSlicesNext calls the handler at the index.
NextHandler ==
  /\ In("next") /\ Left /\ index >= 0
  /\ wstack' = Append(wstack, Frame("handler", index + 1))
  /\ ran' = Append(ran, index + 1)
  /\ UNCHANGED <<OthersOfWorker, tasks, reqVars, nexts, stopped, escaped,
                 overrun, due, gotos>>

NextEnds ==
  /\ In("next") /\ ~Left
  /\ wstack' = Pop(wstack)
  /\ UNCHANGED <<OthersOfWorker, tasks, reqVars, pastVars>>

CallsNext_Same ==
  /\ In("handler") /\ ~Top(wstack).called
  /\ wstack' = Append([wstack EXCEPT ![Len(wstack)].called = TRUE], Frame("next", 0))
  /\ nexts' = nexts + 1
  /\ UNCHANGED <<OthersOfWorker, tasks, reqVars, ran, stopped, escaped, overrun,
                 due, gotos>>

\* A handler calls RouterSlicesNext, at most once each (bound); RouterRecovery
\* does just that.
CallsNext ==
  /\ In("handler") /\ ~Top(wstack).called
  /\ wstack' = Append([wstack EXCEPT ![Len(wstack)].called = TRUE], Frame("next", 0))
  /\ index' = Wrap(index + 1) /\ nexts' = nexts + 1
  /\ UNCHANGED <<OthersOfWorker, tasks, steps, needNext, ran, stopped, escaped,
                 overrun, due, gotos>>

HandlerReturns_Early ==
  /\ In("handler")
  /\ api[Top(wstack).i] = "recovery" => Top(wstack).called
  /\ wstack' = Pop(Pop(wstack)) /\ UNCHANGED index
  /\ UNCHANGED <<OthersOfWorker, tasks, steps, needNext, pastVars>>

\* Back in the loop, the index goes on.
HandlerReturns ==
  /\ In("handler")
  /\ api[Top(wstack).i] = "recovery" => Top(wstack).called
  /\ wstack' = Pop(wstack) /\ index' = Wrap(index + 1)
  /\ UNCHANGED <<OthersOfWorker, tasks, steps, needNext, pastVars>>

\* A panic unwinds to the nearest RouterRecovery, which returns to its loop;
\* without one, to doMsgHandlerSlices.
Unwind(s) ==
  LET rec == {k \in DOMAIN s : s[k].fn = "handler" /\ api[s[k].i] = "recovery"} IN
    IF rec = {}
      THEN wstack' = <<>> /\ escaped' = TRUE /\ UNCHANGED index
      ELSE /\ \E k \in rec : (\A j \in rec : j <= k) /\ wstack' = SubSeq(s, 1, k - 1)
           /\ index' = Wrap(index + 1) /\ UNCHANGED escaped

HandlerPanics ==
  /\ In("handler") /\ api[Top(wstack).i] = "plain"
  /\ Unwind(wstack)
  /\ UNCHANGED <<OthersOfWorker, tasks, steps, needNext, ran, nexts, stopped,
                 overrun, due, gotos>>

\* r.handlers[r.index] with a negative index.
IndexPanics ==
  /\ In("next") /\ Left /\ index < 0
  /\ overrun' = TRUE /\ Unwind(wstack)
  /\ UNCHANGED <<OthersOfWorker, tasks, steps, needNext, ran, nexts, stopped,
                 due, gotos>>

Reader == Execute \/ Intercept \/ InterceptorReturns
Worker == \/ TakeTask \/ CallStep \/ CallEnds \/ StepReturns
          \/ NextHandler \/ NextEnds \/ HandlerReturns \/ IndexPanics
          \/ CallsNext
Panics == InterceptorPanics \/ StepPanics \/ HandlerPanics

Next ==
  \/ \E h \in Handlers : Use(h) \/ GroupUse(h)
  \/ \E own \in {<<"plain">>, <<"plain", "plain">>} : AddHandler(own)
  \/ AddRouter
  \/ Reader \/ Proceed \/ Worker \/ Panics \/ Abort
  \/ \E s \in Steps : Goto(s)

Spec == Init /\ [][Next]_vars

\* The worker keeps running and the user's code returns.
FairSpec == Spec /\ WF_vars(Worker)

-----------------------------------------------------------------------------
(* Properties                                                               *)

\* The handlers and the calls of Next fit the index.
Countable == Len(api) + nexts <= IndexMax

\* The handlers of a request run in the order they were registered, none
\* twice, whichever of them call Next, panic or are recovered, and however
\* often the interceptors dispatched the request, as long as the index, an
\* int8, can count the handlers and the calls of Next (RouterSlicesNext).
InOrder == Countable => \A k \in DOMAIN ran : ran[k] = k

\* After Abort no further handler is entered, as long as the index can count
\* (Abort, RouterSlicesNext).
AbortIsFinal == Countable /\ stopped # -1 => Len(ran) = stopped

\* When the worker is done with the request, every handler ran, unless one
\* aborted or a panic met no RouterRecovery; and the list is not left
\* (RouterSlicesNext).
NoneSkipped ==
  Countable /\ mode = "slices" =>
    /\ wstack = <<>> /\ nexts > 0 => Len(ran) = Len(api) \/ stopped # -1 \/ escaped
    /\ ~overrun

\* The router's methods run in the order Goto and Abort ask for, and otherwise
\* one after the other: back in its loop, Call is at the step that is due.
StepIsDue ==
  In("call") /\ ~escaped =>
    /\ needNext
    /\ steps = due \/ (steps >= HANDLE_OVER /\ due = HANDLE_OVER)

\* A dispatched request is done with in the end: neither Goto nor an index that
\* wraps around keeps the worker for ever.
Finishes == tasks > 0 ~> tasks = 0 /\ wstack = <<>>
=============================================================================

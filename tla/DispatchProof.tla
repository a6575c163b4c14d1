---------------------------- MODULE DispatchProof ----------------------------
(***************************************************************************)
(* The list of handlers is run in order, once each, and an Abort is final, *)
(* for every width of the index, list of handlers, nesting of Next, panic  *)
(* and number of dispatches that the index can count; and the three steps  *)
(* of a router come in the order that is due.                              *)
(***************************************************************************)
EXTENDS Dispatch, TLAPS

-----------------------------------------------------------------------------
(* The index                                                                *)

LEMMA SmallMod == ASSUME NEW a \in Nat, NEW b \in Nat, a < b PROVE a % b = a
BY Z3

LEMMA ModRange == ASSUME NEW a \in Int, NEW b \in Nat, b > 0 PROVE a % b \in 0..(b - 1)
OBVIOUS

\* int8(x) is an int8, and is x where x fits.
LEMMA WrapRange == ASSUME NEW x \in Int PROVE Wrap(x) \in (-IndexMax - 1)..IndexMax
<1> DEFINE b == 2 * (IndexMax + 1)
<1>1. x + IndexMax + 1 \in Int /\ b \in Nat /\ b > 0
  BY DispatchAssumption
<1>2. (x + IndexMax + 1) % b \in 0..(b - 1)
  BY <1>1, ModRange
<1> HIDE DEF b
<1>3. ((x + IndexMax + 1) % b) - (IndexMax + 1) \in (-IndexMax - 1)..(b - IndexMax - 2)
  BY <1>1, <1>2, DispatchAssumption
<1> QED
  BY <1>3, DispatchAssumption DEF Wrap, b

LEMMA WrapFits == ASSUME NEW x \in (-IndexMax - 1)..IndexMax PROVE Wrap(x) = x
<1> DEFINE b == 2 * (IndexMax + 1)
<1>1. x + IndexMax + 1 \in Nat /\ b \in Nat /\ x + IndexMax + 1 < b
  BY DispatchAssumption
<1>2. (x + IndexMax + 1) % b = x + IndexMax + 1
  BY <1>1, SmallMod
<1> QED
  BY <1>2, DispatchAssumption DEF Wrap

-----------------------------------------------------------------------------
(* The invariant                                                            *)

\* Before the id is registered nothing has happened.
Fresh ==
  ~ready =>
    /\ rstack = <<>> /\ tasks = 0 /\ wstack = <<>> /\ steps = 0 /\ needNext
    /\ index = -1 /\ ran = <<>> /\ nexts = 0 /\ stopped = -1 /\ ~overrun

Alternates(s) ==
  \A k \in DOMAIN s : s[k].fn = IF k % 2 = 1 THEN "next" ELSE "handler"

\* Calls of Next and of handlers alternate on the worker's stack; a router's
\* method is called by Call.
Shape ==
  /\ In("step") => steps <= 3
  /\ mode = "slices" => Alternates(wstack)
  /\ mode = "slices" => Len(wstack) <= 2 * nexts
  /\ mode = "router" =>
       /\ Len(wstack) <= 2
       /\ \A k \in DOMAIN wstack : wstack[k].fn = IF k = 1 THEN "call" ELSE "step"
       /\ ran = <<>> /\ nexts = 0 /\ stopped = -1 /\ ~overrun

\* Where the index is: at the next handler inside RouterSlicesNext, at the
\* current one inside a handler, or behind the list.  What is left of the stack
\* cannot carry it over its limit.
Position ==
  /\ 2 * index + Len(wstack) <= 2 * (Len(api) + nexts) + 1
  /\ wstack # <<>> => index >= 0
  /\ index < Len(api) =>
       index = IF In("next") THEN Len(ran) ELSE Len(ran) - 1
  /\ stopped = -1 /\ index >= Len(api) => Len(ran) = Len(api)
  /\ stopped # -1 => index >= Len(api) /\ Len(ran) = stopped
  /\ wstack = <<>> /\ nexts > 0 /\ ~escaped => index >= Len(api)
  /\ ~overrun
  /\ \A k \in DOMAIN ran : ran[k] = k

\* Request.Call: what next() will do is what is due.
Turn ==
  /\ In("step") /\ ~escaped => IF needNext
                                 THEN steps + 1 = due \/ (steps = HANDLE_OVER /\ due = HANDLE_OVER)
                                 ELSE steps = due
  /\ wstack = <<>> /\ mode = "router" /\ ~escaped => needNext /\ steps = PRE_HANDLE

Counted == mode = "slices" /\ Countable => Position

IInv == TypeOK /\ Fresh /\ Shape /\ Counted /\ Turn /\ StepIsDue

-----------------------------------------------------------------------------
(* The stack                                                                *)

LEMMA Short == ASSUME NEW S, NEW a \in S
               PROVE  <<>> \in Seq(S) /\ <<a>> \in Seq(S) /\ <<a, a>> \in Seq(S)
OBVIOUS

LEMMA Push ==
  ASSUME NEW S, NEW s \in Seq(S), NEW f \in S
  PROVE  /\ Append(s, f) \in Seq(S) /\ Len(Append(s, f)) = Len(s) + 1
         /\ \A k \in 1..Len(s) : Append(s, f)[k] = s[k]
         /\ Append(s, f)[Len(s) + 1] = f
OBVIOUS

LEMMA Cut ==
  ASSUME NEW S, NEW s \in Seq(S), NEW n \in 0..Len(s)
  PROVE  /\ SubSeq(s, 1, n) \in Seq(S) /\ Len(SubSeq(s, 1, n)) = n
         /\ \A k \in 1..n : SubSeq(s, 1, n)[k] = s[k]
OBVIOUS

LEMMA Mark ==
  ASSUME NEW s \in Seq(WFrames), s # <<>>
  PROVE  LET t == [s EXCEPT ![Len(s)].called = TRUE]
         IN /\ t \in Seq(WFrames) /\ Len(t) = Len(s)
            /\ \A k \in 1..Len(s) : t[k].fn = s[k].fn
<1> DEFINE t == [s EXCEPT ![Len(s)].called = TRUE]
<1>1. Len(s) \in 1..Len(s) /\ DOMAIN s = 1..Len(s) /\ Len(s) \in Nat
  OBVIOUS
<1>2. \A k \in 1..Len(s) : s[k] \in WFrames
  OBVIOUS
<1>3. t \in [1..Len(s) -> WFrames] /\ \A k \in 1..Len(s) : t[k].fn = s[k].fn
  BY <1>1, <1>2 DEF WFrames
<1>4. t \in Seq(WFrames) /\ Len(t) = Len(s)
  BY <1>1, <1>3
<1> QED
  BY <1>3, <1>4

LEMMA Frames == ASSUME NEW fn \in {"call", "step", "next", "handler"}, NEW i \in Int
                PROVE  Frame(fn, i) \in WFrames /\ Frame(fn, i).fn = fn
BY DEF Frame, WFrames

\* The nearest RouterRecovery is at an even place, with a call of Next under it.
LEMMA Recovery ==
  ASSUME TypeOK, Shape, mode = "slices", Unwind(wstack)
  PROVE  \/ /\ wstack' = <<>> /\ escaped' = TRUE /\ index' = index
         \/ \E k \in DOMAIN wstack :
              /\ k % 2 = 0 /\ wstack' = SubSeq(wstack, 1, k - 1)
              /\ index' = Wrap(index + 1) /\ escaped' = escaped
<1> DEFINE rec == {k \in DOMAIN wstack :
                     wstack[k].fn = "handler" /\ api[wstack[k].i] = "recovery"}
<1>1. CASE rec = {}
  BY <1>1 DEF Unwind
<1>2. CASE rec # {}
  <2>1. /\ \E k \in rec : (\A j \in rec : j <= k) /\ wstack' = SubSeq(wstack, 1, k - 1)
        /\ index' = Wrap(index + 1) /\ escaped' = escaped
    BY <1>2 DEF Unwind
  <2>2. PICK k \in rec : wstack' = SubSeq(wstack, 1, k - 1)
    BY <2>1
  <2>3. k \in DOMAIN wstack /\ wstack[k].fn = "handler" /\ k \in Nat
    BY DEF TypeOK
  <2>4. k % 2 # 1
    BY <2>3 DEF Shape, Alternates
  <2>5. k % 2 = 0
    BY <2>3, <2>4
  <2> QED
    BY <2>1, <2>2, <2>3, <2>5
<1> QED
  BY <1>1, <1>2

-----------------------------------------------------------------------------
(* Types                                                                    *)

LEMMA SetupTypes ==
  ASSUME TypeOK,
         \/ \E h \in Handlers : Use(h) \/ GroupUse(h)
         \/ \E own \in {<<"plain">>, <<"plain", "plain">>} : AddHandler(own)
         \/ AddRouter
  PROVE  TypeOK'
<1> USE DEF TypeOK, Running, reqVars, pastVars
<1>1. ASSUME NEW h \in Handlers, Use(h) \/ GroupUse(h) PROVE TypeOK'
  <2>1. Append(use, h) \in Seq(Handlers) /\ Append(group, h) \in Seq(Handlers)
    BY Push
  <2>2. use' \in {use, Append(use, h)} /\ group' \in {group, Append(group, h)}
    BY <1>1 DEF Use, GroupUse
  <2> QED
    BY <1>1, <2>1, <2>2 DEF Use, GroupUse
<1>2. ASSUME NEW own \in {<<"plain">>, <<"plain", "plain">>}, AddHandler(own) PROVE TypeOK'
  <2>1. own \in Seq(Handlers)
    <3>1. "plain" \in Handlers
      BY DEF Handlers
    <3>2. <<"plain">> \in Seq(Handlers) /\ <<"plain", "plain">> \in Seq(Handlers)
      BY <3>1, Short
    <3> QED
      BY <3>2
  <2>2. api' \in Seq(Handlers)
    BY <1>2, <2>1 DEF AddHandler
  <2> QED
    BY <1>2, <2>2 DEF AddHandler
<1>3. CASE AddRouter
  BY <1>3 DEF AddRouter
<1> QED
  BY <1>1, <1>2, <1>3

LEMMA ReaderTypes ==
  ASSUME TypeOK, Reader \/ Proceed \/ InterceptorPanics
  PROVE  TypeOK'
<1> USE DEF TypeOK, OthersOfReader, setupVars, reqVars, pastVars
<1>1. UNCHANGED OthersOfReader
  BY DEF Reader, Execute, Intercept, InterceptorReturns, Proceed, InterceptorPanics
<1>2. tasks' \in Nat
  BY DEF Reader, Execute, Intercept, InterceptorReturns, Proceed, InterceptorPanics
<1>3. rstack' \in Seq(RFrames)
  <2>1. CASE Execute
    <3>1. [pos |-> 0, calls |-> 0] \in RFrames
      BY DispatchAssumption DEF RFrames
    <3> QED
      BY <2>1, <3>1 DEF Execute
  <2>2. CASE Intercept \/ InterceptorReturns
    <3>1. Len(rstack) - 1 \in 0..Len(rstack)
      BY <2>2 DEF Intercept, InterceptorReturns
    <3>2. rstack' = SubSeq(rstack, 1, Len(rstack) - 1)
      BY <2>2 DEF Intercept, InterceptorReturns, Pop
    <3> QED
      BY <3>1, <3>2, Cut
  <2>3. CASE InterceptorPanics
    BY <2>3 DEF InterceptorPanics
  <2>4. CASE Proceed
    <3> DEFINE n == Len(rstack)
               t == [rstack EXCEPT ![n].calls = @ + 1]
               f == [pos |-> Top(rstack).pos + 1, calls |-> 0]
    <3>1. n \in 1..n /\ DOMAIN rstack = 1..n /\ n \in Nat
      BY <2>4 DEF Proceed
    <3>2. \A k \in 1..n : rstack[k] \in RFrames
      BY <3>1
    <3>3. rstack[n].pos < NInter /\ rstack[n].calls < MaxProceed
      BY <2>4 DEF Proceed, Top
    <3> HIDE DEF TypeOK
    <3>8. rstack[n] \in RFrames
      BY <3>1, <3>2
    <3>9. rstack[n].calls + 1 \in 0..MaxProceed /\ rstack[n].pos + 1 \in 0..NInter
      BY <3>3, <3>8, DispatchAssumption DEF RFrames
    <3>4. t \in [1..n -> RFrames]
      <4>1. [rstack[n] EXCEPT !.calls = @ + 1] \in RFrames
        BY <3>8, <3>9 DEF RFrames
      <4>2. t = [k \in 1..n |-> IF k = n THEN [rstack[n] EXCEPT !.calls = @ + 1] ELSE rstack[k]]
        BY <3>1
      <4> QED
        BY <3>2, <4>1, <4>2
    <3>5. f \in RFrames
      BY <3>9, DispatchAssumption DEF RFrames, Top
    <3>6. t \in Seq(RFrames)
      <4> HIDE DEF t
      <4> QED
        BY <3>1, <3>4
    <3>7. rstack' = Append(t, f)
      BY <2>4 DEF Proceed
    <3> HIDE DEF t, f
    <3> QED
      BY <3>5, <3>6, <3>7
  <2> QED
    BY <2>1, <2>2, <2>3, <2>4 DEF Reader
<1> QED
  BY <1>1, <1>2, <1>3

LEMMA WorkerTypes ==
  ASSUME TypeOK, Shape, Worker \/ StepPanics \/ HandlerPanics \/ Abort \/ (\E s \in Steps : Goto(s))
  PROVE  TypeOK'
<1>1. UNCHANGED <<setupVars, rstack>>
  BY DEF Worker, TakeTask, CallStep, CallEnds, StepReturns, NextHandler, NextEnds,
         HandlerReturns, IndexPanics, CallsNext, StepPanics, HandlerPanics, Abort,
         Goto, OthersOfWorker
<1>2. tasks' \in Nat
  BY DEF Worker, TakeTask, CallStep, CallEnds, StepReturns, NextHandler, NextEnds,
         HandlerReturns, IndexPanics, CallsNext, StepPanics, HandlerPanics, Abort,
         Goto, TypeOK
<1>3. wstack' \in Seq(WFrames)
  <2>1. CASE TakeTask
    <3>1. Frame("call", 0) \in WFrames /\ Frame("next", 0) \in WFrames
      BY Frames
    <3>2. wstack' = <<Frame("call", 0)>> \/ wstack' = <<Frame("next", 0)>>
      BY <2>1 DEF TakeTask
    <3> QED
      BY <3>1, <3>2, Short
  <2>2. CASE CallStep
    <3>1. Frame("step", steps) \in WFrames
      BY Frames DEF TypeOK
    <3> QED
      BY <2>2, <3>1, Push DEF CallStep, TypeOK
  <2>3. CASE CallEnds \/ StepPanics
    <3>1. wstack' = <<>>
      BY <2>3 DEF CallEnds, StepPanics
    <3> QED
      BY <3>1
  <2>4. CASE StepReturns \/ NextEnds \/ HandlerReturns
    <3>1. wstack # <<>> /\ wstack' = SubSeq(wstack, 1, Len(wstack) - 1)
      BY <2>4 DEF StepReturns, NextEnds, HandlerReturns, In, Pop
    <3>2. Len(wstack) - 1 \in 0..Len(wstack)
      BY <3>1 DEF TypeOK
    <3> QED
      BY <3>1, <3>2, Cut DEF TypeOK
  <2>5. CASE NextHandler
    <3>1. Frame("handler", index + 1) \in WFrames
      BY Frames DEF TypeOK
    <3> QED
      BY <2>5, <3>1, Push DEF NextHandler, TypeOK
  <2>6. CASE IndexPanics \/ HandlerPanics
    <3>1. Unwind(wstack)
      BY <2>6 DEF IndexPanics, HandlerPanics
    <3>2. \A k \in DOMAIN wstack : k - 1 \in 0..Len(wstack)
      BY DEF TypeOK
    <3>3. wstack' = <<>> \/ \E k \in DOMAIN wstack : wstack' = SubSeq(wstack, 1, k - 1)
      BY <3>1 DEF Unwind
    <3>4. ASSUME NEW k \in DOMAIN wstack PROVE SubSeq(wstack, 1, k - 1) \in Seq(WFrames)
      BY <3>2, Cut DEF TypeOK
    <3>5. <<>> \in Seq(WFrames)
      OBVIOUS
    <3> QED
      BY <3>3, <3>4, <3>5
  <2>7. CASE CallsNext
    <3>1. wstack # <<>>
      BY <2>7 DEF CallsNext, In
    <3>2. [wstack EXCEPT ![Len(wstack)].called = TRUE] \in Seq(WFrames)
      BY <3>1, Mark DEF TypeOK
    <3>3. Frame("next", 0) \in WFrames
      BY Frames
    <3> QED
      BY <2>7, <3>2, <3>3, Push DEF CallsNext
  <2>8. CASE Abort \/ \E s \in Steps : Goto(s)
    BY <2>8 DEF Abort, Goto, TypeOK
  <2> QED
    BY <2>1, <2>2, <2>3, <2>4, <2>5, <2>6, <2>7, <2>8 DEF Worker
<1>4. index' \in (-IndexMax - 1)..IndexMax
  <2>1. Wrap(index + 1) \in (-IndexMax - 1)..IndexMax
    <3>1. index + 1 \in Int
      BY DispatchAssumption DEF TypeOK
    <3> QED
      BY <3>1, WrapRange
  <2>2. Wrap(Len(api)) \in (-IndexMax - 1)..IndexMax
    BY WrapRange DEF TypeOK
  <2>3. index' \in {index, Wrap(index + 1), Wrap(Len(api))}
    BY DEF Worker, TakeTask, CallStep, CallEnds, StepReturns, NextHandler, NextEnds,
           HandlerReturns, IndexPanics, CallsNext, StepPanics, HandlerPanics, Abort,
           Goto, Unwind, reqVars, pastVars
  <2> QED
    BY <2>1, <2>2, <2>3 DEF TypeOK
<1>5. steps' \in 0..4 /\ due' \in 0..3
  <2>1. /\ steps' \in {steps, 0, HANDLE_OVER} \cup Steps \/ (In("step") /\ steps' = steps + 1)
        /\ due' \in {due, 0, HANDLE_OVER} \cup Steps \/ (steps < HANDLE_OVER /\ due' = steps + 1)
    BY DEF Worker, TakeTask, CallStep, CallEnds, StepReturns, NextHandler, NextEnds,
           HandlerReturns, IndexPanics, CallsNext, StepPanics, HandlerPanics, Abort,
           Goto, reqVars, pastVars, PRE_HANDLE
  <2>2. In("step") => steps + 1 \in 0..4
    BY DEF TypeOK, Shape
  <2>3. steps < HANDLE_OVER => steps + 1 \in 0..3
    BY DEF TypeOK, HANDLE_OVER
  <2>4. steps' \in 0..4
    BY <2>1, <2>2 DEF TypeOK, Steps, PRE_HANDLE, HANDLE_OVER
  <2>5. due' \in 0..3
    BY <2>1, <2>3 DEF TypeOK, Steps, PRE_HANDLE, HANDLE_OVER
  <2> QED
    BY <2>4, <2>5
<1>6. needNext' \in BOOLEAN /\ escaped' \in BOOLEAN /\ overrun' \in BOOLEAN
  BY DEF Worker, TakeTask, CallStep, CallEnds, StepReturns, NextHandler, NextEnds,
         HandlerReturns, IndexPanics, CallsNext, StepPanics, HandlerPanics, Abort,
         Goto, Unwind, reqVars, pastVars, TypeOK
<1>7. nexts' \in Nat /\ stopped' \in Int /\ gotos' \in 0..MaxGotos
  <2>1. nexts' \in {nexts, nexts + 1}
    BY DEF Worker, TakeTask, CallStep, CallEnds, StepReturns, NextHandler, NextEnds,
           HandlerReturns, IndexPanics, CallsNext, StepPanics, HandlerPanics, Abort,
           Goto, pastVars
  <2>2. stopped' \in {stopped, Len(ran)}
    BY DEF Worker, TakeTask, CallStep, CallEnds, StepReturns, NextHandler, NextEnds,
           HandlerReturns, IndexPanics, CallsNext, StepPanics, HandlerPanics, Abort,
           Goto, pastVars
  <2>3. gotos' = gotos \/ (gotos < MaxGotos /\ gotos' = gotos + 1)
    BY DEF Worker, TakeTask, CallStep, CallEnds, StepReturns, NextHandler, NextEnds,
           HandlerReturns, IndexPanics, CallsNext, StepPanics, HandlerPanics, Abort,
           Goto, pastVars
  <2>4. Len(ran) \in Int
    BY DEF TypeOK
  <2> QED
    BY <2>1, <2>2, <2>3, <2>4, DispatchAssumption DEF TypeOK
<1>8. ran' \in Seq(Nat)
  <2>1. ran' = ran \/ (index >= 0 /\ ran' = Append(ran, index + 1))
    BY DEF Worker, TakeTask, CallStep, CallEnds, StepReturns, NextHandler, NextEnds,
           HandlerReturns, IndexPanics, CallsNext, StepPanics, HandlerPanics, Abort,
           Goto, reqVars, pastVars
  <2>2. index >= 0 => index + 1 \in Nat
    BY DEF TypeOK
  <2>3. ran \in Seq(Nat)
    BY DEF TypeOK
  <2> QED
    BY <2>1, <2>2, <2>3
<1> QED
  BY <1>1, <1>2, <1>3, <1>4, <1>5, <1>6, <1>7, <1>8 DEF TypeOK, setupVars

LEMMA TypeStep == TypeOK /\ Shape /\ [Next]_vars => TypeOK'
<1> SUFFICES ASSUME TypeOK, Shape, [Next]_vars PROVE TypeOK'
  OBVIOUS
<1>1. CASE UNCHANGED vars
  BY <1>1 DEF vars, setupVars, reqVars, pastVars, TypeOK
<1> QED
  BY <1>1, SetupTypes, ReaderTypes, WorkerTypes DEF Next, Panics

-----------------------------------------------------------------------------
(* The list of handlers                                                     *)

LEMMA AltTop ==
  ASSUME NEW s \in Seq(WFrames), Alternates(s), s # <<>>
  PROVE  /\ Len(s) \in Nat /\ Len(s) >= 1
         /\ Top(s).fn = IF Len(s) % 2 = 1 THEN "next" ELSE "handler"
BY DEF Alternates, Top

LEMMA AltPush ==
  ASSUME NEW s \in Seq(WFrames), Alternates(s), NEW f \in WFrames,
         f.fn = IF Len(s) % 2 = 0 THEN "next" ELSE "handler"
  PROVE  Alternates(Append(s, f))
<1>1. (Len(s) % 2 = 0) <=> ((Len(s) + 1) % 2 = 1)
  OBVIOUS
<1>2. DOMAIN Append(s, f) = 1..(Len(s) + 1)
  OBVIOUS
<1>3. ASSUME NEW k \in 1..(Len(s) + 1)
      PROVE  Append(s, f)[k].fn = IF k % 2 = 1 THEN "next" ELSE "handler"
  <2>1. CASE k = Len(s) + 1
    BY <2>1, <1>1, Push
  <2>2. CASE k \in 1..Len(s)
    BY <2>2, Push DEF Alternates
  <2> QED
    BY <2>1, <2>2
<1> QED
  BY <1>2, <1>3 DEF Alternates

LEMMA AltCut ==
  ASSUME NEW s \in Seq(WFrames), Alternates(s), NEW n \in 0..Len(s)
  PROVE  Alternates(SubSeq(s, 1, n))
<1>1. DOMAIN SubSeq(s, 1, n) = 1..n /\ 1..n \subseteq DOMAIN s
  OBVIOUS
<1> QED
  BY <1>1, Cut DEF Alternates

\* What a step of the worker does to its stack in RouterSlicesMode.
SlicesStep ==
  Worker \/ StepPanics \/ HandlerPanics \/ Abort \/ \E s \in Steps : Goto(s)

LEMMA SlicesActions ==
  ASSUME TypeOK, Shape, mode = "slices", SlicesStep
  PROVE  \/ TakeTask \/ NextHandler \/ NextEnds \/ CallsNext \/ HandlerReturns
         \/ HandlerPanics \/ IndexPanics \/ (Abort /\ In("handler"))
<1>1. ~In("call") /\ ~In("step")
  <2>1. CASE wstack = <<>>
    BY <2>1 DEF In
  <2>2. CASE wstack # <<>>
    BY <2>2, AltTop DEF In, TypeOK, Shape
  <2> QED
    BY <2>1, <2>2
<1>2. ~CallStep /\ ~CallEnds /\ ~StepReturns /\ ~StepPanics
  BY <1>1 DEF CallStep, CallEnds, StepReturns, StepPanics
<1>3. ~\E s \in Steps : Goto(s)
  BY <1>1 DEF Goto
<1>4. Abort => In("handler")
  BY <1>1 DEF Abort, InUserCode
<1>5. Worker => \/ TakeTask \/ NextHandler \/ NextEnds \/ HandlerReturns
                \/ IndexPanics \/ CallsNext
  BY <1>2 DEF Worker
<1> QED
  BY <1>2, <1>3, <1>4, <1>5 DEF SlicesStep

LEMMA SlicesShape ==
  ASSUME TypeOK, Shape, mode = "slices", SlicesStep
  PROVE  mode' = mode /\ api' = api /\ Alternates(wstack') /\ Len(wstack') <= 2 * nexts'
<1> DEFINE h == Len(wstack)
<1>1. h \in Nat /\ nexts \in Nat /\ Alternates(wstack) /\ h <= 2 * nexts
      /\ wstack \in Seq(WFrames)
  BY DEF TypeOK, Shape
<1>2. mode' = mode /\ api' = api
  BY SlicesActions
     DEF TakeTask, NextHandler, NextEnds, CallsNext, HandlerReturns, HandlerPanics,
         IndexPanics, Abort, OthersOfWorker, setupVars
<1>3. CASE TakeTask
  <2>1. wstack' = <<Frame("next", 0)>> /\ nexts' = nexts + 1
    BY <1>3 DEF TakeTask
  <2>2. Alternates(wstack') /\ Len(wstack') = 1
    BY <2>1 DEF Alternates, Frame
  <2> QED
    BY <1>1, <1>2, <2>1, <2>2
<1>4. CASE NextHandler
  <2>1. wstack' = Append(wstack, Frame("handler", index + 1)) /\ nexts' = nexts
    BY <1>4 DEF NextHandler
  <2>2. Frame("handler", index + 1) \in WFrames /\ Frame("handler", index + 1).fn = "handler"
    BY Frames DEF TypeOK
  <2>3. h % 2 = 1
    BY <1>1, <1>4, AltTop DEF NextHandler, In
  <2>4. Alternates(wstack') /\ Len(wstack') = h + 1
    BY <1>1, <2>1, <2>2, <2>3, AltPush, Push
  <2> QED
    BY <1>1, <1>2, <2>1, <2>3, <2>4
<1>5. CASE NextEnds \/ HandlerReturns
  <2>1. wstack' = SubSeq(wstack, 1, h - 1) /\ nexts' = nexts /\ wstack # <<>>
    BY <1>5 DEF NextEnds, HandlerReturns, In, Pop, pastVars
  <2>2. h - 1 \in 0..h
    BY <1>1, <2>1
  <2>3. Alternates(wstack') /\ Len(wstack') = h - 1
    BY <1>1, <2>1, <2>2, AltCut, Cut
  <2> QED
    BY <1>1, <1>2, <2>1, <2>3
<1>6. CASE CallsNext
  <2> DEFINE t == [wstack EXCEPT ![Len(wstack)].called = TRUE]
  <2>1. wstack' = Append(t, Frame("next", 0)) /\ nexts' = nexts + 1 /\ wstack # <<>>
    BY <1>6 DEF CallsNext, In
  <2>2. t \in Seq(WFrames) /\ Len(t) = h /\ \A k \in 1..h : t[k].fn = wstack[k].fn
    BY <1>1, <2>1, Mark
  <2>3. Frame("next", 0) \in WFrames /\ Frame("next", 0).fn = "next"
    BY Frames
  <2>4. h % 2 # 1
    BY <1>1, <1>6, AltTop DEF CallsNext, In
  <2>5. h % 2 = 0
    BY <1>1, <2>4
  <2> HIDE DEF t
  <2>6. Alternates(t)
    BY <1>1, <2>2 DEF Alternates
  <2>7. Alternates(wstack') /\ Len(wstack') = h + 1
    BY <2>1, <2>2, <2>3, <2>5, <2>6, AltPush, Push
  <2> QED
    BY <1>1, <1>2, <2>1, <2>5, <2>7
<1>7. CASE HandlerPanics \/ IndexPanics
  <2>1. Unwind(wstack) /\ nexts' = nexts
    BY <1>7 DEF HandlerPanics, IndexPanics
  <2>2. CASE wstack' = <<>>
    BY <1>1, <1>2, <2>1, <2>2 DEF Alternates
  <2>3. ASSUME NEW k \in DOMAIN wstack, wstack' = SubSeq(wstack, 1, k - 1)
        PROVE  Alternates(wstack') /\ Len(wstack') <= 2 * nexts'
    <3>1. k - 1 \in 0..h
      BY <1>1
    <3>2. Alternates(wstack') /\ Len(wstack') = k - 1
      BY <1>1, <2>3, <3>1, AltCut, Cut
    <3> QED
      BY <1>1, <2>1, <3>1, <3>2
  <2> QED
    BY <1>2, <2>1, <2>2, <2>3, Recovery
<1>8. CASE Abort
  BY <1>1, <1>2, <1>8 DEF Abort
<1> QED
  BY <1>2, <1>3, <1>4, <1>5, <1>6, <1>7, <1>8, SlicesActions

\* The stack before a step, in numbers.
LEMMA Depth ==
  ASSUME TypeOK, Shape, mode = "slices"
  PROVE  /\ Len(wstack) \in Nat /\ (wstack = <<>> <=> Len(wstack) = 0)
         /\ In("next") <=> Len(wstack) % 2 = 1
         /\ In("handler") <=> Len(wstack) # 0 /\ Len(wstack) % 2 = 0
<1>1. Len(wstack) \in Nat /\ (wstack = <<>> <=> Len(wstack) = 0)
  BY DEF TypeOK
<1>2. CASE wstack = <<>>
  BY <1>1, <1>2 DEF In
<1>3. CASE wstack # <<>>
  <2>1. Top(wstack).fn = IF Len(wstack) % 2 = 1 THEN "next" ELSE "handler"
    BY <1>3, AltTop DEF TypeOK, Shape
  <2>2. Len(wstack) % 2 \in {0, 1}
    BY <1>1
  <2> QED
    BY <1>1, <1>3, <2>1, <2>2 DEF In
<1> QED
  BY <1>2, <1>3

\* And after it.
LEMMA DepthAfter ==
  ASSUME TypeOK', Alternates(wstack')
  PROVE  /\ Len(wstack') \in Nat /\ (wstack' = <<>> <=> Len(wstack') = 0)
         /\ In("next")' <=> Len(wstack') % 2 = 1
<1>1. wstack' \in Seq(WFrames)
  BY DEF TypeOK
<1>2. Len(wstack') \in Nat /\ (wstack' = <<>> <=> Len(wstack') = 0)
  BY <1>1
<1>3. CASE wstack' = <<>>
  BY <1>2, <1>3 DEF In
<1>4. CASE wstack' # <<>>
  <2>1. Top(wstack').fn = IF Len(wstack') % 2 = 1 THEN "next" ELSE "handler"
    BY <1>1, <1>4, AltTop
  <2>2. Top(wstack)' = Top(wstack')
    BY DEF Top
  <2> QED
    BY <1>2, <1>4, <2>1, <2>2 DEF In
<1> QED
  BY <1>3, <1>4

LEMMA Parity ==
  ASSUME NEW h \in Nat
  PROVE  /\ (h % 2 = 0) <=> ((h + 1) % 2 = 1)
         /\ (h % 2 = 0) <=> ((h - 1) % 2 = 1)
         /\ h % 2 = 0 /\ h # 0 => h >= 2
         /\ h % 2 = 1 => h >= 1
         /\ \A a \in Int : /\ h % 2 = 0 /\ h <= 2 * a + 1 => h <= 2 * a
                         /\ h % 2 = 1 /\ h <= 2 * a => h + 1 <= 2 * a
OBVIOUS

LEMMA SlicesPosition ==
  ASSUME TypeOK, TypeOK', Shape, Alternates(wstack'), mode = "slices", Position, Countable',
         SlicesStep
  PROVE  Position'
<1> DEFINE h == Len(wstack)
           L == Len(api)
<1>1. /\ h \in Nat /\ L \in Nat /\ nexts \in Nat /\ index \in Int /\ stopped \in Int
      /\ Len(ran) \in Nat /\ ran \in Seq(Nat) /\ IndexMax \in Nat
  BY DispatchAssumption DEF TypeOK
<1>2. api' = api /\ nexts' \in Nat /\ L + nexts' <= IndexMax /\ nexts <= nexts'
  <2>1. api' = api
    BY SlicesShape
  <2>2. nexts' \in {nexts, nexts + 1}
    BY SlicesActions DEF TakeTask, NextHandler, NextEnds, CallsNext, HandlerReturns,
       HandlerPanics, IndexPanics, Abort, pastVars
  <2> QED
    BY <1>1, <2>1, <2>2 DEF Countable
<1>3. L + nexts <= IndexMax
  BY <1>1, <1>2
<1> HIDE DEF h, L
<1>4. Wrap(L) = L
  BY <1>1, <1>3, WrapFits
<1>5. /\ (wstack = <<>> <=> h = 0)
      /\ (In("next") <=> h % 2 = 1) /\ (In("handler") <=> h # 0 /\ h % 2 = 0)
  BY Depth DEF h
<1>6. 2 * index + h <= 2 * (L + nexts) + 1 /\ h <= 2 * nexts
  BY DEF Position, Shape, h, L
<1>20. /\ (h % 2 = 0) <=> ((h + 1) % 2 = 1)
       /\ (h % 2 = 0) <=> ((h - 1) % 2 = 1)
       /\ h % 2 = 0 /\ h # 0 => h >= 2
       /\ h % 2 = 1 => h >= 1 /\ h + 1 <= 2 * nexts
       /\ h % 2 = 0 => 2 * index + h <= 2 * (L + nexts)
  <2>1. h <= 2 * (L + nexts - index) + 1 /\ L + nexts - index \in Int /\ nexts \in Int
    BY <1>1, <1>6
  <2>2. /\ h % 2 = 0 => h <= 2 * (L + nexts - index)
        /\ h % 2 = 1 => h + 1 <= 2 * nexts
    BY <1>1, <1>6, <2>1, Parity
  <2> QED
    BY <1>1, <2>2, Parity
<1>7. index < L => index = IF In("next") THEN Len(ran) ELSE Len(ran) - 1
  BY DEF Position, L
<1>8. /\ stopped = -1 /\ index >= L => Len(ran) = L
      /\ stopped # -1 => index >= L /\ Len(ran) = stopped
      /\ wstack # <<>> => index >= 0
      /\ index >= -1
  BY <1>1, <1>5, <1>7 DEF Position, L
<1>9. ~overrun /\ \A k \in DOMAIN ran : ran[k] = k
  BY DEF Position
<1>10. Len(wstack') \in Nat /\ (wstack' = <<>> <=> Len(wstack') = 0)
       /\ (In("next")' <=> Len(wstack') % 2 = 1)
  BY DepthAfter
\* Position', in numbers.
<1> DEFINE Goal(h2, i2, r2, st2, es2) ==
      /\ 2 * i2 + h2 <= 2 * (L + nexts') + 1
      /\ h2 # 0 => i2 >= 0
      /\ i2 < L => i2 = IF h2 % 2 = 1 THEN r2 ELSE r2 - 1
      /\ st2 = -1 /\ i2 >= L => r2 = L
      /\ st2 # -1 => i2 >= L /\ r2 = st2
      /\ h2 = 0 /\ nexts' > 0 /\ ~es2 => i2 >= L
<1>11. SUFFICES /\ Goal(Len(wstack'), index', Len(ran'), stopped', escaped')
                /\ ~overrun' /\ \A k \in DOMAIN ran' : ran'[k] = k
  BY <1>2, <1>10 DEF Position, L
<1>12. CASE TakeTask
  <2>1. h = 0 /\ wstack' = <<Frame("next", 0)>> /\ nexts' = nexts + 1
        /\ index' = Wrap(index + 1) /\ UNCHANGED <<ran, stopped, escaped, overrun>>
    BY <1>12, <1>5 DEF TakeTask
  <2>2. Len(wstack') = 1 /\ index' = index + 1
    BY <1>1, <1>2, <1>6, <1>8, <2>1, WrapFits
  <2> QED
    BY <1>1, <1>5, <1>6, <1>7, <1>8, <1>9, <2>1, <2>2
<1>13. CASE NextHandler
  <2>1. /\ In("next") /\ index < L /\ wstack' = Append(wstack, Frame("handler", index + 1))
        /\ ran' = Append(ran, index + 1)
        /\ UNCHANGED <<index, nexts, stopped, escaped, overrun>>
    BY <1>4, <1>13 DEF NextHandler, Left, L, reqVars
  <2>2. Len(wstack') = h + 1 /\ Len(ran') = Len(ran) + 1
    BY <2>1 DEF TypeOK, h
  <2>3. index = Len(ran) /\ h % 2 = 1 /\ stopped = -1
    BY <1>1, <1>5, <1>7, <1>8, <2>1
  <2>4. \A k \in DOMAIN ran' : ran'[k] = k
    BY <1>1, <1>9, <2>1, <2>3
  <2>5. 2 * index + (h + 1) <= 2 * (L + nexts) + 1 /\ index >= 0 /\ (h + 1) % 2 # 1
        /\ ~(index >= L) /\ h + 1 # 0 /\ index = Len(ran) + 1 - 1
    BY <1>1, <1>8, <1>20, <2>1, <2>3
  <2>6. nexts' = nexts /\ index' = index /\ stopped' = -1 /\ ~overrun'
    BY <1>9, <2>1, <2>3
  <2> QED
    BY <2>2, <2>4, <2>5, <2>6
<1>14. CASE NextEnds
  <2>1. /\ In("next") /\ ~(index < L) /\ wstack' = SubSeq(wstack, 1, h - 1)
        /\ UNCHANGED <<index, ran, nexts, stopped, escaped, overrun>>
    BY <1>4, <1>14 DEF NextEnds, Left, L, h, Pop, reqVars, pastVars
  <2>2. h % 2 = 1 /\ h - 1 \in 0..h
    BY <1>1, <1>5, <1>20, <2>1
  <2>3. Len(wstack') = h - 1
    BY <2>1, <2>2, Cut DEF TypeOK, h
  <2> QED
    BY <1>1, <1>5, <1>6, <1>7, <1>8, <1>9, <1>20, <2>1, <2>2, <2>3
<1>15. CASE CallsNext
  <2> DEFINE t == [wstack EXCEPT ![Len(wstack)].called = TRUE]
  <2>1. /\ In("handler") /\ wstack' = Append(t, Frame("next", 0))
        /\ index' = Wrap(index + 1) /\ nexts' = nexts + 1
        /\ UNCHANGED <<ran, stopped, escaped, overrun>>
    BY <1>15 DEF CallsNext
  <2>6. wstack \in Seq(WFrames) /\ (wstack # <<>> => t \in Seq(WFrames) /\ Len(t) = h)
    BY Mark DEF TypeOK, h
  <2> HIDE DEF t
  <2>2. h % 2 = 0 /\ h >= 2
    BY <1>1, <1>5, <1>20, <2>1
  <2>3. t \in Seq(WFrames) /\ Len(t) = h
    BY <1>1, <1>5, <2>2, <2>6
  <2>4. Len(wstack') = h + 1
    BY <1>1, <2>1, <2>3
  <2>5. index' = index + 1
    BY <1>1, <1>2, <1>6, <1>8, <2>1, <2>2, WrapFits
  <2> QED
    BY <1>1, <1>5, <1>6, <1>7, <1>8, <1>9, <1>20, <2>1, <2>2, <2>4, <2>5
<1>16. CASE HandlerReturns
  <2>1. /\ In("handler") /\ wstack' = SubSeq(wstack, 1, h - 1) /\ index' = Wrap(index + 1)
        /\ UNCHANGED <<ran, nexts, stopped, escaped, overrun>>
    BY <1>16 DEF HandlerReturns, h, Pop, pastVars
  <2>2. h % 2 = 0 /\ h >= 2
    BY <1>1, <1>5, <1>20, <2>1
  <2>3. Len(wstack') = h - 1
    BY <1>1, <2>1, <2>2, Cut DEF TypeOK, h
  <2>4. index' = index + 1
    BY <1>1, <1>2, <1>6, <1>8, <2>1, <2>2, WrapFits
  <2> QED
    BY <1>1, <1>5, <1>6, <1>7, <1>8, <1>9, <1>20, <2>1, <2>2, <2>3, <2>4
<1>17. CASE HandlerPanics
  <2>1. /\ In("handler") /\ Unwind(wstack)
        /\ UNCHANGED <<ran, nexts, stopped, overrun>>
    BY <1>17 DEF HandlerPanics
  <2>2. h % 2 = 0 /\ h >= 2
    BY <1>1, <1>5, <1>20, <2>1
  <2>3. CASE wstack' = <<>> /\ escaped' = TRUE /\ index' = index
    BY <1>1, <1>5, <1>6, <1>7, <1>8, <1>9, <1>10, <2>1, <2>2, <2>3
  <2>5. DOMAIN wstack = 1..h /\ wstack \in Seq(WFrames)
    BY DEF TypeOK, h
  <2>4. ASSUME NEW k \in DOMAIN wstack, k % 2 = 0, wstack' = SubSeq(wstack, 1, k - 1),
               index' = Wrap(index + 1), escaped' = escaped
        PROVE  Goal(Len(wstack'), index', Len(ran'), stopped', escaped')
    <3>4. k \in 1..h
      BY <2>5
    <3>1. k \in Nat /\ k - 1 \in 0..h /\ k <= h /\ k >= 2 /\ (k - 1) % 2 = 1
      <4>1. k \in Nat /\ k # 0 /\ k % 2 = 0
        BY <2>4, <3>4
      <4>2. k >= 2 /\ (k - 1) % 2 = 1
        BY <4>1, Parity
      <4> QED
        BY <1>1, <3>4, <4>2
    <3>2. Len(wstack') = k - 1
      BY <2>4, <2>5, <3>1, Cut DEF h
    <3>3. index' = index + 1
      <4>1. index + 1 \in (-IndexMax - 1)..IndexMax
        BY <1>1, <1>3, <1>8, <1>20, <2>2
      <4> QED
        BY <2>4, <4>1, WrapFits
    <3>5. index < L => index = Len(ran) - 1
      BY <1>5, <1>7, <2>2
    <3>6. 2 * (index + 1) + (k - 1) <= 2 * (L + nexts) + 1
      BY <1>1, <1>20, <2>2, <3>1
    <3>7. nexts' = nexts /\ Len(ran') = Len(ran) /\ stopped' = stopped
      BY <2>1
    <3>8. index >= 0
      BY <1>1, <1>5, <1>8, <2>2
    <3>9. /\ k - 1 # 0 => index + 1 >= 0
          /\ index + 1 < L => index + 1 = IF (k - 1) % 2 = 1 THEN Len(ran) ELSE Len(ran) - 1
          /\ stopped = -1 /\ index + 1 >= L => Len(ran) = L
          /\ stopped # -1 => index + 1 >= L /\ Len(ran) = stopped
          /\ k - 1 # 0
      BY <1>1, <1>8, <3>1, <3>5, <3>8
    <3> QED
      BY <3>2, <3>3, <3>6, <3>7, <3>9
  <2> QED
    BY <1>9, <2>1, <2>3, <2>4, Recovery
<1>18. CASE IndexPanics
  BY <1>1, <1>8, <1>18 DEF IndexPanics, In
<1>19. CASE Abort /\ In("handler")
  <2>1. /\ index' = Wrap(L) /\ stopped' = IF stopped = -1 THEN Len(ran) ELSE stopped
        /\ UNCHANGED <<wstack, ran, nexts, escaped, overrun>>
    BY <1>19 DEF Abort, L
  <2>2. h % 2 = 0 /\ h >= 2
    BY <1>1, <1>5, <1>19
  <2> QED
    BY <1>1, <1>4, <1>5, <1>6, <1>8, <1>9, <2>1, <2>2 DEF h
<1> QED
  BY <1>12, <1>13, <1>14, <1>15, <1>16, <1>17, <1>18, <1>19, SlicesActions

-----------------------------------------------------------------------------
(* Every step                                                               *)

\* Registration and the reader leave the worker and the request alone, and the
\* list does not change once it is registered.
QuietStep ==
  \/ \E h \in Handlers : Use(h) \/ GroupUse(h)
  \/ \E own \in {<<"plain">>, <<"plain", "plain">>} : AddHandler(own)
  \/ AddRouter \/ Reader \/ Proceed \/ InterceptorPanics \/ UNCHANGED vars

LEMMA Quiet ==
  ASSUME QuietStep
  PROVE  /\ UNCHANGED <<mode, wstack, steps, needNext, index, ran, nexts, stopped, escaped,
                        overrun, due>>
         /\ api' = api \/ (~ready /\ mode = "slices")
<1>1. ASSUME NEW h \in Handlers, Use(h) \/ GroupUse(h)
      PROVE  UNCHANGED <<mode, api, Running>>
  BY <1>1 DEF Use, GroupUse
<1>2. ASSUME NEW own \in {<<"plain">>, <<"plain", "plain">>}, AddHandler(own)
      PROVE  UNCHANGED <<mode, Running>> /\ ~ready /\ mode = "slices"
  BY <1>2 DEF AddHandler, Room
<1>3. CASE AddRouter \/ UNCHANGED vars
  BY <1>3 DEF AddRouter, vars, setupVars, Running, reqVars, pastVars
<1>4. CASE Reader \/ Proceed \/ InterceptorPanics
  <2>1. UNCHANGED OthersOfReader
    BY <1>4 DEF Reader, Execute, Intercept, InterceptorReturns, Proceed, InterceptorPanics
  <2> QED
    BY <2>1 DEF OthersOfReader, setupVars, reqVars, pastVars
<1> QED
  BY <1>1, <1>2, <1>3, <1>4 DEF QuietStep, Running, reqVars, pastVars

LEMMA FreshStep ==
  ASSUME TypeOK, Fresh, [Next]_vars
  PROVE  Fresh' /\ (ready \/ QuietStep)
<1>1. CASE ready
  <2>1. ready'
    BY <1>1 DEF Next, vars, setupVars, Use, GroupUse, Room, AddHandler, AddRouter, Reader,
       Execute, Intercept, InterceptorReturns, Proceed, Panics, InterceptorPanics,
       StepPanics, HandlerPanics, Worker, TakeTask, CallStep, CallEnds, StepReturns,
       NextHandler, NextEnds, HandlerReturns, IndexPanics, CallsNext, Abort, Goto,
       OthersOfReader, OthersOfWorker
  <2> QED
    BY <1>1, <2>1 DEF Fresh
<1>2. CASE ~ready
  <2>1. rstack = <<>> /\ tasks = 0 /\ wstack = <<>>
    BY <1>2 DEF Fresh
  <2>2. ~Worker /\ ~Panics /\ ~Abort /\ ~Reader /\ ~Proceed /\ ~\E s \in Steps : Goto(s)
    BY <1>2, <2>1 DEF Reader, Execute, Intercept, InterceptorReturns, Proceed, Panics,
       InterceptorPanics, StepPanics, HandlerPanics, Worker, TakeTask, CallStep, CallEnds,
       StepReturns, NextHandler, NextEnds, HandlerReturns, IndexPanics, CallsNext, Abort,
       Goto, In, InUserCode
  <2>3. QuietStep
    BY <2>2 DEF Next, QuietStep
  <2>4. UNCHANGED <<rstack, tasks>>
    BY <2>2 DEF Next, Use, GroupUse, AddHandler, AddRouter, vars, Running
  <2> QED
    BY <1>2, <2>3, <2>4, Quiet DEF Fresh
<1> QED
  BY <1>1, <1>2

LEMMA QuietKeeps ==
  ASSUME IInv, TypeOK', QuietStep
  PROVE  Shape' /\ Counted' /\ Turn' /\ StepIsDue'
<1>1. /\ UNCHANGED <<mode, wstack, steps, needNext, index, ran, nexts, stopped, escaped,
                     overrun, due>>
      /\ api' = api \/ (~ready /\ mode = "slices")
  BY Quiet
<1>2. \A fn : In(fn)' <=> In(fn)
  BY <1>1 DEF In, Top
<1>3. Shape' /\ Turn' /\ StepIsDue'
  BY <1>1, <1>2 DEF IInv, Shape, Alternates, Turn, StepIsDue
<1>4. Counted'
  <2>1. CASE api' = api
    BY <1>1, <1>2, <2>1 DEF IInv, Counted, Countable, Position
  <2>2. CASE ~ready
    <3>1. wstack' = <<>> /\ index' = -1 /\ ran' = <<>> /\ nexts' = 0 /\ stopped' = -1 /\ ~overrun'
      BY <1>1, <2>2 DEF IInv, Fresh
    <3>2. Len(api') \in Nat
      BY DEF TypeOK
    <3>3. ~In("next")'
      BY <3>1 DEF In
    <3>4. Len(wstack') = 0 /\ Len(ran') = 0 /\ DOMAIN ran' = {}
      BY <3>1
    <3> QED
      BY <3>1, <3>2, <3>3, <3>4 DEF Counted, Position
  <2> QED
    BY <1>1, <2>1, <2>2
<1> QED
  BY <1>3, <1>4

LEMMA SlicesKeeps ==
  ASSUME IInv, TypeOK', mode = "slices", SlicesStep
  PROVE  Shape' /\ Counted' /\ Turn' /\ StepIsDue'
<1>1. mode' = "slices" /\ api' = api /\ Alternates(wstack') /\ Len(wstack') <= 2 * nexts'
  BY SlicesShape DEF IInv
<1>2. ~In("step")' /\ ~In("call")'
  <2>1. CASE wstack' = <<>>
    BY <2>1 DEF In
  <2>2. CASE wstack' # <<>>
    <3>1. wstack' \in Seq(WFrames)
      BY DEF TypeOK
    <3>2. Top(wstack').fn \in {"next", "handler"}
      BY <1>1, <2>2, <3>1, AltTop
    <3> QED
      BY <3>2 DEF In, Top
  <2> QED
    BY <2>1, <2>2
<1>3. Shape' /\ Turn' /\ StepIsDue'
  BY <1>1, <1>2 DEF Shape, Alternates, Turn, StepIsDue
<1>4. ASSUME Countable' PROVE Countable
  <2>1. nexts' \in {nexts, nexts + 1}
    BY SlicesActions DEF IInv, TakeTask, NextHandler, NextEnds, CallsNext, HandlerReturns,
       HandlerPanics, IndexPanics, Abort, pastVars
  <2>2. Len(api) \in Nat /\ nexts \in Nat
    BY DEF IInv, TypeOK
  <2> QED
    BY <1>1, <1>4, <2>1, <2>2, DispatchAssumption DEF Countable
<1>5. Counted'
  BY <1>1, <1>4, SlicesPosition DEF IInv, Counted
<1> QED
  BY <1>3, <1>5

\* What a step of the worker does in the other mode.
LEMMA RouterActions ==
  ASSUME TypeOK, Shape, mode = "router", SlicesStep
  PROVE  /\ In("call") => Len(wstack) = 1
         /\ In("step") => Len(wstack) = 2
         /\ TakeTask \/ CallStep \/ CallEnds \/ StepReturns \/ StepPanics
            \/ (Abort /\ In("step")) \/ \E s \in Steps : Goto(s)
<1>1. wstack # <<>> => /\ Len(wstack) \in {1, 2} /\ Len(wstack) \in DOMAIN wstack
                       /\ Top(wstack).fn = IF Len(wstack) = 1 THEN "call" ELSE "step"
  <2>1. Len(wstack) \in Nat /\ Len(wstack) <= 2 /\ (wstack # <<>> => Len(wstack) # 0)
        /\ DOMAIN wstack = 1..Len(wstack)
    BY DEF TypeOK, Shape
  <2>2. wstack # <<>> => Len(wstack) \in {1, 2} /\ Len(wstack) \in DOMAIN wstack
    BY <2>1
  <2> QED
    BY <2>2 DEF Shape, Top
<1>2. ~In("next") /\ ~In("handler") /\ (In("call") => Len(wstack) = 1)
      /\ (In("step") => Len(wstack) = 2)
  BY <1>1 DEF In
<1>3. ~NextHandler /\ ~NextEnds /\ ~HandlerReturns /\ ~IndexPanics /\ ~CallsNext /\ ~HandlerPanics
  BY <1>2 DEF NextHandler, NextEnds, HandlerReturns, IndexPanics, CallsNext, HandlerPanics
<1>4. Abort => In("step")
  BY <1>2 DEF Abort, InUserCode
<1>5. Worker => TakeTask \/ CallStep \/ CallEnds \/ StepReturns
  BY <1>3 DEF Worker
<1> QED
  BY <1>2, <1>3, <1>4, <1>5 DEF SlicesStep

\* A stack of at most two procedures, as a router's is.
OfRouter(s) ==
  Len(s) <= 2 /\ \A k \in DOMAIN s : s[k].fn = IF k = 1 THEN "call" ELSE "step"

LEMMA RouterKeeps ==
  ASSUME IInv, TypeOK', mode = "router", SlicesStep
  PROVE  Shape' /\ Counted' /\ Turn' /\ StepIsDue'
<1> USE DEF PRE_HANDLE, HANDLE_OVER
<1>1. /\ In("call") => Len(wstack) = 1
      /\ In("step") => Len(wstack) = 2
      /\ TakeTask \/ CallStep \/ CallEnds \/ StepReturns \/ StepPanics
         \/ (Abort /\ In("step")) \/ \E s \in Steps : Goto(s)
  BY RouterActions DEF IInv
<1>2. mode' = mode /\ UNCHANGED <<ran, nexts, stopped, overrun>>
  BY <1>1 DEF TakeTask, CallStep, CallEnds, StepReturns, StepPanics, Abort, Goto,
              OthersOfWorker, setupVars, pastVars
<1>3. /\ wstack \in Seq(WFrames) /\ OfRouter(wstack) /\ steps \in 0..4 /\ due \in 0..3
      /\ ran = <<>> /\ nexts = 0 /\ stopped = -1 /\ ~overrun
      /\ needNext \in BOOLEAN /\ escaped \in BOOLEAN
  BY DEF IInv, TypeOK, Shape, OfRouter
\* The stack after the step, the step that is due, and the invariant with them.
<1>4. SUFFICES /\ OfRouter(wstack')
               /\ In("step")' => steps' <= 3
               /\ Turn' /\ StepIsDue'
  BY <1>2, <1>3 DEF Shape, Counted, OfRouter
<1>5. ASSUME wstack' = <<>> PROVE OfRouter(wstack') /\ ~In("step")' /\ ~In("call")'
  BY <1>5 DEF OfRouter, In
<1>6. CASE TakeTask
  <2>1. wstack = <<>> /\ wstack' = <<Frame("call", 0)>> /\ due' = 0
        /\ UNCHANGED <<steps, needNext, escaped>>
    BY <1>6 DEF TakeTask
  <2>2. OfRouter(wstack') /\ ~In("step")' /\ wstack' # <<>>
    BY <2>1 DEF OfRouter, In, Top, Frame
  <2> QED
    BY <2>1, <2>2 DEF IInv, Turn, StepIsDue
<1>7. CASE CallStep
  <2>1. /\ In("call") /\ steps < 3 /\ wstack' = Append(wstack, Frame("step", steps))
        /\ due' = steps + 1 /\ UNCHANGED <<steps, needNext, escaped>>
    BY <1>7 DEF CallStep, reqVars
  <2>2. Frame("step", steps) \in WFrames /\ Frame("step", steps).fn = "step"
    BY <1>3, Frames
  <2>3. Len(wstack) = 1 /\ Len(wstack') = 2 /\ wstack'[1] = wstack[1]
        /\ wstack'[2] = Frame("step", steps) /\ DOMAIN wstack' = 1..2
    <3> DEFINE f == Frame("step", steps)
    <3>1. Len(wstack) = 1
      BY <1>1, <2>1
    <3>2. wstack \in Seq(WFrames) /\ f \in WFrames /\ wstack' = Append(wstack, f)
      BY <1>3, <2>1, <2>2
    <3> HIDE DEF f
    <3>3. Append(wstack, f) \in Seq(WFrames) /\ Len(Append(wstack, f)) = 2
          /\ Append(wstack, f)[1] = wstack[1] /\ Append(wstack, f)[2] = f
      <4>1. /\ Append(wstack, f) \in Seq(WFrames) /\ Len(Append(wstack, f)) = Len(wstack) + 1
            /\ \A k \in 1..Len(wstack) : Append(wstack, f)[k] = wstack[k]
            /\ Append(wstack, f)[Len(wstack) + 1] = f
        BY <3>2, Push
      <4> QED
        BY <3>1, <4>1
    <3>4. DOMAIN wstack' = 1..2
      BY <3>2, <3>3
    <3> QED
      BY <3>1, <3>2, <3>3, <3>4 DEF f
  <2>4. wstack[1].fn = "call"
    BY <1>3, <2>3 DEF OfRouter
  <2>7. Top(wstack)' = wstack'[2]
    BY <2>3 DEF Top
  <2>5. OfRouter(wstack') /\ ~In("call")' /\ wstack' # <<>>
    BY <2>2, <2>3, <2>4, <2>7 DEF OfRouter, In
  <2>6. ~escaped => needNext
    BY <2>1 DEF IInv, StepIsDue
  <2> QED
    BY <1>3, <2>1, <2>5, <2>6 DEF Turn, StepIsDue
<1>8. CASE CallEnds
  <2>1. /\ In("call") /\ ~(steps < 3) /\ wstack' = <<>> /\ steps' = 0
        /\ UNCHANGED <<needNext, escaped>>
    BY <1>3, <1>8 DEF CallEnds, pastVars
  <2>2. ~escaped => needNext
    BY <2>1 DEF IInv, StepIsDue
  <2> QED
    BY <1>5, <2>1, <2>2 DEF Turn, StepIsDue
<1>9. CASE StepReturns
  <2>1. /\ In("step") /\ wstack' = SubSeq(wstack, 1, Len(wstack) - 1)
        /\ steps' = (IF needNext THEN steps + 1 ELSE steps) /\ needNext' = TRUE
        /\ UNCHANGED <<escaped, due>>
    BY <1>9 DEF StepReturns, Pop, pastVars
  <2>7. Len(wstack) = 2
    BY <1>1, <2>1
  <2>2. Len(wstack) = 2 /\ 1 \in 0..Len(wstack)
    BY <2>7
  <2>3. Len(wstack') = 1 /\ wstack'[1] = wstack[1] /\ DOMAIN wstack' = 1..1
        /\ wstack[1].fn = "call"
    BY <1>3, <2>1, <2>2, Cut DEF OfRouter
  <2>4. OfRouter(wstack') /\ ~In("step")' /\ wstack' # <<>>
    BY <2>3 DEF OfRouter, In, Top
  <2>5. ~escaped => IF needNext THEN steps + 1 = due \/ (steps = 3 /\ due = 3)
                                ELSE steps = due
    BY <2>1 DEF IInv, Turn
  <2>6. ~escaped => steps' = due \/ (steps' >= 3 /\ due = 3)
    BY <1>3, <2>1, <2>5
  <2> QED
    BY <2>1, <2>4, <2>6 DEF Turn, StepIsDue
<1>10. CASE StepPanics
  <2>1. wstack' = <<>> /\ escaped' = TRUE
    BY <1>10 DEF StepPanics
  <2> QED
    BY <1>5, <2>1 DEF Turn, StepIsDue
<1>11. CASE Abort /\ In("step")
  <2>1. steps' = 3 /\ due' = 3 /\ UNCHANGED <<wstack, needNext, escaped>>
    BY <1>11 DEF Abort
  <2>2. ~In("call")' /\ wstack' # <<>>
    BY <1>11, <2>1 DEF In, Top
  <2> QED
    BY <1>3, <2>1, <2>2 DEF Turn, StepIsDue
<1>12. ASSUME NEW s \in Steps, Goto(s)
       PROVE  /\ OfRouter(wstack')
              /\ In("step")' => steps' <= 3
              /\ Turn' /\ StepIsDue'
  <2>1. In("step") /\ steps' = s /\ due' = s /\ needNext' = FALSE /\ UNCHANGED <<wstack, escaped>>
    BY <1>12 DEF Goto
  <2>2. ~In("call")' /\ wstack' # <<>>
    BY <2>1 DEF In, Top
  <2>3. s <= 3
    BY DEF Steps
  <2> QED
    BY <1>3, <2>1, <2>2, <2>3 DEF Turn, StepIsDue
<1> QED
  BY <1>1, <1>6, <1>7, <1>8, <1>9, <1>10, <1>11, <1>12

-----------------------------------------------------------------------------
LEMMA InitInv == Init => IInv
<1> SUFFICES ASSUME Init PROVE IInv
  OBVIOUS
<1>1. TypeOK
  <2>1. index \in (-IndexMax - 1)..IndexMax /\ gotos \in 0..MaxGotos
    BY DispatchAssumption DEF Init
  <2>2. <<>> \in Seq(Handlers) /\ <<>> \in Seq(RFrames) /\ <<>> \in Seq(WFrames)
        /\ <<>> \in Seq(Nat)
    OBVIOUS
  <2>3. /\ use \in Seq(Handlers) /\ group \in Seq(Handlers) /\ api \in Seq(Handlers)
        /\ rstack \in Seq(RFrames) /\ wstack \in Seq(WFrames) /\ ran \in Seq(Nat)
    BY <2>2 DEF Init
  <2>4. /\ mode \in {"router", "slices"} /\ tasks \in Nat /\ steps \in 0..4 /\ nexts \in Nat
        /\ stopped \in Int /\ due \in 0..3
    BY DEF Init, PRE_HANDLE
  <2>5. ready \in BOOLEAN /\ needNext \in BOOLEAN /\ escaped \in BOOLEAN /\ overrun \in BOOLEAN
    BY DEF Init
  <2> QED
    BY <2>1, <2>3, <2>4, <2>5 DEF TypeOK
<1>2. Len(wstack) = 0 /\ Len(ran) = 0 /\ Len(api) = 0 /\ DOMAIN wstack = {} /\ DOMAIN ran = {}
  BY DEF Init
<1>3. ~In("next") /\ ~In("step") /\ ~In("call")
  BY DEF Init, In
<1> QED
  BY <1>1, <1>2, <1>3
     DEF Init, IInv, Fresh, Shape, Alternates, Counted, Position, Turn, StepIsDue, PRE_HANDLE

LEMMA StepInv == IInv /\ [Next]_vars => IInv'
<1> SUFFICES ASSUME IInv, [Next]_vars PROVE IInv'
  OBVIOUS
<1>1. TypeOK'
  BY TypeStep DEF IInv
<1>2. Fresh'
  BY FreshStep DEF IInv
<1>3. QuietStep \/ SlicesStep
  BY DEF Next, QuietStep, SlicesStep, Panics
<1>4. Shape' /\ Counted' /\ Turn' /\ StepIsDue'
  <2>1. mode \in {"router", "slices"}
    BY DEF IInv, TypeOK
  <2> QED
    BY <1>1, <1>3, <2>1, QuietKeeps, SlicesKeeps, RouterKeeps
<1> QED
  BY <1>1, <1>2, <1>4 DEF IInv

THEOREM Invariance == Spec => []IInv
BY InitInv, StepInv, PTL DEF Spec

\* The fields of the request and the stacks keep their types (request.go).
THEOREM TypeCorrect == Spec => []TypeOK
BY Invariance, PTL DEF IInv

\* The handlers run in their order, none twice, whatever the width of the index,
\* as long as it can count them and the calls of Next (RouterSlicesNext).
THEOREM HandlersInOrder == Spec => []InOrder
<1>1. IInv => InOrder
  <2> SUFFICES ASSUME IInv, Countable PROVE \A k \in DOMAIN ran : ran[k] = k
    BY DEF InOrder
  <2> QED
    BY DEF IInv, TypeOK, Shape, Counted, Position
<1> QED
  BY <1>1, Invariance, PTL

\* After Abort no handler is entered (Abort, RouterSlicesNext).
THEOREM AbortHolds == Spec => []AbortIsFinal
<1>1. IInv => AbortIsFinal
  BY DEF IInv, TypeOK, Shape, Counted, Position, AbortIsFinal
<1> QED
  BY <1>1, Invariance, PTL

\* No handler is left out without an Abort or an unrecovered panic, and the
\* index stays in the list (RouterSlicesNext).
THEOREM AllHandlersRun == Spec => []NoneSkipped
<1>1. IInv => NoneSkipped
  <2> SUFFICES ASSUME IInv, Countable, mode = "slices" PROVE NoneSkipped
    BY DEF NoneSkipped
  <2>1. Position /\ index \in Int /\ Len(api) \in Nat /\ Len(ran) \in Nat
    BY DEF IInv, Counted, TypeOK
  <2> QED
    BY <2>1 DEF Position, NoneSkipped
<1> QED
  BY <1>1, Invariance, PTL

\* A router's methods run in the order Goto and Abort ask for (Call, next).
THEOREM StepsAreDue == Spec => []StepIsDue
BY Invariance, PTL DEF IInv
=============================================================================

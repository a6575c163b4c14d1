------------------------------- MODULE AsyncOp -------------------------------
(***************************************************************************)
(* One AsyncOpResult of zinx/zasync_op/async_op_result.go.  IO threads     *)
(* (Setters) call SetReturnedObj, business threads (Registrars) call       *)
(* OnComplete, and the worker that owns the connection runs the callback   *)
(* that doComplete posts to its task queue.                                *)
(*                                                                         *)
(* The flags are updated with atomic compare-and-swap; returnObj and       *)
(* completeFunc are plain fields, and hasReturnedObj is read plainly in    *)
(* OnComplete.  The plain store of a thread in Delayed may become visible  *)
(* to the others only later, as on amd64, where a compare-and-swap drains  *)
(* the thread's store buffer and a plain load does not wait for it.        *)
(*                                                                         *)
(* A thread stands for its argument: setter s returns the value s,         *)
(* registrar r registers the callback r.                                   *)
(*                                                                         *)
(* A definition named X_Word is X with one mistake in it; no action uses   *)
(* it.  Each one shows that a property of the run can fail.                *)
(***************************************************************************)
EXTENDS Naturals, Sequences

CONSTANTS
  Setters, Registrars,
  Nil,           \* no value, no callback
  Delayed        \* threads whose plain store may be delayed

ASSUME AsyncOpAssumption ==
  /\ Nil \notin Setters \cup Registrars
  /\ Setters \cap Registrars = {}
  /\ Delayed \subseteq Setters \cup Registrars

VARIABLES
  pc,
  hasReturnedObj, hasCompleteFunc, called,   \* the three flags
  returnObj, completeFunc,                   \* the two fields, in memory
  pending,       \* threads whose plain store is still in their store buffer
  taskQueue,     \* callbacks posted to the connection's worker
  ran,           \* history: callbacks run, with what GetReturnedObj gave them
  overtook       \* history: a check for the result overtook the store before it

flags  == <<hasReturnedObj, hasCompleteFunc, called>>
fields == <<returnObj, completeFunc, pending>>
vars == <<pc, flags, fields, taskQueue, ran, overtook>>

Threads == Setters \cup Registrars

TypeOK ==
  /\ pc \in [Threads -> {"call", "store", "check", "test", "claim", "post", "done"}]
  /\ hasReturnedObj \in 0..1 /\ hasCompleteFunc \in 0..1 /\ called \in 0..1
  /\ returnObj \in Setters \cup {Nil}
  /\ completeFunc \in Registrars \cup {Nil}
  /\ pending \subseteq Threads
  /\ taskQueue \in Seq(Registrars \cup {Nil})
  /\ ran \in Seq([func : Registrars \cup {Nil}, obj : Setters \cup {Nil}])
  /\ overtook \in BOOLEAN

\* NewAsyncOpResult: every field has its zero value.
Init ==
  /\ pc = [t \in Threads |-> "call"]
  /\ hasReturnedObj = 0 /\ hasCompleteFunc = 0 /\ called = 0
  /\ returnObj = Nil /\ completeFunc = Nil /\ pending = {}
  /\ taskQueue = <<>> /\ ran = <<>> /\ overtook = FALSE

At(t, from, to) == pc[t] = from /\ pc' = [pc EXCEPT ![t] = to]

\* A plain load of completeFunc: the thread sees its own store first.
LoadFunc(t) ==
  IF t \in Registrars /\ t \in pending THEN t ELSE completeFunc

-----------------------------------------------------------------------------
(* SetReturnedObj                                                           *)

SetReturned(s) ==
  /\ At(s, "call", IF hasReturnedObj = 0 THEN "store" ELSE "done")
  /\ hasReturnedObj' = 1
  /\ UNCHANGED <<hasCompleteFunc, called, fields, taskQueue, ran, overtook>>

StoreObj(s) ==
  /\ At(s, "store", "test")
  /\ \E late \in BOOLEAN :
       /\ late => s \in Delayed
       /\ returnObj' = IF late THEN returnObj ELSE s
       /\ pending' = IF late THEN pending \cup {s} ELSE pending
  /\ UNCHANGED <<flags, completeFunc, taskQueue, ran, overtook>>

-----------------------------------------------------------------------------
(* OnComplete                                                               *)

SetComplete(r) ==
  /\ At(r, "call", IF hasCompleteFunc = 0 THEN "store" ELSE "done")
  /\ hasCompleteFunc' = 1
  /\ UNCHANGED <<hasReturnedObj, called, fields, taskQueue, ran, overtook>>

StoreFunc(r) ==
  /\ At(r, "store", "check")
  /\ \E late \in BOOLEAN :
       /\ late => r \in Delayed
       /\ completeFunc' = IF late THEN completeFunc ELSE r
       /\ pending' = IF late THEN pending \cup {r} ELSE pending
  /\ UNCHANGED <<flags, returnObj, taskQueue, ran, overtook>>

CheckReturned_Never(r) ==
  /\ At(r, "check", "done")
  /\ UNCHANGED <<flags, fields, taskQueue, ran, overtook>>

\* The plain load of hasReturnedObj does not wait for the store of
\* completeFunc before it.
CheckReturned(r) ==
  /\ At(r, "check", IF hasReturnedObj = 1 THEN "test" ELSE "done")
  /\ overtook' = (overtook \/ (r \in pending /\ hasReturnedObj = 0))
  /\ UNCHANGED <<flags, fields, taskQueue, ran>>

-----------------------------------------------------------------------------
(* doComplete                                                               *)

TestFunc_Inverted(t) ==
  /\ At(t, "test", IF LoadFunc(t) # Nil THEN "done" ELSE "claim")
  /\ UNCHANGED <<flags, fields, taskQueue, ran, overtook>>

TestFunc(t) ==
  /\ At(t, "test", IF LoadFunc(t) = Nil THEN "done" ELSE "claim")
  /\ UNCHANGED <<flags, fields, taskQueue, ran, overtook>>

Claim_Unchecked(t) ==
  /\ t \notin pending /\ At(t, "claim", "post")
  /\ called' = 1
  /\ UNCHANGED <<hasReturnedObj, hasCompleteFunc, fields, taskQueue, ran, overtook>>

\* The compare-and-swap waits for the thread's own store to drain.
Claim(t) ==
  /\ t \notin pending
  /\ At(t, "claim", IF called = 0 THEN "post" ELSE "done")
  /\ called' = 1
  /\ UNCHANGED <<hasReturnedObj, hasCompleteFunc, fields, taskQueue, ran, overtook>>

Post(t) ==
  /\ At(t, "post", "done")
  /\ taskQueue' = Append(taskQueue, LoadFunc(t))
  /\ UNCHANGED <<flags, fields, ran, overtook>>

-----------------------------------------------------------------------------
\* A buffered store reaches memory.
Drain(t) ==
  /\ t \in pending /\ pending' = pending \ {t}
  /\ returnObj' = IF t \in Setters THEN t ELSE returnObj
  /\ completeFunc' = IF t \in Registrars THEN t ELSE completeFunc
  /\ UNCHANGED <<pc, flags, taskQueue, ran, overtook>>

\* The worker takes the request, and the callback reads GetReturnedObj.
RunCallback ==
  /\ taskQueue # <<>>
  /\ ran' = Append(ran, [func |-> Head(taskQueue), obj |-> returnObj])
  /\ taskQueue' = Tail(taskQueue)
  /\ UNCHANGED <<pc, flags, fields, overtook>>

Step(t) == TestFunc(t) \/ Claim(t) \/ Post(t) \/ Drain(t)

Setter(s)    == SetReturned(s) \/ StoreObj(s) \/ Step(s)
Registrar(r) == SetComplete(r) \/ StoreFunc(r) \/ CheckReturned(r) \/ Step(r)

Next == \/ \E s \in Setters : Setter(s)
        \/ \E r \in Registrars : Registrar(r)
        \/ RunCallback

Spec == Init /\ [][Next]_vars

\* A thread that entered a method goes on; the worker keeps taking tasks.  No
\* thread is obliged to call, so the calls themselves are not fair.
FairSpec ==
  /\ Spec /\ WF_vars(RunCallback)
  /\ \A s \in Setters : WF_vars(StoreObj(s) \/ Step(s))
  /\ \A r \in Registrars : WF_vars(StoreFunc(r) \/ CheckReturned(r) \/ Step(r))

-----------------------------------------------------------------------------
(* Properties                                                               *)

\* However many threads set the result and register, the callback is posted at
\* most once, and it is a callback somebody registered (doComplete).
AtMostOnce ==
  /\ Len(taskQueue) + Len(ran) <= 1
  /\ \A i \in DOMAIN taskQueue : taskQueue[i] # Nil
  /\ \A i \in DOMAIN ran : ran[i].func # Nil

\* When every call has returned and every store is visible, a result that was
\* set and a callback that was registered have met, unless OnComplete looked for
\* the result while its own store of the callback was still on its way.  That
\* case the comment of doComplete rules out, wrongly; there is no other way to
\* lose a callback (SetReturnedObj, OnComplete, doComplete).
Quiet == pending = {} /\ \A t \in Threads : pc[t] \in {"call", "done"}
Both  == hasReturnedObj = 1 /\ hasCompleteFunc = 1
NeverLost == Quiet /\ Both => called = 1 \/ overtook

Once == INSTANCE OnceCallback WITH
  Callbacks <- Registrars,
  given <- hasCompleteFunc = 1, hasValue <- hasReturnedObj = 1,
  callback <- completeFunc, runs <- [i \in DOMAIN ran |-> ran[i].func],
  missed <- overtook

\* After a value and a callback were given, that callback runs, once, and
\* never before; it may stay away only when the check for the value overtook
\* the callback's store (async_op_result.go).
ImplementsOnce == Once!FairSpec
=============================================================================

---------------------------- MODULE AsyncOpProof ----------------------------
(* Proofs about AsyncOp, for any number of setters and registrars and any   *)
(* delays of the plain stores: types, at most one callback, the one way to  *)
(* lose a callback, and the promise of OnceCallback.  Then proofs about     *)
(* AsyncWorkers: operations of one worker run one at a time and in order.   *)
EXTENDS AsyncWorkers, SequenceTheorems, TLAPS

\* A thread past the nil test has a callback to post; only the one whose
\* compare-and-swap won posts, and until then nothing was posted.
ClaimInv ==
  /\ \A t \in Threads : pc[t] \in {"claim", "post"} => LoadFunc(t) # Nil
  /\ \A t \in Threads :
       pc[t] = "post" => called = 1 /\ taskQueue = <<>> /\ ran = <<>>
  /\ \A t, u \in Threads : pc[t] = "post" /\ pc[u] = "post" => t = u
  /\ called = 0 => taskQueue = <<>> /\ ran = <<>>

Inv == TypeOK /\ ClaimInv /\ AtMostOnce

-----------------------------------------------------------------------------
LEMMA InitInv == Init => Inv
<1> SUFFICES ASSUME Init PROVE Inv
  OBVIOUS
<1>1. overtook \in BOOLEAN
  BY DEF Init
<1>2. TypeOK
  BY <1>1, AsyncOpAssumption DEF Init, TypeOK, Threads
<1>3. ClaimInv /\ AtMostOnce
  BY AsyncOpAssumption DEF Init, ClaimInv, AtMostOnce, Threads
<1> QED
  BY <1>2, <1>3 DEF Inv

\* Every step of a thread or of the worker keeps the types.
LEMMA TypeStep == TypeOK /\ [Next]_vars => TypeOK'
<1> SUFFICES ASSUME TypeOK, [Next]_vars PROVE TypeOK'
  OBVIOUS
<1> USE AsyncOpAssumption DEF TypeOK, Threads, flags, fields, At
<1>1. ASSUME NEW s \in Setters, Setter(s) PROVE TypeOK'
  <2>1. CASE SetReturned(s)
    BY <2>1 DEF SetReturned
  <2>2. CASE StoreObj(s)
    BY <2>2 DEF StoreObj
  <2>3. CASE Step(s)
    <3>1. CASE TestFunc(s)
      BY <3>1 DEF TestFunc
    <3>2. CASE Claim(s)
      BY <3>2 DEF Claim
    <3>3. CASE Post(s)
      <4>1. LoadFunc(s) \in Registrars \cup {Nil}
        BY DEF LoadFunc
      <4>2. taskQueue' \in Seq(Registrars \cup {Nil})
        BY <3>3, <4>1, AppendProperties DEF Post
      <4> QED
        BY <3>3, <4>2 DEF Post
    <3>4. CASE Drain(s)
      BY <3>4 DEF Drain
    <3> QED
      BY <2>3, <3>1, <3>2, <3>3, <3>4 DEF Step
  <2> QED
    BY <1>1, <2>1, <2>2, <2>3 DEF Setter
<1>2. ASSUME NEW r \in Registrars, Registrar(r) PROVE TypeOK'
  <2>1. CASE SetComplete(r)
    BY <2>1 DEF SetComplete
  <2>2. CASE StoreFunc(r)
    BY <2>2 DEF StoreFunc
  <2>3. CASE CheckReturned(r)
    BY <2>3 DEF CheckReturned
  <2>4. CASE Step(r)
    <3>1. CASE TestFunc(r)
      BY <3>1 DEF TestFunc
    <3>2. CASE Claim(r)
      BY <3>2 DEF Claim
    <3>3. CASE Post(r)
      <4>1. LoadFunc(r) \in Registrars \cup {Nil}
        BY DEF LoadFunc
      <4>2. taskQueue' \in Seq(Registrars \cup {Nil})
        BY <3>3, <4>1, AppendProperties DEF Post
      <4> QED
        BY <3>3, <4>2 DEF Post
    <3>4. CASE Drain(r)
      BY <3>4 DEF Drain
    <3> QED
      BY <2>4, <3>1, <3>2, <3>3, <3>4 DEF Step
  <2> QED
    BY <1>2, <2>1, <2>2, <2>3, <2>4 DEF Registrar
<1>3. CASE RunCallback
  <2>1. Head(taskQueue) \in Registrars \cup {Nil}
    BY <1>3 DEF RunCallback
  <2>2. ran' \in Seq([func : Registrars \cup {Nil}, obj : Setters \cup {Nil}])
    BY <1>3, <2>1, AppendProperties DEF RunCallback
  <2>3. taskQueue' \in Seq(Registrars \cup {Nil})
    BY <1>3, HeadTailProperties DEF RunCallback
  <2> QED
    BY <1>3, <2>2, <2>3 DEF RunCallback
<1>4. CASE UNCHANGED vars
  BY <1>4 DEF vars
<1> QED
  BY <1>1, <1>2, <1>3, <1>4 DEF Next

\* When the worker takes the callback, it is the only one there ever was.
LEMMA OneTask ==
  ASSUME TypeOK, AtMostOnce, RunCallback
  PROVE  /\ Len(taskQueue) = 1 /\ ran = <<>>
         /\ Head(taskQueue) = taskQueue[1] /\ 1 \in DOMAIN taskQueue
         /\ taskQueue' = <<>>
<1>1. Len(taskQueue) \in Nat \ {0} /\ Len(ran) \in Nat
  BY EmptySeq, LenProperties DEF RunCallback, TypeOK
<1>2. Len(taskQueue) + Len(ran) <= 1
  BY DEF AtMostOnce
<1>3. Len(taskQueue) = 1 /\ Len(ran) = 0
  <2> DEFINE a == Len(taskQueue)  b == Len(ran)
  <2>1. a \in Nat /\ a # 0 /\ b \in Nat /\ a + b <= 1
    BY <1>1, <1>2
  <2> HIDE DEF a, b
  <2>2. a = 1 /\ b = 0
    BY ONLY <2>1
  <2> QED
    BY <2>2 DEF a, b
<1>4. ran = <<>>
  BY <1>3, EmptySeq DEF TypeOK
<1>5. Head(taskQueue) = taskQueue[1] /\ 1 \in DOMAIN taskQueue
  BY <1>3, LenProperties DEF TypeOK
<1>6. taskQueue' = <<>>
  BY <1>3, HeadTailProperties, EmptySeq DEF RunCallback, TypeOK
<1> QED
  BY <1>3, <1>4, <1>5, <1>6

\* Every step keeps the claim, and so at most one callback is ever posted.
LEMMA ClaimStep == Inv /\ [Next]_vars => ClaimInv' /\ AtMostOnce'
<1> SUFFICES ASSUME Inv, [Next]_vars PROVE ClaimInv' /\ AtMostOnce'
  OBVIOUS
<1> USE AsyncOpAssumption DEF Inv, ClaimInv, AtMostOnce, Threads, LoadFunc,
        flags, fields
<1>1. ASSUME NEW t \in Threads, Step(t) PROVE ClaimInv' /\ AtMostOnce'
  <2>1. CASE TestFunc(t)
    BY <2>1 DEF TypeOK, TestFunc, At
  <2>2. CASE Claim(t)
    BY <2>2 DEF TypeOK, Claim, At
  <2>3. CASE Post(t)
    <3>1. /\ taskQueue = <<>> /\ ran = <<>> /\ called = 1 /\ LoadFunc(t) # Nil
      BY <2>3 DEF Post, At
    <3>2. taskQueue' = <<LoadFunc(t)>>
      BY <2>3, <3>1 DEF Post
    <3>3. pc' = [pc EXCEPT ![t] = "done"]
      BY <2>3 DEF Post, At
    <3>4. \A u \in Threads : pc'[u] # "post"
      BY <2>3, <3>3 DEF TypeOK, Post, At
    <3>5. UNCHANGED <<called, completeFunc, pending, ran>>
      BY <2>3 DEF Post
    <3>6. ClaimInv'
      BY <3>1, <3>3, <3>4, <3>5 DEF TypeOK
    <3>7. AtMostOnce'
      BY <3>1, <3>2, <3>5
    <3> QED
      BY <3>6, <3>7
  <2>4. CASE Drain(t)
    BY <2>4 DEF TypeOK, Drain
  <2> QED
    BY <1>1, <2>1, <2>2, <2>3, <2>4 DEF Step
<1>2. ASSUME NEW s \in Setters, SetReturned(s) \/ StoreObj(s)
      PROVE  ClaimInv' /\ AtMostOnce'
  BY <1>2 DEF TypeOK, SetReturned, StoreObj, At
<1>3. ASSUME NEW r \in Registrars,
             SetComplete(r) \/ StoreFunc(r) \/ CheckReturned(r)
      PROVE  ClaimInv' /\ AtMostOnce'
  BY <1>3 DEF TypeOK, SetComplete, StoreFunc, CheckReturned, At
<1>4. CASE RunCallback
  <2>1. ran = <<>> /\ Head(taskQueue) # Nil /\ taskQueue # <<>>
    BY <1>4, OneTask DEF RunCallback
  <2>2. taskQueue' = <<>>
    BY <1>4, OneTask
  <2>3. ran' = <<[func |-> Head(taskQueue), obj |-> returnObj]>>
    BY <1>4, <2>1 DEF RunCallback
  <2>4. called = 1 /\ \A t \in Threads : pc[t] # "post"
    BY <2>1 DEF TypeOK
  <2>5. UNCHANGED <<pc, called, completeFunc, pending>>
    BY <1>4 DEF RunCallback
  <2>6. ClaimInv'
    BY <2>4, <2>5
  <2>7. AtMostOnce'
    BY <2>1, <2>2, <2>3
  <2> QED
    BY <2>6, <2>7
<1>5. CASE UNCHANGED vars
  BY <1>5 DEF vars
<1> QED
  BY <1>1, <1>2, <1>3, <1>4, <1>5 DEF Next, Setter, Registrar

\* The inductive invariant holds, whatever stores are delayed.
THEOREM Invariance == Spec => []Inv
<1>1. Inv /\ [Next]_vars => Inv'
  BY TypeStep, ClaimStep DEF Inv
<1> QED
  BY <1>1, InitInv, PTL DEF Spec

\* The fields keep their types.
THEOREM TypeCorrect == Spec => []TypeOK
<1>1. Inv => TypeOK
  BY DEF Inv
<1> QED
  BY <1>1, Invariance, PTL

\* The callback of an AsyncOpResult is posted at most once, even on a machine
\* that delays plain stores (doComplete's compare-and-swap).
THEOREM PostedAtMostOnce == Spec => []AtMostOnce
<1>1. Inv => AtMostOnce
  BY DEF Inv
<1> QED
  BY <1>1, Invariance, PTL

-----------------------------------------------------------------------------
(* How a result and a callback meet.                                        *)

\* Registrar r won the flag and its store is still to reach memory.
Storing(r) == pc[r] = "store" \/ r \in pending

GivenInv ==
  /\ \A s \in Setters : pc[s] = "store" => hasReturnedObj = 1
  /\ \A t \in Threads : pc[t] \in {"test", "claim", "post"} => hasReturnedObj = 1
  /\ hasCompleteFunc = 0 => completeFunc = Nil
  /\ \A r \in Registrars :
       /\ Storing(r) => hasCompleteFunc = 1 /\ completeFunc = Nil
       /\ pc[r] = "store" => r \notin pending
       /\ \A q \in Registrars : Storing(q) /\ Storing(r) => q = r
  /\ \A t \in Threads : pc[t] = "post" => t \notin pending /\ completeFunc # Nil
  /\ \A i \in DOMAIN taskQueue :
       hasReturnedObj = 1 /\ completeFunc # Nil /\ taskQueue[i] = completeFunc

LEMMA GivenStep == Inv /\ GivenInv /\ [Next]_vars => GivenInv'
<1> SUFFICES ASSUME Inv, GivenInv, [Next]_vars PROVE GivenInv'
  OBVIOUS
<1> USE AsyncOpAssumption DEF Inv, TypeOK, GivenInv, Storing, Threads, flags, fields, At
<1>1. ASSUME NEW s \in Setters, SetReturned(s) PROVE GivenInv'
  BY <1>1 DEF SetReturned
<1>2. ASSUME NEW s \in Setters, StoreObj(s) PROVE GivenInv'
  BY <1>2 DEF StoreObj
<1>3. ASSUME NEW r \in Registrars, SetComplete(r) PROVE GivenInv'
  BY <1>3 DEF SetComplete
<1>4. ASSUME NEW r \in Registrars, StoreFunc(r) PROVE GivenInv'
  BY <1>4 DEF StoreFunc
<1>5. ASSUME NEW r \in Registrars, CheckReturned(r) PROVE GivenInv'
  BY <1>5 DEF CheckReturned
<1>6. ASSUME NEW t \in Threads, TestFunc(t) PROVE GivenInv'
  BY <1>6 DEF TestFunc
<1>7. ASSUME NEW t \in Threads, Claim(t) PROVE GivenInv'
  BY <1>7 DEF Claim, ClaimInv, LoadFunc
<1>8. ASSUME NEW t \in Threads, Post(t) PROVE GivenInv'
  <2>0. pc[t] = "post" /\ taskQueue = <<>>
    BY <1>8 DEF Post, ClaimInv
  <2>1. /\ taskQueue = <<>> /\ taskQueue' = <<completeFunc>>
        /\ completeFunc # Nil /\ hasReturnedObj = 1
    <3>1. LoadFunc(t) = completeFunc /\ completeFunc # Nil /\ hasReturnedObj = 1
      BY <2>0 DEF LoadFunc
    <3>2. taskQueue' = Append(taskQueue, LoadFunc(t))
      BY <1>8 DEF Post
    <3> QED
      BY <2>0, <3>1, <3>2
  <2>2. \A i \in DOMAIN taskQueue' : taskQueue'[i] = completeFunc
    BY <2>1
  <2>3. pc' = [pc EXCEPT ![t] = "done"]
    BY <1>8 DEF Post
  <2>4. UNCHANGED <<flags, fields>>
    BY <1>8 DEF Post
  <2> QED
    BY <2>1, <2>2, <2>3, <2>4
<1>9. ASSUME NEW t \in Threads, Drain(t) PROVE GivenInv'
  BY <1>9 DEF Drain
<1>10. CASE RunCallback
  <2>1. taskQueue' = <<>>
    BY <1>10, OneTask
  <2> QED
    BY <1>10, <2>1 DEF RunCallback
<1>11. CASE UNCHANGED vars
  BY <1>11 DEF vars
<1> QED
  BY <1>1, <1>2, <1>3, <1>4, <1>5, <1>6, <1>7, <1>8, <1>9, <1>10, <1>11
     DEF Next, Setter, Registrar, Step

\* The registrar that won is storing its callback, or has stored it.  While its
\* store is on the way it goes on to claim, or its check overtook the store.
\* When both are given and nobody claimed, somebody is on the way to it.
MeetInv ==
  /\ hasCompleteFunc = 1 => completeFunc # Nil \/ \E r \in Registrars : Storing(r)
  /\ \A r \in Registrars :
       /\ r \in pending => pc[r] \in {"check", "test", "claim"} \/ overtook
       /\ pc[r] \in {"check", "test", "claim"} => r \in pending \/ completeFunc # Nil
  /\ Both /\ called = 0 =>
       \/ overtook
       \/ \E s \in Setters : pc[s] \in {"store", "test", "claim"}
       \/ \E r \in Registrars : pc[r] \in {"store", "check", "test", "claim"}

LEMMA MeetStep ==
  ASSUME Inv, GivenInv, MeetInv, [Next]_vars
  PROVE  MeetInv'
<1> USE AsyncOpAssumption DEF Inv, TypeOK, GivenInv, MeetInv, Both, Storing,
        Threads, LoadFunc, flags, fields, At
<1>1. ASSUME NEW s \in Setters, SetReturned(s) PROVE MeetInv'
  BY <1>1 DEF SetReturned
<1>2. ASSUME NEW s \in Setters, StoreObj(s) PROVE MeetInv'
  BY <1>2 DEF StoreObj
<1>3. ASSUME NEW r \in Registrars, SetComplete(r) PROVE MeetInv'
  BY <1>3 DEF SetComplete
<1>4. ASSUME NEW r \in Registrars, StoreFunc(r) PROVE MeetInv'
  BY <1>4 DEF StoreFunc
<1>5. ASSUME NEW r \in Registrars, CheckReturned(r) PROVE MeetInv'
  <2>1. UNCHANGED <<flags, fields>> /\ pc[r] = "check"
    BY <1>5 DEF CheckReturned
  <2>2. CASE hasReturnedObj = 1
    <3>1. pc' = [pc EXCEPT ![r] = "test"] /\ overtook' = overtook
      BY <1>5, <2>2 DEF CheckReturned
    <3> QED
      BY <2>1, <2>2, <3>1
  <2>3. CASE hasReturnedObj = 0
    <3>1. pc' = [pc EXCEPT ![r] = "done"] /\ (overtook \/ r \in pending => overtook')
      <4>1. pc' = [pc EXCEPT ![r] = "done"]
        BY <1>5, <2>3 DEF CheckReturned
      <4>2. overtook' = (overtook \/ (r \in pending /\ hasReturnedObj = 0))
        BY <1>5 DEF CheckReturned
      <4>3. overtook \/ r \in pending => overtook'
        BY ONLY <2>3, <4>2, Zenon
      <4> QED
        BY <4>1, <4>3
    <3> QED
      BY <2>1, <2>3, <3>1
  <2> QED
    BY <2>2, <2>3
<1>6. ASSUME NEW t \in Threads, TestFunc(t) PROVE MeetInv'
  <2>1. UNCHANGED <<hasReturnedObj, hasCompleteFunc, called, completeFunc, pending, overtook>>
    BY <1>6 DEF TestFunc
  <2>2. pc' = [pc EXCEPT ![t] = IF LoadFunc(t) = Nil THEN "done" ELSE "claim"] /\ pc[t] = "test"
    BY <1>6 DEF TestFunc
  <2>3. t \in Registrars => LoadFunc(t) # Nil
    BY <2>2
  <2>4. CASE LoadFunc(t) # Nil
    BY <2>1, <2>2, <2>4
  <2>5. CASE LoadFunc(t) = Nil
    <3>1. t \in Setters /\ completeFunc = Nil
      BY <2>3, <2>5
    <3>2. hasCompleteFunc = 1 =>
            \/ overtook
            \/ \E r \in Registrars : pc[r] \in {"store", "check", "test", "claim"}
      BY <3>1
    <3> QED
      BY <2>1, <2>2, <2>5, <3>1, <3>2
  <2> QED
    BY <2>4, <2>5
<1>7. ASSUME NEW t \in Threads, Claim(t) PROVE MeetInv'
  BY <1>7 DEF Claim
<1>8. ASSUME NEW t \in Threads, Post(t) PROVE MeetInv'
  BY <1>8 DEF Post
<1>9. ASSUME NEW t \in Threads, Drain(t) PROVE MeetInv'
  BY <1>9 DEF Drain
<1>10. CASE RunCallback
  BY <1>10 DEF RunCallback
<1>11. CASE UNCHANGED vars
  BY <1>11 DEF vars
<1> QED
  BY <1>1, <1>2, <1>3, <1>4, <1>5, <1>6, <1>7, <1>8, <1>9, <1>10, <1>11
     DEF Next, Setter, Registrar, Step

LEMMA GivenInit == Init => GivenInv /\ MeetInv
BY AsyncOpAssumption DEF Init, GivenInv, MeetInv, Both, Storing, Threads

\* Whatever stores are delayed, a result and a callback that were both given
\* have met when every call has returned, or OnComplete's check for the result
\* overtook its store of the callback (SetReturnedObj, OnComplete).
THEOREM CallbackNotLost == Spec => []NeverLost
<1>1. Inv /\ GivenInv /\ MeetInv /\ [Next]_vars => (GivenInv /\ MeetInv)'
  BY MeetStep, GivenStep
<1>2. Inv /\ MeetInv => NeverLost
  BY DEF Inv, TypeOK, MeetInv, NeverLost, Quiet, Threads, Both
<1> QED
  BY <1>1, <1>2, GivenInit, Invariance, PTL DEF Spec

-----------------------------------------------------------------------------
(* The promise of the result: the callback that was given runs at most once,*)
(* and only after a value was given.                                        *)

\* The callbacks the abstract result has run.
Runs == [i \in DOMAIN ran |-> ran[i].func]

\* Whatever threads do and whatever stores are delayed, the result does only
\* what OnceCallback allows: it takes the value and the callback in any order,
\* runs that callback and no other, once, when both are there, and misses it
\* only before the value is there (OnceCallback, but for its liveness).
THEOREM OnceImplemented == Spec => Once!Spec
<1>1. Init => Once!Init
  BY DEF Init, Once!Init
<1>2. ASSUME Inv, GivenInv, [Next]_vars PROVE [Once!Next]_(Once!vars)
  <2> USE AsyncOpAssumption DEF Once!Next, Once!vars, flags, fields
  <2>1. ASSUME NEW s \in Setters, SetReturned(s) PROVE Once!Give
    BY <2>1 DEF SetReturned, Once!Give
  <2>2. ASSUME NEW r \in Registrars, SetComplete(r) PROVE Once!Announce
    BY <2>2 DEF SetComplete, Once!Announce
  <2>3. ASSUME NEW r \in Registrars, StoreFunc(r)
        PROVE  Once!Register(r) \/ UNCHANGED Once!vars
    BY <1>2, <2>3 DEF StoreFunc, At, Once!Register, GivenInv, Storing
  <2>4. ASSUME NEW r \in Registrars, CheckReturned(r)
        PROVE  Once!Miss \/ UNCHANGED Once!vars
    <3>1. UNCHANGED <<hasReturnedObj, hasCompleteFunc, completeFunc, ran>>
      BY <2>4 DEF CheckReturned
    <3>2. CASE r \in pending /\ hasReturnedObj = 0
      <4>1. overtook' = TRUE /\ hasCompleteFunc = 1 /\ completeFunc = Nil
        BY <1>2, <2>4, <3>2 DEF CheckReturned, GivenInv, Storing
      <4> QED
        BY <3>1, <3>2, <4>1 DEF Once!Miss
    <3>3. CASE ~(r \in pending /\ hasReturnedObj = 0)
      <4>1. overtook' = overtook
        BY <1>2, <2>4, <3>3 DEF CheckReturned, Inv, TypeOK
      <4> QED
        BY <3>1, <4>1
    <3> QED
      BY <3>2, <3>3
  <2>5. ASSUME NEW t \in Threads, Drain(t)
        PROVE  (\E r \in Registrars : Once!Register(r)) \/ UNCHANGED Once!vars
    <3>1. CASE t \in Registrars
      <4>1. Once!Register(t)
        BY <1>2, <2>5, <3>1 DEF Drain, Once!Register, GivenInv, Storing
      <4> QED
        BY <3>1, <4>1
    <3>2. CASE t \notin Registrars
      BY <2>5, <3>2 DEF Drain
    <3> QED
      BY <3>1, <3>2
  <2>6. CASE RunCallback
    <3>1. ran = <<>> /\ 1 \in DOMAIN taskQueue /\ Head(taskQueue) = taskQueue[1]
      BY <1>2, <2>6, OneTask DEF Inv
    <3>2. Head(taskQueue) = completeFunc /\ completeFunc # Nil /\ hasReturnedObj = 1
      BY <1>2, <3>1 DEF GivenInv
    <3>3. ran' = <<[func |-> completeFunc, obj |-> returnObj]>>
      BY <2>6, <3>1, <3>2 DEF RunCallback
    <3>4. Runs = <<>> /\ Runs' = <<completeFunc>>
      BY <3>1, <3>3 DEF Runs
    <3> QED
      BY <2>6, <3>2, <3>4 DEF RunCallback, Once!Run, Runs
  <2>7. ASSUME NEW t \in Threads,
               StoreObj(t) \/ TestFunc(t) \/ Claim(t) \/ Post(t)
        PROVE  UNCHANGED Once!vars
    BY <2>7 DEF StoreObj, TestFunc, Claim, Post
  <2>8. CASE UNCHANGED vars
    BY <2>8 DEF vars
  <2> QED
    BY <1>2, <2>1, <2>2, <2>3, <2>4, <2>5, <2>6, <2>7, <2>8
       DEF Next, Setter, Registrar, Step, Threads
<1> QED
  BY <1>1, <1>2, GivenInit, GivenStep, Invariance, PTL DEF Spec, Once!Spec

-----------------------------------------------------------------------------
(***************************************************************************)
(* The workers.  Operations whose ids select the same worker run one at a  *)
(* time and in the order they were accepted in: for any number of threads  *)
(* and operations, any ids, and any length of the array and the queues.    *)
(***************************************************************************)

Phases == {"out", "look", "lock", "locked", "send"}

WTypes ==
  /\ asyncWorkerArray \in [0..(ArrayLen - 1) -> Nat]
  /\ taskQ \in Seq(Seq(Setters)) /\ running \in Seq(Setters \cup {Nil})
  /\ Len(running) = Len(taskQ)
  /\ call \in [Registrars -> [at : Phases, op : Setters \cup {Nil}, worker : Nat]]
  /\ index \in [Setters -> 0..ArrayLen]
  /\ accepted \subseteq Setters /\ ended \subseteq accepted
  /\ before \subseteq Setters \X Setters

\* An index has one worker and keeps it.
Made ==
  /\ \A i \in 0..(ArrayLen - 1) : asyncWorkerArray[i] \in 0..Len(taskQ)
  /\ \A i, j \in 0..(ArrayLen - 1) :
       asyncWorkerArray[i] = asyncWorkerArray[j] /\ asyncWorkerArray[i] # 0 => i = j

At_(s, w) == index[s] \in 0..(ArrayLen - 1) /\ w # 0 /\ asyncWorkerArray[index[s]] = w

\* An operation that is being handed over is with one thread and nowhere else,
\* and the worker it is sent to is that of its index.
Calling ==
  \A r \in Registrars : call[r].at # "out" =>
    /\ call[r].op \in Setters \ accepted /\ index[call[r].op] \in 0..(ArrayLen - 1)
    /\ call[r].at = "send" => At_(call[r].op, call[r].worker)
    /\ \A q \in Registrars : q # r /\ call[q].at # "out" => call[q].op # call[r].op

\* An operation in a queue is there once, and behind those it has to wait for.
Queued ==
  \A w \in Workers : \A i \in DOMAIN taskQ[w] :
    /\ taskQ[w][i] \in accepted \ ended /\ At_(taskQ[w][i], w)
    /\ running[w] # taskQ[w][i]
    /\ \A j \in DOMAIN taskQ[w] : taskQ[w][j] = taskQ[w][i] => j = i
    /\ \A j \in DOMAIN taskQ[w] : <<taskQ[w][i], taskQ[w][j]>> \in before => i < j

Ongoing ==
  \A w \in Workers : running[w] # Nil => running[w] \in accepted \ ended /\ At_(running[w], w)

\* No accepted operation gets lost.
Waiting(s) == \E w \in Workers : running[w] = s \/ \E i \in DOMAIN taskQ[w] : taskQ[w][i] = s
Accepted ==
  \A s \in accepted : index[s] \in 0..(ArrayLen - 1) /\ (s \in ended \/ Waiting(s))

Earlier ==
  \A p \in before : p[1] \in accepted /\ p[2] \in Setters /\ index[p[2]] \in 0..(ArrayLen - 1)

InTurn ==
  \A p \in before : index[p[1]] = index[p[2]] /\ (InOp(p[2]) \/ p[2] \in ended)
    => p[1] \in ended

WInv == WTypes /\ Made /\ Calling /\ Queued /\ Ongoing /\ Accepted /\ Earlier /\ InTurn

-----------------------------------------------------------------------------
(* One worker for one index                                                 *)

LEMMA OneHome == ASSUME NEW s, NEW v, NEW w, At_(s, v), At_(s, w) PROVE v = w
BY DEF At_

LEMMA ModRange == ASSUME NEW a \in Int, NEW b \in Nat, b > 0 PROVE a % b \in 0..(b - 1)
OBVIOUS

\* Every id has an index, the smallest int, too.
LEMMA IndexRange == ASSUME NEW id \in OpIds PROVE Index(id) \in 0..(ArrayLen - 1)
<1>1. id \in Int /\ MinInt \in Int /\ ArrayLen \in Nat /\ ArrayLen > 0
  BY AsyncWorkersAssumption
<1>2. CASE id = MinInt
  <2>1. Abs(id) = MinInt
    BY <1>2 DEF Abs
  <2>2. Index(id) = -(-MinInt % ArrayLen)
    BY <2>1, AsyncWorkersAssumption DEF Index
  <2> QED
    BY <1>1, <2>2, AsyncWorkersAssumption
<1>3. CASE id # MinInt
  <2>1. Abs(id) \in Nat
    BY <1>1, <1>3 DEF Abs
  <2>2. Index(id) = Abs(id) % ArrayLen
    BY <2>1 DEF Index
  <2> QED
    BY <1>1, <2>1, <2>2, ModRange
<1> QED
  BY <1>2, <1>3

-----------------------------------------------------------------------------
LEMMA WInitInv == WInit => WInv
<1> SUFFICES ASSUME WInit PROVE WInv
  OBVIOUS
<1>1. WTypes
  <2>1. call \in [Registrars -> [at : Phases, op : Setters \cup {Nil}, worker : Nat]]
    BY DEF WInit, Idle, Phases
  <2> QED
    BY <2>1, AsyncWorkersAssumption DEF WInit, WTypes
<1>2. Workers = {}
  BY DEF WInit, Workers
<1>3. Made /\ Calling
  BY DEF WInit, Made, Calling, Idle
<1>4. Queued /\ Ongoing /\ Accepted /\ Earlier /\ InTurn
  BY <1>2 DEF WInit, Queued, Ongoing, Accepted, Earlier, InTurn
<1> QED
  BY <1>1, <1>3, <1>4 DEF WInv

-----------------------------------------------------------------------------
(* Process                                                                  *)

LEMMA ProcessStep ==
  ASSUME WInv, NEW r \in Registrars, NEW s \in Setters, NEW id \in OpIds, Process(r, s, id)
  PROVE  WInv'
<1>1. /\ call' = [call EXCEPT ![r] = [at |-> "look", op |-> s, worker |-> 0]]
      /\ index' = [index EXCEPT ![s] = Index(id)] /\ before' = before \cup (accepted \X {s})
      /\ index[s] = ArrayLen /\ call[r].at = "out"
      /\ UNCHANGED <<asyncWorkerArray, taskQ, running, locker, accepted, ended>>
  BY DEF Process, Idle
<1>2. Index(id) \in 0..(ArrayLen - 1) /\ ArrayLen \in Nat /\ ArrayLen \notin 0..(ArrayLen - 1)
  BY IndexRange, AsyncWorkersAssumption
<1>3. s \notin accepted /\ ~Waiting(s)
  <2>1. s \notin accepted
    BY <1>1, <1>2 DEF WInv, Accepted
  <2> QED
    BY <2>1, AsyncOpAssumption DEF WInv, Waiting, Queued, Ongoing
<1>4. \A q \in Registrars : call[q].at # "out" => call[q].op # s
  BY <1>1, <1>2 DEF WInv, Calling
<1>5. \A x \in Setters : x # s => index'[x] = index[x]
  BY <1>1 DEF WInv, WTypes
<1>6. WTypes'
  <2>1. [at |-> "look", op |-> s, worker |-> 0] \in [at : Phases, op : Setters \cup {Nil}, worker : Nat]
    BY DEF Phases
  <2> QED
    BY <1>1, <1>2, <2>1 DEF WInv, WTypes
<1>7. Made'
  BY <1>1 DEF WInv, Made
<1>8. Calling'
  BY <1>1, <1>2, <1>3, <1>4, <1>5 DEF WInv, WTypes, Calling, At_
<1>9. Queued' /\ Ongoing'
  <2>1. \A w \in Workers : \A i \in DOMAIN taskQ[w] : taskQ[w][i] # s
    BY <1>3 DEF Waiting
  <2>2. \A w \in Workers : running[w] # s
    BY <1>3 DEF Waiting
  <2>3. \A x \in accepted : \A w : At_(x, w) => At_(x, w)'
    BY <1>1, <1>3, <1>5 DEF WInv, WTypes, At_
  <2>4. \A x, y : y # s /\ <<x, y>> \in before' => <<x, y>> \in before
    BY <1>1
  <2> QED
    BY <1>1, <2>1, <2>2, <2>3, <2>4 DEF WInv, Queued, Ongoing, Workers
<1>10. Accepted' /\ Earlier'
  BY <1>1, <1>2, <1>3, <1>5 DEF WInv, WTypes, Accepted, Earlier, Waiting, Workers
<1>11. InTurn'
  <2>1. ~InOp(s) /\ s \notin ended
    BY <1>3 DEF WInv, WTypes, InOp, Waiting
  <2>2. \A p \in before' : p[2] = s \/ (p \in before /\ p[1] # s /\ p[2] # s)
    BY <1>1, <1>2, <1>3 DEF WInv, Earlier
  <2>3. \A x : InOp(x)' <=> InOp(x)
    BY <1>1 DEF InOp, Workers
  <2> QED
    BY <1>1, <1>5, <2>1, <2>2, <2>3 DEF WInv, WTypes, InTurn, Earlier
<1> QED
  BY <1>6, <1>7, <1>8, <1>9, <1>10, <1>11 DEF WInv

\* A thread goes on inside Process.
LEMMA GoesOn ==
  ASSUME WInv, NEW r \in Registrars, NEW at \in {"lock", "locked", "send"}, NEW w \in Nat,
         call[r].at # "out", Goes(r, at, w),
         at = "send" => At_(call[r].op, w),
         UNCHANGED <<asyncWorkerArray, taskQ, running, index, accepted, ended, before>>
  PROVE  WInv'
<1>1. /\ call' \in [Registrars -> [at : Phases, op : Setters \cup {Nil}, worker : Nat]]
      /\ \A q \in Registrars : call'[q].op = call[q].op /\ (q # r => call'[q] = call[q])
      /\ call'[r].at = at /\ call'[r].worker = w
  <2>1. call[r] \in [at : Phases, op : Setters \cup {Nil}, worker : Nat]
    BY DEF WInv, WTypes
  <2> QED
    BY <2>1 DEF WInv, WTypes, Goes, Phases
<1>2. WTypes' /\ Made'
  BY <1>1 DEF WInv, WTypes, Made
<1>3. Calling'
  BY <1>1 DEF WInv, Calling, At_
<1>4. Queued' /\ Ongoing' /\ Accepted' /\ Earlier' /\ InTurn'
  BY DEF WInv, Queued, Ongoing, Accepted, Earlier, InTurn, Waiting, Workers, At_, InOp
<1> QED
  BY <1>2, <1>3, <1>4 DEF WInv

LEMMA LookStep ==
  ASSUME WInv, NEW r \in Registrars, Look(r)
  PROVE  WInv'
<1>1. call[r].at # "out" /\ index[call[r].op] \in 0..(ArrayLen - 1)
  BY DEF WInv, Calling, Look
<1>2. Worker(r) \in Nat /\ (Worker(r) # 0 => At_(call[r].op, Worker(r)))
  BY <1>1 DEF WInv, WTypes, At_, Worker
<1> QED
  BY <1>1, <1>2, GoesOn DEF Look

LEMMA LockStep ==
  ASSUME WInv, NEW r \in Registrars, Lock(r)
  PROVE  WInv'
BY GoesOn DEF Lock

\* A worker that was not there is made.
LEMMA MakeStep ==
  ASSUME WInv, NEW r \in Registrars, GetWorker(r), ~Found(r)
  PROVE  WInv'
<1> DEFINE n == Len(taskQ) + 1
           i == index[call[r].op]
<1>1. /\ asyncWorkerArray' = [asyncWorkerArray EXCEPT ![i] = n]
      /\ taskQ' = Append(taskQ, <<>>) /\ running' = Append(running, Nil)
      /\ Goes(r, "send", n) /\ call[r].at # "out"
      /\ UNCHANGED <<index, accepted, ended, before>>
  BY DEF GetWorker
<1>2. i \in 0..(ArrayLen - 1) /\ asyncWorkerArray[i] = 0 /\ n \in Nat /\ n # 0
  <2>1. i \in 0..(ArrayLen - 1)
    BY <1>1 DEF WInv, Calling
  <2> QED
    BY <2>1 DEF WInv, WTypes, Found, Worker
<1> HIDE DEF n, i
<1>3. /\ call' \in [Registrars -> [at : Phases, op : Setters \cup {Nil}, worker : Nat]]
      /\ \A q \in Registrars : call'[q].op = call[q].op /\ (q # r => call'[q] = call[q])
      /\ call'[r].at = "send" /\ call'[r].worker = n
  <2>1. call[r] \in [at : Phases, op : Setters \cup {Nil}, worker : Nat]
    BY DEF WInv, WTypes
  <2> QED
    BY <1>1, <1>2, <2>1 DEF WInv, WTypes, Goes, Phases
<1>4. WTypes'
  <2>1. taskQ' \in Seq(Seq(Setters)) /\ running' \in Seq(Setters \cup {Nil}) /\ Len(running') = Len(taskQ')
    BY <1>1 DEF WInv, WTypes
  <2> QED
    BY <1>1, <1>2, <1>3, <2>1 DEF WInv, WTypes
<1>5. /\ Workers = 1..Len(taskQ) /\ Workers' = Workers \cup {n} /\ n \notin Workers
      /\ taskQ'[n] = <<>> /\ running'[n] = Nil
      /\ \A w \in Workers : taskQ'[w] = taskQ[w] /\ running'[w] = running[w]
  BY <1>1 DEF WInv, WTypes, Workers, n
<1>6. Made'
  <2>1. Len(taskQ') = n /\ \A j \in 0..(ArrayLen - 1) : asyncWorkerArray[j] # n
    BY <1>1 DEF WInv, WTypes, Made, n
  <2>2. \A j \in 0..(ArrayLen - 1) : j # i => asyncWorkerArray'[j] = asyncWorkerArray[j]
    BY <1>1 DEF WInv, WTypes
  <2>3. asyncWorkerArray'[i] = n
    BY <1>1, <1>2 DEF WInv, WTypes
  <2> QED
    BY <1>1, <1>2, <2>1, <2>2, <2>3 DEF WInv, WTypes, Made, n
<1>7. \A s, w : At_(s, w) \/ (s = call[r].op /\ w = n) => At_(s, w)'
  BY <1>1, <1>2 DEF WInv, WTypes, At_, i
<1>8. Calling'
  BY <1>1, <1>3, <1>7 DEF WInv, Calling
<1>9. Queued'
  <2>1. DOMAIN taskQ'[n] = {}
    BY <1>5
  <2>2. ASSUME NEW w \in Workers', NEW k \in DOMAIN taskQ'[w]
        PROVE  /\ w \in Workers /\ taskQ'[w] = taskQ[w] /\ running'[w] = running[w]
               /\ k \in DOMAIN taskQ[w]
    BY <1>5, <2>1, <2>2
  <2> SUFFICES ASSUME NEW w \in Workers', NEW k \in DOMAIN taskQ'[w]
               PROVE  /\ taskQ'[w][k] \in accepted' \ ended' /\ At_(taskQ[w][k], w)'
                      /\ running'[w] # taskQ'[w][k]
                      /\ \A j \in DOMAIN taskQ'[w] : taskQ'[w][j] = taskQ'[w][k] => j = k
                      /\ \A j \in DOMAIN taskQ'[w] :
                           <<taskQ'[w][k], taskQ'[w][j]>> \in before' => k < j
    BY DEF Queued
  <2>3. /\ w \in Workers /\ k \in DOMAIN taskQ[w]
        /\ taskQ'[w] = taskQ[w] /\ running'[w] = running[w]
    BY <2>2
  <2>4. At_(taskQ[w][k], w)'
    <3> PICK x : x = taskQ[w][k]
      OBVIOUS
    <3>1. At_(x, w)'
      BY <1>7, <2>3 DEF WInv, Queued
    <3> QED
      BY <2>3, <3>1 DEF At_
  <2> QED
    BY <1>1, <2>3, <2>4 DEF WInv, Queued
<1>10. Ongoing'
  BY <1>1, <1>5, <1>7 DEF WInv, Ongoing
<1>11. Accepted' /\ Earlier'
  <2>1. \A x : x # Nil /\ Waiting(x) => Waiting(x)'
    BY <1>5 DEF Waiting
  <2> QED
    BY <1>1, <2>1, AsyncOpAssumption DEF WInv, WTypes, Accepted, Earlier
<1>12. InTurn'
  <2>1. \A x \in Setters : InOp(x)' => InOp(x)
    BY <1>5, AsyncOpAssumption DEF InOp
  <2> QED
    BY <1>1, <2>1 DEF WInv, InTurn, Earlier
<1> QED
  BY <1>4, <1>6, <1>8, <1>9, <1>10, <1>11, <1>12 DEF WInv

LEMMA GetWorkerStep ==
  ASSUME WInv, NEW r \in Registrars, GetWorker(r)
  PROVE  WInv'
<1>1. CASE Found(r)
  <2>1. call[r].at # "out" /\ index[call[r].op] \in 0..(ArrayLen - 1)
    BY DEF WInv, Calling, GetWorker
  <2>2. Worker(r) \in Nat /\ At_(call[r].op, Worker(r))
    BY <1>1, <2>1 DEF WInv, WTypes, At_, Worker, Found
  <2> QED
    BY <1>1, <2>1, <2>2, GoesOn DEF GetWorker
<1> QED
  BY <1>1, MakeStep

-----------------------------------------------------------------------------
(* Queues                                                                   *)

LEMMA SendStep ==
  ASSUME WInv, NEW r \in Registrars, Send(r)
  PROVE  WInv'
<1>0. PICK s, w : s = call[r].op /\ w = call[r].worker
  OBVIOUS
<1>1. /\ taskQ' = [taskQ EXCEPT ![w] = Append(@, s)] /\ accepted' = accepted \cup {s}
      /\ call' = [call EXCEPT ![r] = Idle] /\ call[r].at = "send"
      /\ UNCHANGED <<asyncWorkerArray, running, index, ended, before>>
  BY <1>0 DEF Send
<1>2. s \in Setters \ accepted /\ At_(s, w)
  BY <1>0, <1>1 DEF WInv, Calling
<1>3. \A q \in Registrars : q # r /\ call[q].at # "out" => call[q].op # s
  BY <1>0, <1>1 DEF WInv, Calling
<1>4. w \in Workers /\ Workers = 1..Len(taskQ)
  BY <1>2 DEF WInv, WTypes, Made, At_, Workers
<1>5. /\ taskQ' \in Seq(Seq(Setters)) /\ Len(taskQ') = Len(taskQ)
      /\ \A v \in Workers : v # w => taskQ'[v] = taskQ[v]
      /\ taskQ'[w] = Append(taskQ[w], s)
  <2>1. taskQ[w] \in Seq(Setters) /\ Append(taskQ[w], s) \in Seq(Setters)
    BY <1>2, <1>4 DEF WInv, WTypes
  <2> QED
    BY <1>1, <1>4, <2>1 DEF WInv, WTypes
<1>6. /\ DOMAIN taskQ'[w] = DOMAIN taskQ[w] \cup {Len(taskQ[w]) + 1}
      /\ \A i \in DOMAIN taskQ[w] : i \in Nat /\ i < Len(taskQ[w]) + 1 /\ taskQ'[w][i] = taskQ[w][i]
      /\ taskQ'[w][Len(taskQ[w]) + 1] = s
      /\ Len(taskQ[w]) + 1 \in Nat
  <2>1. taskQ[w] \in Seq(Setters) /\ s \in Setters
    BY <1>2, <1>4 DEF WInv, WTypes
  <2> QED
    BY <1>5, <2>1
<1>7. Workers' = Workers
  BY <1>4, <1>5 DEF Workers
<1>8. WTypes'
  <2>1. Idle \in [at : Phases, op : Setters \cup {Nil}, worker : Nat]
    BY DEF Idle, Phases
  <2> QED
    BY <1>1, <1>2, <1>5, <2>1 DEF WInv, WTypes
<1>9. Made'
  BY <1>1, <1>5 DEF WInv, Made
<1>10. Calling'
  <2>1. call'[r].at = "out" /\ \A q \in Registrars : q # r => call'[q] = call[q]
    BY <1>1 DEF WInv, WTypes, Idle
  <2> QED
    BY <1>1, <1>3, <2>1 DEF WInv, Calling, At_
<1>11. \A v \in Workers : running[v] # s /\ \A i \in DOMAIN taskQ[v] : taskQ[v][i] # s
  BY <1>2, AsyncOpAssumption DEF WInv, Queued, Ongoing
<1>12. \A x : <<s, x>> \notin before
  BY <1>2 DEF WInv, Earlier
<1>13. Queued'
  <2> SUFFICES ASSUME NEW v \in Workers, NEW i \in DOMAIN taskQ'[v]
               PROVE  /\ taskQ'[v][i] \in accepted' \ ended' /\ At_(taskQ'[v][i], v)
                      /\ running'[v] # taskQ'[v][i]
                      /\ \A j \in DOMAIN taskQ'[v] : taskQ'[v][j] = taskQ'[v][i] => j = i
                      /\ \A j \in DOMAIN taskQ'[v] : <<taskQ'[v][i], taskQ'[v][j]>> \in before' => i < j
    BY <1>1, <1>7 DEF Queued, At_
  <2>1. CASE v # w
    BY <1>1, <1>5, <2>1 DEF WInv, Queued, At_
  <2>2. CASE v = w /\ i \in DOMAIN taskQ[w]
    BY <1>1, <1>4, <1>6, <1>11, <2>2 DEF WInv, Queued, At_
  <2>3. CASE v = w /\ i = Len(taskQ[w]) + 1
    <3>1. s \notin ended
      BY <1>2 DEF WInv, WTypes
    <3> QED
      BY <1>1, <1>2, <1>4, <1>6, <1>11, <1>12, <2>3, <3>1 DEF At_
  <2> QED
    BY <1>6, <2>1, <2>2, <2>3
<1>14. Ongoing'
  BY <1>1, <1>7 DEF WInv, Ongoing, At_
<1>15. Accepted'
  <2>1. Waiting(s)'
    BY <1>4, <1>6, <1>7 DEF Waiting
  <2>2. \A x : Waiting(x) => Waiting(x)'
    BY <1>1, <1>5, <1>6, <1>7 DEF Waiting
  <2> QED
    BY <1>1, <1>2, <2>1, <2>2 DEF WInv, Accepted, At_
<1>16. Earlier' /\ InTurn'
  BY <1>1, <1>7 DEF WInv, Earlier, InTurn, InOp
<1> QED
  BY <1>8, <1>9, <1>10, <1>13, <1>14, <1>15, <1>16 DEF WInv

LEMMA ExecStep ==
  ASSUME WInv, NEW w \in Workers, Exec(w)
  PROVE  WInv'
<1> DEFINE h == Head(taskQ[w])
<1>1. /\ running' = [running EXCEPT ![w] = h] /\ taskQ' = [taskQ EXCEPT ![w] = Tail(@)]
      /\ running[w] = Nil /\ taskQ[w] # <<>>
      /\ UNCHANGED <<asyncWorkerArray, call, index, accepted, ended, before>>
  BY DEF Exec
<1>2. /\ Workers = 1..Len(taskQ) /\ DOMAIN running = 1..Len(taskQ)
      /\ taskQ[w] \in Seq(Setters)
  BY DEF WInv, WTypes, Workers
<1>3. /\ 1 \in DOMAIN taskQ[w] /\ taskQ[w][1] = h /\ h \in Setters
      /\ Tail(taskQ[w]) \in Seq(Setters)
      /\ \A i \in DOMAIN Tail(taskQ[w]) :
           /\ i \in Nat \ {0} /\ i + 1 \in DOMAIN taskQ[w]
           /\ Tail(taskQ[w])[i] = taskQ[w][i + 1]
      /\ \A i \in DOMAIN taskQ[w] :
           i \in Nat /\ (i # 1 => i - 1 \in DOMAIN Tail(taskQ[w]))
  BY <1>1, <1>2
<1>4. h \in accepted \ ended /\ At_(h, w)
  BY <1>3 DEF WInv, Queued
<1> HIDE DEF h
<1>5. /\ taskQ' \in Seq(Seq(Setters)) /\ Len(taskQ') = Len(taskQ)
      /\ \A v \in Workers : v # w => taskQ'[v] = taskQ[v] /\ running'[v] = running[v]
      /\ taskQ'[w] = Tail(taskQ[w]) /\ running'[w] = h
      /\ running' \in Seq(Setters \cup {Nil}) /\ Len(running') = Len(taskQ)
  BY <1>1, <1>2, <1>3 DEF WInv, WTypes
<1>6. Workers' = Workers
  BY <1>2, <1>5 DEF Workers
<1>7. WTypes' /\ Made' /\ Calling'
  BY <1>1, <1>5 DEF WInv, WTypes, Made, Calling, At_
<1>8. Queued'
  <2> SUFFICES ASSUME NEW v \in Workers, NEW i \in DOMAIN taskQ'[v]
               PROVE  /\ taskQ'[v][i] \in accepted' \ ended' /\ At_(taskQ'[v][i], v)
                      /\ running'[v] # taskQ'[v][i]
                      /\ \A j \in DOMAIN taskQ'[v] : taskQ'[v][j] = taskQ'[v][i] => j = i
                      /\ \A j \in DOMAIN taskQ'[v] : <<taskQ'[v][i], taskQ'[v][j]>> \in before' => i < j
    BY <1>1, <1>6 DEF Queued, At_
  <2>1. CASE v # w
    BY <1>1, <1>5, <2>1 DEF WInv, Queued, At_
  <2>2. CASE v = w
    <3>1. /\ i \in Nat /\ i + 1 \in DOMAIN taskQ[w] /\ taskQ'[w][i] = taskQ[w][i + 1]
          /\ \A j \in DOMAIN taskQ'[w] :
               j \in Nat /\ j + 1 \in DOMAIN taskQ[w] /\ taskQ'[w][j] = taskQ[w][j + 1]
      BY <1>3, <1>5, <2>2
    <3>2. taskQ[w][i + 1] \in accepted' \ ended' /\ At_(taskQ[w][i + 1], w)
      BY <1>1, <3>1 DEF WInv, Queued, At_
    <3>3. h # taskQ[w][i + 1]
      <4>1. taskQ[w][1] = taskQ[w][i + 1] => 1 = i + 1
        BY <1>3, <3>1 DEF WInv, Queued
      <4>2. i # 0
        BY <1>3, <1>5, <2>2
      <4> QED
        BY <1>3, <3>1, <4>1, <4>2
    <3>4. ASSUME NEW j \in DOMAIN taskQ'[w], taskQ[w][j + 1] = taskQ[w][i + 1] PROVE j = i
      BY <3>1, <3>4 DEF WInv, Queued
    <3>5. ASSUME NEW j \in DOMAIN taskQ'[w], <<taskQ[w][i + 1], taskQ[w][j + 1]>> \in before
          PROVE  i < j
      BY <3>1, <3>5 DEF WInv, Queued
    <3> QED
      BY <1>1, <1>5, <2>2, <3>1, <3>2, <3>3, <3>4, <3>5
  <2> QED
    BY <2>1, <2>2
<1>9. Ongoing'
  BY <1>1, <1>4, <1>5, <1>6 DEF WInv, Ongoing, At_
<1>10. Accepted'
  <2>1. ASSUME NEW x, Waiting(x), x # Nil PROVE Waiting(x)'
    <3>1. PICK v \in Workers : running[v] = x \/ \E i \in DOMAIN taskQ[v] : taskQ[v][i] = x
      BY <2>1 DEF Waiting
    <3>2. CASE v # w
      BY <1>5, <1>6, <3>1, <3>2 DEF Waiting
    <3>3. CASE v = w
      <4>1. PICK i \in DOMAIN taskQ[w] : taskQ[w][i] = x
        BY <1>1, <2>1, <3>1, <3>3
      <4>2. CASE i = 1
        BY <1>3, <1>5, <1>6, <4>1, <4>2 DEF Waiting
      <4>3. CASE i # 1
        <5>1. i - 1 \in DOMAIN taskQ'[w] /\ taskQ'[w][i - 1] = x
          <6>1. i - 1 \in DOMAIN Tail(taskQ[w]) /\ (i - 1) + 1 = i
            BY <1>3, <4>3
          <6> QED
            BY <1>3, <1>5, <4>1, <6>1
        <5> QED
          BY <1>6, <5>1 DEF Waiting
      <4> QED
        BY <4>2, <4>3
    <3> QED
      BY <3>2, <3>3
  <2> QED
    BY <1>1, <2>1, AsyncOpAssumption DEF WInv, WTypes, Accepted
<1>11. Earlier'
  BY <1>1 DEF WInv, Earlier
<1>12. InTurn'
  <2> SUFFICES ASSUME NEW p \in before, index[p[1]] = index[p[2]],
                      InOp(p[2])' \/ p[2] \in ended
               PROVE  p[1] \in ended
    BY <1>1 DEF InTurn
  <2>1. CASE InOp(p[2]) \/ p[2] \in ended
    BY <2>1 DEF WInv, InTurn
  <2>2. CASE p[2] = h
    <3> SUFFICES ASSUME p[1] \notin ended PROVE FALSE
      OBVIOUS
    <3>1. p = <<p[1], p[2]>> /\ p[1] \in accepted /\ p[1] \in Setters
      BY DEF WInv, WTypes, Earlier
    <3>2. PICK v \in Workers : running[v] = p[1] \/ \E i \in DOMAIN taskQ[v] : taskQ[v][i] = p[1]
      BY <3>1 DEF WInv, Accepted, Waiting
    <3>3. At_(p[1], v)
      BY <3>1, <3>2, AsyncOpAssumption DEF WInv, Queued, Ongoing
    <3>4. v = w
      BY <1>4, <2>2, <3>3 DEF At_
    <3>5. PICK i \in DOMAIN taskQ[w] : taskQ[w][i] = p[1]
      BY <1>1, <3>1, <3>2, <3>4, AsyncOpAssumption
    <3>6. <<taskQ[w][i], taskQ[w][1]>> \in before
      BY <1>3, <2>2, <3>1, <3>5
    <3>7. i < 1
      BY <1>3, <3>6 DEF WInv, Queued
    <3> QED
      BY <1>2, <3>7
  <2>3. InOp(p[2])' => InOp(p[2]) \/ p[2] = h
    BY <1>5, <1>6 DEF InOp
  <2> QED
    BY <2>1, <2>2, <2>3
<1> QED
  BY <1>7, <1>8, <1>9, <1>10, <1>11, <1>12 DEF WInv

LEMMA EndStep ==
  ASSUME WInv, NEW w \in Workers, OpEnds(w)
  PROVE  WInv'
<1> DEFINE x == running[w]
<1>1. /\ running' = [running EXCEPT ![w] = Nil] /\ ended' = ended \cup {x} /\ x # Nil
      /\ UNCHANGED <<asyncWorkerArray, taskQ, call, index, accepted, before>>
  BY DEF OpEnds
<1>2. /\ x \in accepted \ ended /\ At_(x, w) /\ x \in Setters
  BY <1>1 DEF WInv, WTypes, Ongoing
<1>3. InOp(x)
  BY DEF InOp
<1>4. \A v \in Workers : running[v] = x => v = w
  BY <1>1, <1>2, OneHome DEF WInv, Ongoing
<1>5. \A v \in Workers : \A i \in DOMAIN taskQ[v] : taskQ[v][i] # x
  <2> SUFFICES ASSUME NEW v \in Workers, NEW i \in DOMAIN taskQ[v], taskQ[v][i] = x PROVE FALSE
    OBVIOUS
  <2>1. At_(x, v) /\ running[v] # x
    BY DEF WInv, Queued
  <2> QED
    BY <1>2, <2>1, OneHome
<1> HIDE DEF x
<1>6. /\ \A v \in Workers : v # w => running'[v] = running[v]
      /\ running'[w] = Nil /\ Workers' = Workers
      /\ running' \in Seq(Setters \cup {Nil}) /\ Len(running') = Len(taskQ)
  BY <1>1 DEF WInv, WTypes, Workers
<1>7. WTypes' /\ Made' /\ Calling'
  BY <1>1, <1>2, <1>6 DEF WInv, WTypes, Made, Calling, At_
<1>8. Queued'
  <2>1. \A v \in Workers : \A i \in DOMAIN taskQ[v] : running'[v] # taskQ[v][i]
    BY <1>2, <1>6, AsyncOpAssumption DEF WInv, WTypes, Queued
  <2> QED
    BY <1>1, <1>5, <1>6, <2>1 DEF WInv, Queued, At_
<1>9. Ongoing'
  BY <1>1, <1>4, <1>6 DEF WInv, Ongoing, At_
<1>10. Accepted'
  <2>1. \A y : y # x /\ Waiting(y) /\ y # Nil => Waiting(y)'
    BY <1>1, <1>6 DEF Waiting, x
  <2> QED
    BY <1>1, <2>1, AsyncOpAssumption DEF WInv, WTypes, Accepted
<1>11. Earlier'
  BY <1>1 DEF WInv, Earlier
<1>12. InTurn'
  <2>1. \A y \in Setters : InOp(y)' => InOp(y)
    BY <1>6, AsyncOpAssumption DEF InOp
  <2> QED
    BY <1>1, <1>3, <2>1 DEF WInv, InTurn, Earlier
<1> QED
  BY <1>7, <1>8, <1>9, <1>10, <1>11, <1>12 DEF WInv

-----------------------------------------------------------------------------
\* The result object's own steps leave the workers alone.
LEMMA ResultStep ==
  ASSUME WInv, UNCHANGED wvars
  PROVE  WInv'
<1>1. WTypes' /\ Made' /\ Calling'
  BY DEF WInv, wvars, WTypes, Made, Calling, At_
<1>2. Queued' /\ Ongoing'
  BY DEF WInv, wvars, Queued, Ongoing, At_, Workers
<1>3. Accepted' /\ Earlier' /\ InTurn'
  BY DEF WInv, wvars, Accepted, Waiting, Earlier, InTurn, InOp, Workers
<1> QED
  BY <1>1, <1>2, <1>3 DEF WInv

LEMMA WNextInv == WInv /\ [WNext]_allvars => WInv'
<1> SUFFICES ASSUME WInv, [WNext]_allvars PROVE WInv'
  OBVIOUS
<1>1. ASSUME NEW r \in Registrars, InProcess(r) PROVE WInv'
  BY <1>1, LookStep, LockStep, GetWorkerStep, SendStep DEF InProcess
<1>2. ASSUME NEW r \in Registrars, NEW s \in Setters, NEW id \in OpIds, Process(r, s, id)
      PROVE  WInv'
  BY <1>2, ProcessStep
<1>3. ASSUME NEW w \in Workers, Exec(w) \/ OpEnds(w) PROVE WInv'
  BY <1>3, ExecStep, EndStep
<1>4. CASE UNCHANGED wvars
  BY <1>4, ResultStep
<1> QED
  BY <1>1, <1>2, <1>3, <1>4 DEF WNext, allvars

\* The inductive invariant: every index has one worker, the one it got first;
\* an operation waits in that worker's queue behind those it has to follow.
THEOREM WInvariance == WSpec => []WInv
BY WInitInv, WNextInv, PTL DEF WSpec

\* Operations whose ids select the same worker run one at a time and in the
\* order they were accepted in, for any number of threads and any ids.
THEOREM OneByOne == WSpec => []OpsOneByOne
<1>1. WInv => OpsOneByOne
  <2> SUFFICES ASSUME WInv PROVE OpsOneByOne
    OBVIOUS
  <2>1. ASSUME NEW v \in Workers, NEW w \in Workers, running[v] # Nil, running[w] # Nil,
               index[running[v]] = index[running[w]]
        PROVE  v = w
    BY <2>1 DEF WInv, Ongoing, At_
  <2> QED
    BY <2>1 DEF WInv, InTurn, OpsOneByOne
<1> QED
  BY <1>1, WInvariance, PTL
=============================================================================

----------------------------- MODULE ClientProof -----------------------------
(***************************************************************************)
(* What a client runs and what it receives.                                *)
(*                                                                         *)
(* A client that is stopped once, at a safe moment, does not crash: for    *)
(* any number of dials and calls of Stop.                                  *)
(*                                                                         *)
(* The decoder that Start puts in a client's chain gives the messages as   *)
(* they were packed, however their bytes arrive: for every length field,   *)
(* size of a word and number of frames.  The recursive definitions of      *)
(* Codec and FrameDecoder are reasoned about with least elements of sets   *)
(* of numbers.                                                             *)
(***************************************************************************)
EXTENDS Client, Codec, WellFoundedInduction, TLAPS

\* Goroutines and connections come in the order of the calls.
Order ==
  /\ starts <= dials
  /\ \A k \in Dials : k > dials => dial[k] = "none"
  /\ \A k \in Dials : dial[k] \in {"connected", "select", "wait"} => conn # 0

\* Nothing is closed before the Stop that closes it.
Closing ==
  /\ stops = 0 => stop = "out" /\ closedExit = {} /\ ~errClosed
  /\ safe /\ stop # "out" => ~errClosed
  /\ safe /\ stop \in {"conn", "exit", "close"} => closedExit = {}
  /\ stop = "close" => exitChan # 0

\* What made the moment safe lasts: no dial is under way, no error unread, and
\* c.conn has a context to cancel.
Settled ==
  safe => /\ stops <= 1
          /\ stops = 1 =>
               /\ \A k \in Dials : dial[k] \in {"none", "select", "wait", "done"}
               /\ conn # 0 /\ state[conn] \in {"started", "over"}

IInv == TypeOK /\ Order /\ Closing /\ Settled /\ SafeStopSurvives

-----------------------------------------------------------------------------
LEMMA InitInv == Init => IInv
<1> SUFFICES ASSUME Init PROVE IInv
  OBVIOUS
<1>1. TypeOK
  <2>1. DialTypes
    BY ClientAssumption DEF Init, DialTypes, Dials
  <2>2. exitChan \in 0..MaxDials /\ waitsOn \in [Dials -> 0..MaxDials]
    BY ClientAssumption DEF Init, Dials
  <2>3. closedExit \subseteq Dials /\ errClosed \in BOOLEAN
    BY DEF Init
  <2>4. stops \in 0..MaxStops /\ stop \in {"out", "conn", "exit", "close", "closeErr"}
    BY ClientAssumption DEF Init
  <2>5. safe \in BOOLEAN /\ crashed \in BOOLEAN
    BY DEF Init
  <2> QED
    BY <2>1, <2>2, <2>3, <2>4, <2>5 DEF TypeOK, ChanTypes, StopTypes
<1>2. Order /\ Closing /\ Settled /\ SafeStopSurvives
  BY ClientAssumption DEF Init, Order, Closing, Settled, SafeStopSurvives, Dials
<1> QED
  BY <1>1, <1>2 DEF IInv

\* A safe moment has a connection.
LEMMA SafeHasConn ==
  ASSUME TypeOK, Order, SafeMoment
  PROVE  /\ conn # 0 /\ conn \in Dials /\ stops = 0
         /\ \A k \in Dials : dial[k] \in {"none", "select", "wait", "done"}
         /\ state[conn] \in {"started", "over"}
<1>1. dials \in Dials
  BY ClientAssumption DEF SafeMoment, TypeOK, DialTypes, Dials
<1>2. dial[dials] \in {"select", "wait"}
  BY <1>1, ClientAssumption DEF SafeMoment, Dials
<1>3. conn # 0 /\ conn \in Dials
  BY <1>1, <1>2, ClientAssumption DEF Order, TypeOK, DialTypes, Dials
<1>4. \A k \in Dials : k \in 1..dials \/ k > dials
  BY ClientAssumption DEF TypeOK, DialTypes, Dials
<1> QED
  BY <1>3, <1>4 DEF SafeMoment, Order

\* Every step of a client keeps the types.
LEMMA TypeStep ==
  TypeOK /\ starts <= dials /\ (stop = "close" => exitChan # 0) /\ [Next]_vars
  => TypeOK'
<1> SUFFICES ASSUME TypeOK, starts <= dials, stop = "close" => exitChan # 0,
                    [Next]_vars
             PROVE  TypeOK'
  OBVIOUS
<1> USE ClientAssumption DEF TypeOK, Dials, chans
<1>1. CASE Start \/ Again
  <2>1. DialTypes'
    BY <1>1 DEF Start, Again, Restart, DialTypes
  <2>2. ChanTypes'
    <3>1. dials + 1 \in 0..MaxDials
      BY <1>1 DEF Start, Again, Restart, DialTypes
    <3>2. exitChan' \in 0..MaxDials /\ waitsOn' \in [Dials -> 0..MaxDials]
      BY <1>1, <3>1 DEF Start, Again, Restart, NewExit, ChanTypes
    <3>3. closedExit' \subseteq Dials /\ errClosed' \in BOOLEAN
      BY <1>1 DEF Start, Again, Restart, ChanTypes
    <3> QED
      BY <3>2, <3>3 DEF ChanTypes
  <2>3. safe' \in BOOLEAN
    BY <1>1, Zenon DEF Start, Again, Restart
  <2>4. StopTypes'
    BY <1>1, <2>3 DEF Start, Again, Restart, StopTypes
  <2> QED
    BY <2>1, <2>2, <2>4
<1>2. ASSUME NEW k \in Dials, DialFails(k) \/ ErrorRead(k) \/ ConnEnds(k) \/ Connects(k)
      PROVE  TypeOK'
  <2>1. DialTypes'
    BY <1>2 DEF DialFails, ErrorRead, ConnEnds, Connects, DialTypes
  <2>2. ChanTypes' /\ StopTypes'
    BY <1>2 DEF DialFails, ErrorRead, ConnEnds, Connects, ChanTypes, StopTypes
  <2> QED
    BY <2>1, <2>2
<1>3. CASE Crash
  BY <1>3 DEF Crash, DialTypes, ChanTypes, StopTypes
<1>4. ASSUME NEW k \in Dials, Spawns(k) \/ ConnStarts(k) PROVE TypeOK'
  BY <1>4 DEF Spawns, ConnStarts, DialTypes, ChanTypes, StopTypes
<1>5. ASSUME NEW k \in Dials, Selects(k) \/ ExitClosed(k) \/ SendExit(k) PROVE TypeOK'
  <2>1. DialTypes'
    BY <1>5 DEF Selects, ExitClosed, SendExit, DialTypes
  <2>2. ChanTypes' /\ StopTypes'
    BY <1>5 DEF Selects, ExitClosed, SendExit, ChanTypes, StopTypes
  <2> QED
    BY <2>1, <2>2
<1>6. CASE Stop \/ StopWithoutConn \/ StopConn
  <2>1. DialTypes' /\ ChanTypes'
    BY <1>6 DEF Stop, StopWithoutConn, StopConn, DialTypes, ChanTypes
  <2>2. safe' \in BOOLEAN /\ crashed' \in BOOLEAN
    BY <1>6, Zenon DEF Stop, StopWithoutConn, StopConn, StopTypes
  <2>3. stop' \in {"out", "conn", "exit", "close", "closeErr"} /\ stops' \in 0..MaxStops
    BY <1>6 DEF Stop, StopWithoutConn, StopConn, StopTypes
  <2> QED
    BY <2>1, <2>2, <2>3 DEF StopTypes
<1>7. CASE CloseExit
  <2>1. exitChan \in Dials
    BY <1>7 DEF CloseExit, ChanTypes
  <2>2. DialTypes' /\ StopTypes'
    BY <1>7 DEF CloseExit, DialTypes, StopTypes
  <2>3. ChanTypes'
    BY <1>7, <2>1 DEF CloseExit, ChanTypes
  <2> QED
    BY <2>2, <2>3
<1>8. CASE CloseErr
  BY <1>8 DEF CloseErr, DialTypes, ChanTypes, StopTypes
<1>9. CASE UNCHANGED vars
  BY <1>9 DEF vars, DialTypes, ChanTypes, StopTypes
<1> QED
  BY <1>1, <1>2, <1>3, <1>4, <1>5, <1>6, <1>7, <1>8, <1>9
     DEF Next, Dialer, Stopping, ErrorPanics, StopConnPanics, SendPanics,
         CloseErrPanics

\* What no Stop does keeps the rest of the invariant.
LEMMA OutsideStop ==
  ASSUME IInv, TypeOK', NEW k \in Dials,
         \/ Start \/ Again \/ DialFails(k) \/ ErrorRead(k) \/ ErrorPanics(k)
         \/ Connects(k) \/ Spawns(k) \/ ConnStarts(k) \/ ConnEnds(k)
         \/ Selects(k) \/ ExitClosed(k)
  PROVE  Order' /\ Closing' /\ Settled' /\ SafeStopSurvives'
<1> USE ClientAssumption DEF IInv, TypeOK, DialTypes, ChanTypes, StopTypes, Dials, chans
<1>1. CASE Start \/ Again
  <2>1. Order'
    <3>1. starts' <= dials'
      BY <1>1 DEF Start, Again, Restart, Order
    <3>2. /\ dials' = dials + 1 /\ conn' = conn
          /\ dial' = [dial EXCEPT ![dials + 1] = "dial"]
      BY <1>1 DEF Start, Again, Restart
    <3>3. \A j \in Dials : j > dials' => dial'[j] = "none"
      BY <3>2 DEF Order
    <3>4. \A j \in Dials : dial'[j] \in {"connected", "select", "wait"} => conn' # 0
      BY <3>2 DEF Order
    <3> QED
      BY <3>1, <3>3, <3>4 DEF Order
  <2>2. /\ stop = "out" /\ (safe' => safe /\ stops = 0) /\ dials' = dials + 1
        /\ UNCHANGED <<conn, state, closedExit, errClosed, stop, stops, crashed>>
    BY <1>1 DEF Start, Again, Restart
  <2> QED
    BY <2>1, <2>2 DEF Closing, Settled, SafeStopSurvives
<1>2. CASE DialFails(k)
  BY <1>2 DEF DialFails, Order, Closing, Settled, SafeStopSurvives
<1>3. CASE ErrorRead(k)
  BY <1>3 DEF ErrorRead, Order, Closing, Settled, SafeStopSurvives
<1>4. CASE ErrorPanics(k)
  <2>1. ~safe
    <3>1. dial[k] = "error" /\ errClosed
      BY <1>4 DEF ErrorPanics
    <3>2. stops \in Nat /\ stops # 0
      BY <3>1 DEF Closing
    <3>3. safe => stops = 1 /\ stops <= 1
      BY <3>2 DEF Settled
    <3>4. safe => dial[k] \in {"none", "select", "wait", "done"}
      BY <3>3 DEF Settled
    <3> QED
      BY <3>1, <3>4
  <2> QED
    BY <1>4, <2>1 DEF ErrorPanics, Crash, Order, Closing, Settled, SafeStopSurvives
<1>5. CASE Connects(k)
  BY <1>5 DEF Connects, Order, Closing, Settled, SafeStopSurvives
<1>6. CASE Spawns(k)
  <2>1. conn \in Dials
    BY <1>6 DEF Spawns, Order
  <2> QED
    BY <1>6, <2>1 DEF Spawns, Order, Closing, Settled, SafeStopSurvives
<1>7. CASE ConnStarts(k)
  BY <1>7 DEF ConnStarts, Order, Closing, Settled, SafeStopSurvives
<1>8. CASE ConnEnds(k)
  BY <1>8 DEF ConnEnds, Order, Closing, Settled, SafeStopSurvives
<1>9. CASE Selects(k)
  BY <1>9 DEF Selects, Order, Closing, Settled, SafeStopSurvives
<1>10. CASE ExitClosed(k)
  BY <1>10 DEF ExitClosed, Order, Closing, Settled, SafeStopSurvives
<1> QED
  BY <1>1, <1>2, <1>3, <1>4, <1>5, <1>6, <1>7, <1>8, <1>9, <1>10

\* So does Stop, which is safe once at most.
LEMMA InsideStop ==
  ASSUME IInv, TypeOK', Stop \/ StopWithoutConn \/ Stopping
  PROVE  Order' /\ Closing' /\ Settled' /\ SafeStopSurvives'
<1> USE ClientAssumption DEF IInv, DialTypes, ChanTypes, StopTypes, Dials, chans
<1>1. CASE Stop
  <2>1. CASE SafeMoment
    BY <1>1, <2>1, SafeHasConn
       DEF Stop, TypeOK, Order, Closing, Settled, SafeStopSurvives
  <2>2. CASE ~SafeMoment
    BY <1>1, <2>2 DEF Stop, TypeOK, Order, Closing, Settled, SafeStopSurvives
  <2> QED
    BY <2>1, <2>2
<1>2. CASE StopWithoutConn
  <2>1. ~SafeMoment
    BY <1>2, SafeHasConn DEF StopWithoutConn
  <2>2. ~safe'
    BY <1>2, <2>1 DEF StopWithoutConn
  <2>3. stops' # 0
    BY <1>2 DEF StopWithoutConn, TypeOK
  <2> QED
    BY <1>2, <2>2, <2>3
       DEF StopWithoutConn, Order, Closing, Settled, SafeStopSurvives
<1>3. CASE StopConn
  <2>1. stops # 0 /\ conn # 0 => conn \in Dials
    BY DEF TypeOK
  <2> QED
    BY <1>3, <2>1 DEF StopConn, TypeOK, Order, Closing, Settled, SafeStopSurvives
<1>4. CASE StopConnPanics \/ SendPanics \/ CloseErrPanics
  <2>1. stops = 0 \/ stops = 1 \/ stops > 1
    BY DEF TypeOK
  <2>2. ~safe
    BY <1>4, <2>1 DEF StopConnPanics, SendPanics, CloseErrPanics, TypeOK, Closing, Settled
  <2> QED
    BY <1>4, <2>2 DEF StopConnPanics, SendPanics, CloseErrPanics, Crash, Order,
       Closing, Settled, SafeStopSurvives
<1>5. CASE \E k \in Dials : SendExit(k)
  BY <1>5 DEF SendExit, TypeOK, Order, Closing, Settled, SafeStopSurvives
<1>6. CASE CloseExit
  BY <1>6 DEF CloseExit, TypeOK, Order, Closing, Settled, SafeStopSurvives
<1>7. CASE CloseErr
  BY <1>7 DEF CloseErr, TypeOK, Order, Closing, Settled, SafeStopSurvives
<1> QED
  BY <1>1, <1>2, <1>3, <1>4, <1>5, <1>6, <1>7 DEF Stopping

LEMMA StepInv == IInv /\ [Next]_vars => IInv'
<1> SUFFICES ASSUME IInv, [Next]_vars PROVE IInv'
  OBVIOUS
<1>1. TypeOK'
  BY TypeStep DEF IInv, Order, Closing
<1>2. CASE Start \/ Again
  <2>1. MaxDials > 0 /\ 1 \in Dials
    BY <1>2, ClientAssumption DEF Start, Again, Restart, IInv, TypeOK, DialTypes, Dials
  <2> QED
    BY <1>1, <1>2, <2>1, OutsideStop DEF IInv
<1>3. CASE Stop \/ StopWithoutConn \/ Stopping
  BY <1>1, <1>3, InsideStop DEF IInv
<1>4. CASE \E k \in Dials : Dialer(k) \/ ErrorRead(k) \/ ConnStarts(k) \/ ConnEnds(k)
  BY <1>1, <1>4, OutsideStop DEF IInv, Dialer
<1>5. CASE UNCHANGED vars
  <2>1. Order' /\ Closing'
    BY <1>5 DEF vars, chans, IInv, Order, Closing
  <2>2. Settled' /\ SafeStopSurvives'
    BY <1>5 DEF vars, chans, IInv, Settled, SafeStopSurvives
  <2> QED
    BY <1>1, <2>1, <2>2 DEF IInv
<1> QED
  BY <1>2, <1>3, <1>4, <1>5 DEF Next

THEOREM Invariance == Spec => []IInv
BY InitInv, StepInv, PTL DEF Spec

\* The variables keep their types (client.go).
THEOREM TypeCorrect == Spec => []TypeOK
BY Invariance, PTL DEF IInv

\* No panic ends a client whose one Stop came at a safe moment (Stop, Restart).
THEOREM SafeStopIsSafe == Spec => []SafeStopSurvives
BY Invariance, PTL DEF IInv

-----------------------------------------------------------------------------
(* Induction and recursion over the naturals, without operators             *)

\* What is well-founded has a least element.
LEMMA LeastBy ==
  ASSUME NEW R, IsWellFoundedOn(R, Nat), \A x, y \in Nat : y < x => <<y, x>> \in R,
         NEW T, T \subseteq Nat, T # {}
  PROVE  \E x \in T : \A y \in T : x <= y
<1>1. PICK x \in T : \A y \in T : ~(<<y, x>> \in R)
  BY WFMin
<1>2. \A y \in T : ~(y < x)
  BY <1>1
<1> QED
  BY <1>2

LEMMA Least ==
  ASSUME NEW T, T \subseteq Nat, T # {}
  PROVE  \E x \in T : \A y \in T : x <= y
<1>1. IsWellFoundedOn(OpToRel(<, Nat), Nat)
  BY NatLessThanWellFounded
<1>2. \A x, y \in Nat : y < x => <<y, x>> \in OpToRel(<, Nat)
  BY DEF OpToRel
<1> QED
  BY <1>1, <1>2, LeastBy, Zenon

\* Induction: a set with 0 and the successor of each of its numbers.
LEMMA SetInduction ==
  ASSUME NEW S, 0 \in S, \A n \in Nat : n \in S => n + 1 \in S
  PROVE  Nat \subseteq S
<1> SUFFICES ASSUME NEW m \in Nat, m \notin S PROVE FALSE
  OBVIOUS
<1>1. PICK x \in Nat \ S : \A y \in Nat \ S : x <= y
  BY Least
<1>2. x # 0 /\ x - 1 \in Nat
  BY <1>1
<1>3. x - 1 \in S
  BY <1>1, <1>2
<1> QED
  BY <1>2, <1>3

\* Recursion: a step repeated any number of times.
LEMMA Iterated ==
  ASSUME NEW X, NEW x0 \in X, NEW step \in [X -> X]
  PROVE  \E f \in [Nat -> X] : f[0] = x0 /\ \A n \in Nat : f[n + 1] = step[f[n]]
<1> DEFINE Ok(n, g) == /\ g \in [0..n -> X] /\ g[0] = x0
                       /\ \A i \in 0..(n - 1) : g[i + 1] = step[g[i]]
<1>1. ASSUME NEW n \in Nat PROVE \E g : Ok(n, g)
  <2> DEFINE S == {k \in Nat : \E g : Ok(k, g)}
  <2>1. 0 \in S
    <3>1. Ok(0, [i \in 0..0 |-> x0])
      OBVIOUS
    <3> QED
      BY <3>1
  <2>2. ASSUME NEW k \in Nat, k \in S PROVE k + 1 \in S
    <3>1. PICK g : Ok(k, g)
      BY <2>2
    <3> DEFINE h == [i \in 0..(k + 1) |-> IF i = k + 1 THEN step[g[k]] ELSE g[i]]
    <3>2. h \in [0..(k + 1) -> X] /\ h[0] = x0
      <4>1. step[g[k]] \in X /\ \A i \in 0..(k + 1) : i # k + 1 => g[i] \in X
        BY <3>1
      <4> QED
        BY <3>1, <4>1
    <3>3. ASSUME NEW i \in 0..k PROVE h[i + 1] = step[h[i]]
      BY <3>1
    <3>4. Ok(k + 1, h)
      BY <3>2, <3>3
    <3> HIDE DEF h, Ok
    <3> QED
      BY <3>4
  <2> HIDE DEF S
  <2>3. Nat \subseteq S
    BY <2>1, <2>2, SetInduction
  <2> QED
    BY <2>3 DEF S
<1>2. ASSUME NEW m \in Nat, NEW n \in Nat, NEW g, NEW h, Ok(m, g), Ok(n, h), m <= n
      PROVE  \A i \in 0..m : g[i] = h[i]
  <2> DEFINE S == {i \in Nat : i <= m => g[i] = h[i]}
  <2>1. 0 \in S
    BY <1>2
  <2>2. ASSUME NEW i \in Nat, i \in S PROVE i + 1 \in S
    <3> SUFFICES ASSUME i + 1 <= m PROVE g[i + 1] = h[i + 1]
      OBVIOUS
    <3>1. i \in 0..(m - 1) /\ i \in 0..(n - 1)
      BY <1>2
    <3> QED
      BY <1>2, <2>2, <3>1
  <2> HIDE DEF S
  <2>3. Nat \subseteq S
    BY <2>1, <2>2, SetInduction
  <2> QED
    BY <2>3 DEF S
<1> DEFINE upTo(n) == CHOOSE g : Ok(n, g)
           f == [n \in Nat |-> upTo(n)[n]]
<1> HIDE DEF Ok
<1>3. \A n \in Nat : Ok(n, upTo(n))
  BY <1>1
<1> HIDE DEF upTo
<1>4. f \in [Nat -> X]
  BY <1>3 DEF Ok
<1>5. f[0] = x0
  BY <1>3 DEF Ok
<1>6. ASSUME NEW n \in Nat PROVE f[n + 1] = step[f[n]]
  <2>1. upTo(n + 1)[n + 1] = step[upTo(n + 1)[n]]
    BY <1>3 DEF Ok
  <2>2. upTo(n)[n] = upTo(n + 1)[n]
    BY <1>2, <1>3
  <2> QED
    BY <2>1, <2>2
<1> QED
  BY <1>4, <1>5, <1>6

LEMMA Multiplied ==
  ASSUME NEW r \in Nat
  PROVE  \E f \in [Nat -> Nat] : f[0] = 1 /\ \A n \in Nat : f[n + 1] = r * f[n]
<1>1. PICK X : X = Nat
  OBVIOUS
<1>2. PICK x0 : x0 = 1
  OBVIOUS
<1> DEFINE step == [x \in X |-> r * x]
<1>3. step \in [X -> X]
  BY <1>1
<1>4. \A x \in X : step[x] = r * x
  OBVIOUS
<1>5. x0 \in X
  BY <1>1, <1>2
<1> HIDE DEF step
<1>6. PICK f \in [Nat -> X] : f[0] = x0 /\ \A n \in Nat : f[n + 1] = step[f[n]]
  BY <1>3, <1>5, Iterated
<1>7. \A n \in Nat : f[n] \in X
  OBVIOUS
<1>8. \A n \in Nat : f[n + 1] = r * f[n]
  BY <1>4, <1>6, <1>7
<1>9. f \in [Nat -> Nat] /\ f[0] = 1
  BY <1>1, <1>2, <1>6
<1> QED
  BY <1>8, <1>9

-----------------------------------------------------------------------------
(* Numbers and their bytes                                                  *)

LEMMA PowerFacts ==
  /\ Power \in [Nat -> Nat \ {0}] /\ Power[0] = 1
  /\ \A k \in Nat : Power[k + 1] = Radix * Power[k]
<1> DEFINE Powers(f) == f = [k \in Nat |-> IF k = 0 THEN 1 ELSE Radix * f[k - 1]]
<1>1. Radix \in Nat \ {0, 1}
  BY FrameDecoderAssumption
<1>3. PICK f \in [Nat -> Nat] : f[0] = 1 /\ \A k \in Nat : f[k + 1] = Radix * f[k]
  BY <1>1, Multiplied
<1>4. Powers(f)
  <2>1. \A k \in Nat : f[k] = IF k = 0 THEN 1 ELSE Radix * f[k - 1]
    <3> SUFFICES ASSUME NEW k \in Nat, k # 0 PROVE f[k] = Radix * f[k - 1]
      BY <1>3
    <3>1. k - 1 \in Nat /\ (k - 1) + 1 = k
      OBVIOUS
    <3> QED
      BY <1>3, <3>1
  <2> QED
    BY <1>3, <2>1
<1>5. Power = CHOOSE g : Powers(g)
  BY DEF Power
<1> HIDE DEF Powers
<1>6. Powers(Power)
  BY <1>4, <1>5
<1>7. Power = [k \in Nat |-> IF k = 0 THEN 1 ELSE Radix * Power[k - 1]]
  BY <1>6 DEF Powers
<1>8. Power[0] = 1 /\ \A k \in Nat : Power[k + 1] = Radix * Power[k]
  BY <1>7
<1>9. ASSUME NEW k \in Nat PROVE Power[k] \in Nat \ {0}
  <2> DEFINE S == {i \in Nat : Power[i] \in Nat \ {0}}
  <2>1. 0 \in S
    BY <1>8
  <2>2. ASSUME NEW i \in Nat, i \in S PROVE i + 1 \in S
    <3>1. Power[i + 1] = Radix * Power[i] /\ Power[i] \in Nat \ {0}
      BY <1>8, <2>2
    <3>2. \A a \in Nat \ {0, 1} : \A b \in Nat \ {0} : a * b \in Nat \ {0}
      OBVIOUS
    <3> QED
      BY <1>1, <3>1, <3>2
  <2> HIDE DEF S
  <2>3. Nat \subseteq S
    BY <2>1, <2>2, SetInduction
  <2> QED
    BY <2>3 DEF S
<1> QED
  BY <1>7, <1>8, <1>9

LEMMA DivRange ==
  ASSUME NEW a \in Nat, NEW b \in Nat \ {0}
  PROVE  a \div b \in Nat /\ a % b \in 0..(b - 1) /\ a = (a \div b) * b + (a % b)
OBVIOUS

LEMMA DivUnique ==
  ASSUME NEW b \in Nat \ {0}, NEW x \in 0..(b - 1), NEW y \in Nat
  PROVE  (y * b + x) % b = x /\ (y * b + x) \div b = y
OBVIOUS

\* One more digit.
LEMMA OneDigit ==
  ASSUME NEW n \in Nat, NEW p \in Nat \ {0}, NEW r \in Nat \ {0}
  PROVE  n \div p = (n \div (r * p)) * r + ((n \div p) % r)
<1> DEFINE q == n \div p  x == n % p  s == q \div r  t == q % r
<1>1. q \in Nat /\ x \in 0..(p - 1) /\ n = q * p + x
  BY DivRange
<1>2. s \in Nat /\ t \in 0..(r - 1) /\ q = s * r + t
  BY <1>1, DivRange
<1> HIDE DEF q, x, s, t
<1>3. n = s * (r * p) + (t * p + x)
  BY <1>1, <1>2
<1>4. t * p + x \in 0..(r * p - 1)
  <2>1. t * p >= 0 /\ t * p <= (r - 1) * p
    BY <1>2
  <2> QED
    BY <1>1, <1>2, <2>1
<1>5. r * p \in Nat \ {0}
  OBVIOUS
<1> DEFINE c == r * p  y == t * p + x
<1>6. c \in Nat \ {0} /\ y \in 0..(c - 1) /\ n = s * c + y
  BY <1>3, <1>4, <1>5
<1> HIDE DEF c, y
<1>7. n \div c = s
  BY <1>2, <1>6, DivUnique
<1> QED
  BY <1>2, <1>7 DEF c, q, s, t

-----------------------------------------------------------------------------

\* What the loop over the digits of Number computes is determined by its steps.
LEMMA NumberIs ==
  ASSUME NEW b, Len(b) \in Nat, NEW f,
         f = [i \in 0..Len(b) |-> IF i = 0 THEN 0 ELSE f[i - 1] * Radix + InOrder(b)[i]]
  PROVE  Number(b) = f[Len(b)]
<1> DEFINE Values(g) ==
      g = [i \in 0..Len(b) |-> IF i = 0 THEN 0 ELSE g[i - 1] * Radix + InOrder(b)[i]]
<1>1. Number(b) = (CHOOSE g : Values(g))[Len(b)]
  BY DEF Number
<1>2. Values(f)
  OBVIOUS
<1>3. ASSUME NEW g, Values(g) PROVE g[Len(b)] = f[Len(b)]
  <2> DEFINE S == {i \in Nat : i <= Len(b) => g[i] = f[i]}
  <2>1. 0 \in S
    BY <1>3
  <2>2. ASSUME NEW i \in Nat, i \in S PROVE i + 1 \in S
    <3> SUFFICES ASSUME i + 1 <= Len(b) PROVE g[i + 1] = f[i + 1]
      OBVIOUS
    <3>1. i + 1 \in 0..Len(b) /\ i + 1 # 0 /\ (i + 1) - 1 = i
      OBVIOUS
    <3>2. g[i + 1] = g[i] * Radix + InOrder(b)[i + 1]
      BY <1>3, <3>1
    <3>3. f[i + 1] = f[i] * Radix + InOrder(b)[i + 1]
      BY <3>1
    <3> QED
      BY <2>2, <3>2, <3>3
  <2> HIDE DEF S, Values
  <2>3. Nat \subseteq S
    BY <2>1, <2>2, SetInduction
  <2>4. \A i \in Nat : i <= Len(b) => g[i] = f[i]
    BY <2>3, Zenon DEF S
  <2>5. Len(b) <= Len(b)
    OBVIOUS
  <2> QED
    BY <2>4, <2>5, Zenon
<1> HIDE DEF Values
<1>4. Values(CHOOSE g : Values(g))
  BY <1>2
<1> QED
  BY <1>1, <1>3, <1>4

\* The bytes of a number, and reversing them twice.
LEMMA Ordered ==
  ASSUME NEW X, NEW s \in Seq(X)
  PROVE  InOrder(s) \in Seq(X) /\ Len(InOrder(s)) = Len(s) /\ InOrder(InOrder(s)) = s
<1>1. CASE lf.little
  <2> DEFINE n == Len(s)  t == [i \in 1..n |-> s[(n - i) + 1]]
  <2>1. n \in Nat /\ DOMAIN s = 1..n
    OBVIOUS
  <2>2. \A i \in 1..n : (n - i) + 1 \in 1..n
    BY <2>1
  <2>3. t \in Seq(X) /\ Len(t) = n
    BY <2>1, <2>2
  <2>4. InOrder(s) = t
    BY <1>1 DEF InOrder, Reverse
  <2>5. InOrder(t) = [i \in 1..n |-> t[(n - i) + 1]]
    BY <1>1, <2>3 DEF InOrder, Reverse
  <2>6. \A i \in 1..n : t[(n - i) + 1] = s[i]
    BY <2>1, <2>2
  <2> HIDE DEF t
  <2>7. [i \in 1..n |-> t[(n - i) + 1]] = s
    BY <2>1, <2>6
  <2> QED
    BY <2>3, <2>4, <2>5, <2>7
<1>2. CASE ~lf.little
  BY <1>2 DEF InOrder
<1> QED
  BY <1>1, <1>2

LEMMA BytesFacts ==
  ASSUME NEW n \in Nat, NEW k \in Nat
  PROVE  Bytes(n, k) \in Seq(Nat) /\ Len(Bytes(n, k)) = k
<1> DEFINE d == [i \in 1..k |-> (n \div Power[k - i]) % Radix]
<1>1. Radix \in Nat \ {0}
  BY FrameDecoderAssumption
<1>2. \A i \in 1..k : (n \div Power[k - i]) % Radix \in Nat
  <2> SUFFICES ASSUME NEW i \in 1..k PROVE (n \div Power[k - i]) % Radix \in Nat
    OBVIOUS
  <2>1. k - i \in Nat
    OBVIOUS
  <2>2. Power[k - i] \in Nat \ {0}
    BY <2>1, PowerFacts
  <2>3. n \div Power[k - i] \in Nat
    BY <2>2, DivRange
  <2> QED
    BY <1>1, <2>3, DivRange
<1>3. d \in Seq(Nat) /\ Len(d) = k
  BY <1>2
<1> HIDE DEF d
<1>4. InOrder(d) \in Seq(Nat) /\ Len(InOrder(d)) = k
  BY <1>3, Ordered
<1> QED
  BY <1>4 DEF Bytes, d

\* A number that its bytes can hold is read from them as it was written, in both
\* byte orders and for every width (getUnadjustedFrameLength, Pack, decode).
THEOREM NumberOfBytes ==
  ASSUME NEW k \in Nat, NEW n \in 0..(Power[k] - 1)
  PROVE  Number(Bytes(n, k)) = n
<1> DEFINE d == [i \in 1..k |-> (n \div Power[k - i]) % Radix]
           f == [i \in 0..k |-> n \div Power[k - i]]
<1>1. Radix \in Nat \ {0} /\ n \in Nat /\ Power[k] \in Nat \ {0} /\ n < Power[k]
  BY FrameDecoderAssumption, PowerFacts
<1>2. Bytes(n, k) = InOrder(d)
  BY DEF Bytes
<1>3. Bytes(n, k) \in Seq(Nat) /\ Len(Bytes(n, k)) = k
  BY <1>1, BytesFacts
<1>4. InOrder(Bytes(n, k)) = d
  <2>1. \A i \in 1..k : k - i \in Nat /\ Power[k - i] \in Nat \ {0}
    BY PowerFacts
  <2>2. \A i \in 1..k : n \div Power[k - i] \in Nat
    BY <1>1, <2>1, DivRange
  <2>3. \A i \in 1..k : (n \div Power[k - i]) % Radix \in Nat
    BY <1>1, <2>2, DivRange
  <2>4. d \in Seq(Nat)
    BY <2>3
  <2> HIDE DEF d
  <2> QED
    BY <1>2, <2>4, Ordered
<1>5. f[0] = 0
  <2>1. n \div Power[k] = 0
    <3> DEFINE p == Power[k]
    <3>1. p \in Nat \ {0} /\ n \in 0..(p - 1) /\ n = 0 * p + n
      BY <1>1
    <3> HIDE DEF p
    <3>2. n \div p = 0
      BY <3>1
    <3> QED
      BY <3>2 DEF p
  <2> QED
    BY <2>1
<1>6. ASSUME NEW i \in 1..k PROVE f[i] = f[i - 1] * Radix + d[i]
  <2>1. k - i \in Nat /\ k - (i - 1) = (k - i) + 1 /\ i - 1 \in 0..k
    OBVIOUS
  <2>2. Power[k - (i - 1)] = Radix * Power[k - i] /\ Power[k - i] \in Nat \ {0}
    BY <2>1, PowerFacts
  <2> DEFINE p == Power[k - i]
  <2>3. n \div p = (n \div (Radix * p)) * Radix + ((n \div p) % Radix)
    <3> HIDE DEF p
    <3>1. p \in Nat \ {0}
      BY <2>2 DEF p
    <3> QED
      BY <1>1, <3>1, OneDigit
  <2>4. f[i] = n \div p /\ f[i - 1] = n \div (Radix * p) /\ d[i] = (n \div p) % Radix
    BY <2>1, <2>2
  <2> HIDE DEF p, f, d
  <2> QED
    BY <2>3, <2>4
<1>7. DOMAIN f = 0..k /\ f[k] = n
  <2>1. k - k = 0
    OBVIOUS
  <2>2. f[k] = n \div Power[0]
    BY <2>1
  <2>3. f[k] = n \div 1
    BY <2>2, PowerFacts
  <2>4. n \div 1 = n
    BY <1>1
  <2> QED
    BY <2>3, <2>4
<1>8. f = [i \in 0..k |-> IF i = 0 THEN 0 ELSE f[i - 1] * Radix + d[i]]
  <2>1. \A i \in 0..k : f[i] = IF i = 0 THEN 0 ELSE f[i - 1] * Radix + d[i]
    <3> HIDE DEF f, d
    <3>1. \A i \in 0..k : i # 0 => i \in 1..k
      OBVIOUS
    <3> QED
      BY <1>5, <1>6, <3>1
  <2>2. f = [i \in 0..k |-> f[i]]
    OBVIOUS
  <2> HIDE DEF f, d
  <2> QED
    BY <2>1, <2>2
<1> HIDE DEF f, d
<1> DEFINE b == Bytes(n, k)
<1>9. Len(b) = k /\ f = [i \in 0..Len(b) |-> IF i = 0 THEN 0 ELSE f[i - 1] * Radix + InOrder(b)[i]]
  BY <1>3, <1>4, <1>8
<1> HIDE DEF b
<1>10. Number(b) = f[Len(b)]
  BY <1>9, NumberIs
<1> QED
  BY <1>7, <1>9, <1>10 DEF b
-----------------------------------------------------------------------------
(* Bytes one after the other                                                *)

\* What is in two sequences one after the other.
LEMMA Joined ==
  ASSUME NEW s \in Seq(Nat), NEW t \in Seq(Nat)
  PROVE  /\ s \o t \in Seq(Nat) /\ Len(s \o t) = Len(s) + Len(t)
         /\ Len(s) \in Nat /\ Len(t) \in Nat
         /\ \A i \in 1..Len(s) : (s \o t)[i] = s[i]
         /\ \A i \in 1..Len(t) : (s \o t)[Len(s) + i] = t[i]
OBVIOUS

IsPiece(u, s, a, b) ==
  /\ u \in Seq(Nat) /\ Len(u) = b - a + 1
  /\ \A i \in 1..(b - a + 1) : u[i] = s[a + i - 1]

\* A piece of a sequence.
LEMMA Piece ==
  ASSUME NEW s \in Seq(Nat), NEW a \in Nat \ {0}, NEW b \in Nat, b <= Len(s), a <= b + 1
  PROVE  IsPiece(SubSeq(s, a, b), s, a, b)
<1>1. Len(s) \in Nat /\ \A i \in 1..Len(s) : s[i] \in Nat
  OBVIOUS
<1>2. SubSeq(s, a, b) = [i \in 1..(b - a + 1) |-> s[a + i - 1]]
  OBVIOUS
<1>3. \A i \in 1..(b - a + 1) : a + i - 1 \in 1..Len(s)
  BY <1>1
<1>4. b - a + 1 \in Nat
  OBVIOUS
<1> QED
  BY <1>1, <1>2, <1>3, <1>4 DEF IsPiece

\* Sequences with the same elements are the same.
LEMMA Same ==
  ASSUME NEW s \in Seq(Nat), NEW t \in Seq(Nat), Len(s) = Len(t),
         \A i \in 1..Len(s) : s[i] = t[i]
  PROVE  s = t
OBVIOUS

\* A sequence that is found in another one.
LEMMA Slice ==
  ASSUME NEW s \in Seq(Nat), NEW t \in Seq(Nat), NEW a \in Nat \ {0}, NEW b \in Nat,
         b <= Len(s), b + 1 = a + Len(t), \A i \in 1..Len(t) : s[a + i - 1] = t[i]
  PROVE  SubSeq(s, a, b) = t
<1>1. Len(t) \in Nat
  OBVIOUS
<1>2. a <= b + 1 /\ b - a + 1 = Len(t)
  BY <1>1
<1>3. /\ SubSeq(s, a, b) \in Seq(Nat) /\ Len(SubSeq(s, a, b)) = Len(t)
      /\ \A i \in 1..Len(t) : SubSeq(s, a, b)[i] = s[a + i - 1]
  BY <1>2, Piece DEF IsPiece
<1> QED
  BY <1>3, Same

\* Two ways to cut the same bytes agree on what both have.
LEMMA SameHead ==
  ASSUME NEW s \in Seq(Nat), NEW t \in Seq(Nat), NEW f \in Seq(Nat), NEW g \in Seq(Nat),
         s \o t = f \o g
  PROVE  \A i \in 1..Len(s) : i <= Len(f) => s[i] = f[i]
<1> SUFFICES ASSUME NEW i \in 1..Len(s), i <= Len(f) PROVE s[i] = f[i]
  OBVIOUS
<1>1. i \in 1..Len(f)
  BY Joined
<1> QED
  BY <1>1, Joined

LEMMA SamePiece ==
  ASSUME NEW s \in Seq(Nat), NEW f \in Seq(Nat), NEW a \in Nat \ {0}, NEW b \in Nat,
         b <= Len(s), b <= Len(f), a <= b + 1, \A i \in 1..b : s[i] = f[i]
  PROVE  SubSeq(s, a, b) = SubSeq(f, a, b)
<1>1. \A i \in 1..(b - a + 1) : a + i - 1 \in 1..b
  OBVIOUS
<1>2. \A i \in 1..(b - a + 1) : SubSeq(s, a, b)[i] = SubSeq(f, a, b)[i]
  BY <1>1, Piece DEF IsPiece
<1>3. /\ SubSeq(s, a, b) \in Seq(Nat) /\ Len(SubSeq(s, a, b)) = b - a + 1
      /\ SubSeq(f, a, b) \in Seq(Nat) /\ Len(SubSeq(f, a, b)) = b - a + 1
  BY Piece DEF IsPiece
<1> QED
  BY <1>2, <1>3, Same

\* What is left of the bytes when a first part is taken from them.
LEMMA RestOf ==
  ASSUME NEW s \in Seq(Nat), NEW t \in Seq(Nat), NEW f \in Seq(Nat), NEW g \in Seq(Nat),
         s \o t = f \o g
  PROVE  Len(f) <= Len(s) =>
           From(s, Len(f) + 1) \in Seq(Nat) /\ From(s, Len(f) + 1) \o t = g
<1> HAVE Len(f) <= Len(s)
<1> DEFINE u == SubSeq(s, Len(f) + 1, Len(s))
<1>1. Len(f) \in Nat /\ Len(s) \in Nat /\ Len(t) \in Nat /\ Len(g) \in Nat
      /\ Len(s) + Len(t) = Len(f) + Len(g)
  BY Joined
<1>2. u \in Seq(Nat) /\ Len(u) = Len(s) - Len(f)
      /\ \A i \in 1..(Len(s) - Len(f)) : u[i] = s[Len(f) + i]
  <2>1. IsPiece(u, s, Len(f) + 1, Len(s))
    BY <1>1, Piece
  <2>2. Len(s) - (Len(f) + 1) + 1 = Len(s) - Len(f)
        /\ \A i \in 1..(Len(s) - Len(f)) : (Len(f) + 1) + i - 1 = Len(f) + i
    BY <1>1
  <2> HIDE DEF u
  <2> QED
    BY <2>1, <2>2 DEF IsPiece
<1> HIDE DEF u
<1>3. u \o t \in Seq(Nat) /\ Len(u \o t) = Len(g)
  BY <1>1, <1>2, Joined
<1>4. ASSUME NEW i \in 1..Len(g) PROVE (u \o t)[i] = g[i]
  <2>1. g[i] = (s \o t)[Len(f) + i]
    BY <1>1, Joined
  <2>2. CASE i <= Len(u)
    <3>1. (u \o t)[i] = s[Len(f) + i]
      BY <1>1, <1>2, <2>2, Joined
    <3>2. (s \o t)[Len(f) + i] = s[Len(f) + i]
      <4>1. Len(f) + i \in 1..Len(s)
        BY <1>1, <1>2, <2>2
      <4> QED
        BY <4>1, Joined
    <3> QED
      BY <2>1, <3>1, <3>2
  <2>3. CASE i > Len(u)
    <3> DEFINE j == i - Len(u)
    <3>1. j \in 1..Len(t) /\ i = Len(u) + j /\ Len(f) + i = Len(s) + j
      BY <1>1, <1>2, <2>3
    <3> HIDE DEF j
    <3>2. (u \o t)[Len(u) + j] = t[j]
      <4>1. u \in Seq(Nat)
        BY <1>2
      <4> QED
        BY <4>1, <3>1, Joined
    <3>3. (s \o t)[Len(s) + j] = t[j]
      BY <3>1, Joined
    <3> QED
      BY <2>1, <3>1, <3>2, <3>3
  <2>4. i <= Len(u) \/ i > Len(u)
    BY <1>1, <1>2
  <2> QED
    BY <2>2, <2>3, <2>4
<1>5. u \o t = g
  BY <1>3, <1>4, Same
<1> QED
  BY <1>2, <1>5 DEF From, u

Made(s, a, b, c) ==
  /\ s \in Seq(Nat) /\ Len(s) = Len(a) + Len(b) + Len(c)
  /\ SubSeq(s, 1, Len(a)) = a
  /\ SubSeq(s, Len(a) + 1, Len(a) + Len(b)) = b
  /\ SubSeq(s, Len(a) + Len(b) + 1, Len(a) + Len(b) + Len(c)) = c

\* The three parts of a sequence that was put together from them.
LEMMA Parts ==
  ASSUME NEW a \in Seq(Nat), NEW b \in Seq(Nat), NEW c \in Seq(Nat)
  PROVE  Made((a \o b) \o c, a, b, c)
<1> DEFINE s == (a \o b) \o c
<1>1. Len(a) \in Nat /\ Len(b) \in Nat /\ Len(c) \in Nat
  OBVIOUS
<1>2. a \o b \in Seq(Nat) /\ Len(a \o b) = Len(a) + Len(b)
  BY Joined
<1>3. s \in Seq(Nat) /\ Len(s) = Len(a) + Len(b) + Len(c)
  BY <1>1, <1>2, Joined
<1>4. \A i \in 1..(Len(a) + Len(b)) : s[i] = (a \o b)[i]
  BY <1>1, <1>2, Joined
<1>5. \A i \in 1..Len(c) : s[Len(a) + Len(b) + i] = c[i]
  BY <1>1, <1>2, Joined
<1>6. \A i \in 1..Len(a) : s[i] = a[i]
  BY <1>1, <1>4, Joined
<1>7. \A i \in 1..Len(b) : s[Len(a) + i] = b[i]
  <2>1. \A i \in 1..Len(b) : Len(a) + i \in 1..(Len(a) + Len(b)) /\ (a \o b)[Len(a) + i] = b[i]
    BY <1>1, Joined
  <2> QED
    BY <1>4, <2>1
<1> HIDE DEF s
<1>8. SubSeq(s, 1, Len(a)) = a
  <2>1. /\ SubSeq(s, 1, Len(a)) \in Seq(Nat) /\ Len(SubSeq(s, 1, Len(a))) = Len(a)
        /\ \A i \in 1..Len(a) : SubSeq(s, 1, Len(a))[i] = s[i]
    BY <1>1, <1>3, Piece DEF IsPiece
  <2> QED
    BY <1>6, <2>1, Same
<1>9. SubSeq(s, Len(a) + 1, Len(a) + Len(b)) = b
  <2> DEFINE lo == Len(a) + 1  hi == Len(a) + Len(b)
  <2>1. lo \in Nat \ {0} /\ hi \in Nat /\ hi <= Len(s) /\ hi + 1 = lo + Len(b)
    BY <1>1, <1>3
  <2>2. \A i \in 1..Len(b) : lo + i - 1 = Len(a) + i
    BY <1>1
  <2> HIDE DEF lo, hi
  <2>3. \A i \in 1..Len(b) : s[lo + i - 1] = b[i]
    BY <1>7, <2>2
  <2>4. SubSeq(s, lo, hi) = b
    BY <1>3, <2>1, <2>3, Slice
  <2> QED
    BY <2>4 DEF lo, hi
<1>10. SubSeq(s, Len(a) + Len(b) + 1, Len(a) + Len(b) + Len(c)) = c
  <2> DEFINE lo == Len(a) + Len(b) + 1  hi == Len(a) + Len(b) + Len(c)
  <2>1. lo \in Nat \ {0} /\ hi \in Nat /\ hi <= Len(s) /\ hi + 1 = lo + Len(c)
    BY <1>1, <1>3
  <2>2. \A i \in 1..Len(c) : lo + i - 1 = Len(a) + Len(b) + i
    BY <1>1
  <2> HIDE DEF lo, hi
  <2>3. \A i \in 1..Len(c) : s[lo + i - 1] = c[i]
    BY <1>5, <2>2
  <2>4. SubSeq(s, lo, hi) = c
    BY <1>3, <2>1, <2>3, Slice
  <2> QED
    BY <2>4 DEF lo, hi
<1> QED
  BY <1>3, <1>8, <1>9, <1>10 DEF s, Made
-----------------------------------------------------------------------------
(* The frame decoder                                                        *)

\* A frame's length is what its length field says.
Whole(f) ==
  /\ f \in Seq(Nat) /\ Len(f) >= LengthFieldEndOffset
  /\ UnadjustedFrameLength(f) \in Nat
  /\ UnadjustedFrameLength(f) + LengthAdjustment + LengthFieldEndOffset = Len(f)

Streams(r) ==
  /\ r \in [0..Len(sent) -> Seq(Nat)] /\ r[Len(sent)] = <<>>
  /\ \A i \in 1..Len(sent) : r[i - 1] = sent[i] \o r[i]

\* The decoder stands at the beginning of a frame: what is left of the bytes is
\* what follows the last frame returned, r[i] being what follows frame i.
Reading(r) ==
  /\ ~discardingTooLongFrame /\ bytesToDiscard = 0
  /\ in \in Seq(Nat) /\ Len(out) <= Len(sent) /\ Regular(Len(out))
  /\ in \o net = r[Len(out)]
  /\ pc = "idle" /\ Len(out) < Len(sent) => Len(in) < Len(sent[Len(out) + 1])

\* A frame that is too long has been reached.
Lost == \E b \in DOMAIN sent : ~Fits(sent[b]) /\ b <= Len(out) + 1

Returned ==
  \A i \in DOMAIN sent : i <= Len(out) /\ Regular(i) => out[i] = Stripped(sent[i])

\* The decoder has not met a frame that is too long.
OnTrack == \E r : Streams(r) /\ Reading(r)

FrameInv ==
  /\ lf \in LengthFields /\ sent \in Seq(Seq(Nat)) /\ net \in Seq(Nat)
  /\ (\E S : out \in Seq(S)) /\ (\A i \in DOMAIN sent : Whole(sent[i]))
  /\ Returned
  /\ Lost \/ OnTrack

LEMMA FieldNumbers ==
  ASSUME lf \in LengthFields
  PROVE  /\ LengthFieldOffset \in Nat /\ LengthFieldLength \in Nat \ {0}
         /\ LengthAdjustment \in Int /\ InitialBytesToStrip \in Nat
         /\ MaxFrameLength \in Nat /\ lf.little \in BOOLEAN
         /\ LengthFieldEndOffset \in Nat \ {0} /\ LengthFieldOffset < LengthFieldEndOffset
<1>1. lf \in [offset : Nat, length : Nat \ {0}, adjustment : Int,
              strip : Nat, max : Nat, little : BOOLEAN]
  BY FrameDecoderAssumption
<1>2. lf.offset \in Nat /\ lf.length \in Nat \ {0} /\ lf.adjustment \in Int
      /\ lf.strip \in Nat /\ lf.max \in Nat /\ lf.little \in BOOLEAN
  BY <1>1
<1> QED
  BY <1>2 DEF LengthFieldOffset, LengthFieldLength, LengthAdjustment, InitialBytesToStrip,
              MaxFrameLength, LengthFieldEndOffset

\* What is stripped is no longer than a frame.
LEMMA StripFits ==
  ASSUME lf \in LengthFields, NEW f, Whole(f)
  PROVE  InitialBytesToStrip <= Len(f) /\ Len(f) > 0
<1>1. \/ lf.strip <= lf.offset + lf.length
      \/ lf.strip <= lf.offset + lf.length + lf.adjustment
  BY FrameDecoderAssumption
<1>2. \/ InitialBytesToStrip <= LengthFieldEndOffset
      \/ InitialBytesToStrip <= LengthFieldEndOffset + LengthAdjustment
  BY <1>1 DEF InitialBytesToStrip, LengthFieldEndOffset, LengthAdjustment,
              LengthFieldOffset, LengthFieldLength
<1>3. /\ InitialBytesToStrip \in Nat /\ LengthFieldEndOffset \in Nat \ {0}
      /\ LengthAdjustment \in Int
  BY FieldNumbers
<1>4. /\ Len(f) \in Nat /\ Len(f) >= LengthFieldEndOffset
      /\ UnadjustedFrameLength(f) \in Nat
      /\ UnadjustedFrameLength(f) + LengthAdjustment + LengthFieldEndOffset = Len(f)
  BY DEF Whole
<1> QED
  BY <1>2, <1>3, <1>4

\* A sequence and one more.
LEMMA Longer ==
  ASSUME NEW S, NEW s \in Seq(S), NEW e
  PROVE  /\ Append(s, e) \in Seq(S \cup {e}) /\ Len(Append(s, e)) = Len(s) + 1
         /\ Len(s) \in Nat /\ DOMAIN s = 1..Len(s) /\ DOMAIN Append(s, e) = 1..(Len(s) + 1)
         /\ \A i \in 1..Len(s) : Append(s, e)[i] = s[i]
         /\ Append(s, e)[Len(s) + 1] = e
<1>1. s \in Seq(S \cup {e}) /\ e \in S \cup {e}
  OBVIOUS
<1> QED
  BY <1>1

LEMMA FrameInitInv == FInit => FrameInv
<1> SUFFICES ASSUME FInit PROVE FrameInv
  OBVIOUS
<1>1. lf \in LengthFields /\ sent = <<>> /\ net = <<>> /\ in = <<>> /\ out = <<>>
      /\ discardingTooLongFrame = FALSE /\ bytesToDiscard = 0
  BY DEF FInit
<1>2. sent \in Seq(Seq(Nat)) /\ net \in Seq(Nat) /\ in \in Seq(Nat) /\ out \in Seq(Nat)
      /\ Len(sent) = 0 /\ Len(out) = 0 /\ DOMAIN sent = {}
  BY <1>1
<1> DEFINE r == [i \in 0..0 |-> <<>>]
<1>3. Streams(r)
  BY <1>2 DEF Streams
<1>4. Reading(r)
  <2>1. r[0] = <<>> /\ in \o net = <<>>
    BY <1>1
  <2> HIDE DEF r
  <2> QED
    BY <1>1, <1>2, <2>1 DEF Reading, Regular
<1>5. Returned
  BY <1>2 DEF Returned
<1> HIDE DEF r
<1> QED
  BY <1>1, <1>2, <1>3, <1>4, <1>5 DEF FrameInv, OnTrack

\* The bytes the decoder has, seen as the next frame and the rest.
LEMMA NextFrame ==
  ASSUME FrameInv, NEW r, Streams(r), Reading(r)
  PROVE  /\ Readable = in /\ ToDiscard = 0
         /\ Len(out) = Len(sent) => ~HasHeader
         /\ Len(out) < Len(sent) =>
              /\ Len(out) + 1 \in 1..Len(sent) /\ Whole(sent[Len(out) + 1])
              /\ in \o net = sent[Len(out) + 1] \o r[Len(out) + 1]
              /\ r[Len(out) + 1] \in Seq(Nat)
              /\ HasHeader => FrameLength = Len(sent[Len(out) + 1])
<1>1. in \in Seq(Nat) /\ net \in Seq(Nat) /\ sent \in Seq(Seq(Nat)) /\ Len(sent) \in Nat
      /\ Len(in) \in Nat /\ DOMAIN sent = 1..Len(sent)
  BY DEF FrameInv, Reading
<1>2. Len(out) \in Nat
  BY DEF FrameInv
<1>3. Discarding = 0
  BY DEF Discarding, Reading
<1>4. Readable = in
  BY <1>1, <1>3 DEF Readable, From
<1>5. ToDiscard = 0
  BY <1>3 DEF ToDiscard, Reading
<1>6. ASSUME Len(out) = Len(sent) PROVE ~HasHeader
  <2>1. in \o net = <<>>
    BY <1>6 DEF Reading, Streams
  <2>2. Len(in) = 0
    BY <1>1, <2>1, Joined
  <2>3. LengthFieldEndOffset \in Nat \ {0}
    BY FieldNumbers DEF FrameInv
  <2> QED
    BY <1>4, <2>2, <2>3 DEF HasHeader
<1>7. ASSUME Len(out) < Len(sent)
      PROVE  /\ Len(out) + 1 \in 1..Len(sent) /\ Whole(sent[Len(out) + 1])
             /\ in \o net = sent[Len(out) + 1] \o r[Len(out) + 1]
             /\ r[Len(out) + 1] \in Seq(Nat)
             /\ HasHeader => FrameLength = Len(sent[Len(out) + 1])
  <2> DEFINE i == Len(out) + 1
  <2>1. i \in 1..Len(sent) /\ i \in 0..Len(sent) /\ i - 1 = Len(out)
    BY <1>1, <1>2, <1>7
  <2> HIDE DEF i
  <2> DEFINE f == sent[i]
  <2>2. Whole(f)
    BY <1>1, <2>1 DEF FrameInv
  <2>3. in \o net = f \o r[i] /\ r[i] \in Seq(Nat)
    BY <2>1 DEF Reading, Streams
  <2>4. ASSUME HasHeader PROVE FrameLength = Len(f)
    <3> DEFINE a == LengthFieldOffset + 1  b == LengthFieldEndOffset
    <3>1. a \in Nat \ {0} /\ b \in Nat /\ a <= b + 1
      BY FieldNumbers DEF FrameInv
    <3>2. b <= Len(in) /\ b <= Len(f) /\ f \in Seq(Nat)
      BY <1>4, <2>2, <2>4 DEF HasHeader, Whole
    <3> DEFINE g == r[i]
    <3> HIDE DEF a, b, f, g
    <3>3. SubSeq(in, a, b) = SubSeq(f, a, b)
      <4>1. in \o net = f \o g /\ g \in Seq(Nat)
        BY <2>3 DEF g
      <4>2. \A j \in 1..Len(in) : j <= Len(f) => in[j] = f[j]
        BY <1>1, <3>2, <4>1, SameHead
      <4>3. \A j \in 1..b : j \in 1..Len(in) /\ j <= Len(f)
        BY <1>1, <3>1, <3>2
      <4>4. \A j \in 1..b : in[j] = f[j]
        BY <4>2, <4>3, Zenon
      <4> QED
        BY <1>1, <3>1, <3>2, <4>4, SamePiece
    <3>4. UnadjustedFrameLength(in) = UnadjustedFrameLength(f)
      BY <3>3 DEF UnadjustedFrameLength, a, b
    <3> QED
      BY <1>4, <2>2, <3>4 DEF FrameLength, Whole
  <2> QED
    BY <2>1, <2>2, <2>3, <2>4 DEF i
<1> QED
  BY <1>4, <1>5, <1>6, <1>7

\* The decoder keeps its length field.
LEMMA SameField ==
  ASSUME lf' = lf
  PROVE  \A i : /\ Whole(sent[i])' = Whole(sent'[i]) /\ Fits(sent[i])' = Fits(sent'[i])
                /\ Stripped(sent[i])' = Stripped(sent'[i])
<1> SUFFICES ASSUME NEW i
             PROVE  /\ Whole(sent[i])' = Whole(sent'[i]) /\ Fits(sent[i])' = Fits(sent'[i])
                    /\ Stripped(sent[i])' = Stripped(sent'[i])
  OBVIOUS
<1>1. UnadjustedFrameLength(sent[i])' = UnadjustedFrameLength(sent'[i])
  BY DEF UnadjustedFrameLength, LengthFieldOffset, LengthFieldEndOffset, LengthFieldLength,
         Number, InOrder
<1> QED
  BY <1>1 DEF Whole, Fits, Stripped, From, LengthFieldOffset, LengthFieldEndOffset,
              LengthFieldLength, LengthAdjustment, InitialBytesToStrip, MaxFrameLength

\* What has been sent and returned stays: so does a frame that is too long.
LEMMA Kept ==
  ASSUME FrameInv, lf' = lf, sent' \in Seq(Seq(Nat)), Len(sent) <= Len(sent'),
         \A i \in 1..Len(sent) : sent'[i] = sent[i],
         Len(out') \in Nat, Len(out) <= Len(out')
  PROVE  /\ \A i \in 1..Len(sent) : Regular(i)' = Regular(i)
         /\ Lost => Lost'
<1>1. sent \in Seq(Seq(Nat)) /\ Len(sent) \in Nat /\ Len(sent') \in Nat /\ Len(out) \in Nat
      /\ DOMAIN sent = 1..Len(sent) /\ DOMAIN sent' = 1..Len(sent')
  BY DEF FrameInv
<1>2. \A i \in 1..Len(sent) : Fits(sent[i])' <=> Fits(sent[i])
  BY SameField DEF Fits, MaxFrameLength
<1>3. ASSUME NEW i \in 1..Len(sent) PROVE Regular(i)' = Regular(i)
  <2>1. \A j \in 1..i : j \in 1..Len(sent)
    BY <1>1
  <2> QED
    BY <1>2, <2>1 DEF Regular
<1>4. ASSUME Lost PROVE Lost'
  <2>1. PICK b \in DOMAIN sent : ~Fits(sent[b]) /\ b <= Len(out) + 1
    BY <1>4 DEF Lost
  <2>2. b \in DOMAIN sent' /\ b <= Len(out') + 1
    BY <1>1, <2>1
  <2>3. ~Fits(sent[b])'
    BY <1>1, <1>2, <2>1
  <2> QED
    BY <2>2, <2>3 DEF Lost
<1> QED
  BY <1>3, <1>4

LEMMA Associative ==
  ASSUME NEW s \in Seq(Nat), NEW t \in Seq(Nat), NEW u \in Seq(Nat)
  PROVE  (s \o t) \o u = s \o (t \o u)
OBVIOUS

LEMMA WithNothing ==
  ASSUME NEW s \in Seq(Nat)
  PROVE  <<>> \o s = s /\ s \o <<>> = s
OBVIOUS

\* The peer sends a whole frame.
LEMMA SendsInv ==
  ASSUME FrameInv, NEW f, Whole(f), SendFrame(f)
  PROVE  FrameInv' /\ (OnTrack => OnTrack')
<1>1. lf' = lf /\ sent' = Append(sent, f) /\ net' = net \o f /\ in' = in /\ out' = out
      /\ pc' = pc /\ discardingTooLongFrame' = discardingTooLongFrame
      /\ bytesToDiscard' = bytesToDiscard
  BY DEF SendFrame, mode
<1>2. f \in Seq(Nat) /\ Len(f) \in Nat \ {0}
  BY FieldNumbers DEF Whole, FrameInv
<1>3. /\ sent \in Seq(Seq(Nat)) /\ net \in Seq(Nat) /\ Len(out) \in Nat
      /\ lf \in LengthFields /\ (\E S : out \in Seq(S))
  BY DEF FrameInv
<1>4. /\ sent' \in Seq(Seq(Nat)) /\ Len(sent') = Len(sent) + 1 /\ Len(sent) \in Nat
      /\ DOMAIN sent = 1..Len(sent) /\ DOMAIN sent' = 1..(Len(sent) + 1)
      /\ (\A i \in 1..Len(sent) : sent'[i] = sent[i]) /\ sent'[Len(sent) + 1] = f
  BY <1>1, <1>2, <1>3, Longer
<1>5. net' \in Seq(Nat)
  BY <1>1, <1>2, <1>3, Joined
<1>6. ASSUME NEW i \in DOMAIN sent' PROVE Whole(sent[i])'
  <2>1. CASE i \in 1..Len(sent)
    <3>1. Whole(sent[i])
      BY <1>4, <2>1 DEF FrameInv
    <3> QED
      BY <1>1, <1>4, <2>1, <3>1, SameField
  <2>2. CASE i = Len(sent) + 1
    BY <1>1, <1>4, <2>2, SameField
  <2> QED
    BY <1>4, <2>1, <2>2
<1>7. (\A i \in 1..Len(sent) : Regular(i)' = Regular(i)) /\ (Lost => Lost')
  BY <1>1, <1>3, <1>4, Kept
<1>8. ASSUME NEW r, Streams(r), Reading(r) PROVE \E q : Streams(q)' /\ Reading(q)'
  <2> DEFINE n == Len(sent)
  <2> PICK q : q = [i \in 0..(n + 1) |-> IF i = n + 1 THEN <<>> ELSE r[i] \o f]
    OBVIOUS
  <2>1. r \in [0..n -> Seq(Nat)] /\ r[n] = <<>> /\ n \in Nat
        /\ \A i \in 1..n : r[i - 1] = sent[i] \o r[i]
    BY <1>4, <1>8 DEF Streams
  <2>2. \A i \in 0..n : r[i] \in Seq(Nat) /\ r[i] \o f \in Seq(Nat)
    <3>1. \A i \in 0..n : r[i] \in Seq(Nat)
      BY <2>1
    <3> QED
      BY <1>2, <3>1, Joined
  <2>3. \A i \in 0..n : q[i] = r[i] \o f
    BY <2>1
  <2>4. q[n + 1] = <<>>
    BY <2>1
  <2>5. q \in [0..(n + 1) -> Seq(Nat)]
    BY <2>1, <2>2
  <2>6. ASSUME NEW i \in 1..(n + 1) PROVE q[i - 1] = sent'[i] \o q[i]
    <3>1. CASE i = n + 1
      <4>1. q[i - 1] = f
        <5>1. i - 1 = n /\ n \in 0..n
          BY <2>1, <3>1
        <5>2. q[n] = <<>> \o f
          BY <2>1, <2>3, <5>1
        <5> QED
          BY <1>2, <5>1, <5>2, WithNothing
      <4>2. sent'[i] = f /\ q[i] = <<>>
        BY <1>4, <2>4, <3>1
      <4> QED
        BY <1>2, <4>1, <4>2, WithNothing
    <3>2. CASE i # n + 1
      <4>1. i \in 1..n /\ i \in 0..n /\ i - 1 \in 0..n
        BY <2>1, <3>2
      <4>2. q[i - 1] = (sent[i] \o r[i]) \o f
        BY <2>1, <2>3, <4>1
      <4>3. sent[i] \in Seq(Nat) /\ r[i] \in Seq(Nat)
        BY <1>3, <2>2, <4>1
      <4>4. (sent[i] \o r[i]) \o f = sent[i] \o (r[i] \o f)
        BY <1>2, <4>3, Associative
      <4> QED
        BY <1>4, <2>3, <4>1, <4>2, <4>4
    <3> QED
      BY <3>1, <3>2
  <2>7. Streams(q)'
    BY <1>4, <2>4, <2>5, <2>6 DEF Streams
  <2>8. Len(out) \in 0..n /\ in \in Seq(Nat) /\ Regular(Len(out)) /\ in \o net = r[Len(out)]
        /\ ~discardingTooLongFrame /\ bytesToDiscard = 0
    BY <1>3, <1>4, <1>8 DEF Reading
  <2>9. in' \o net' = q[Len(out')]
    <3>1. in \o (net \o f) = (in \o net) \o f
      BY <1>2, <1>3, <2>8, Associative
    <3> QED
      BY <1>1, <2>3, <2>8, <3>1
  <2>10. Regular(Len(out))'
    <3>1. ASSUME NEW j \in 1..Len(out) PROVE Fits(sent[j])'
      <4>1. j \in 1..n /\ Fits(sent[j])
        BY <1>3, <2>1, <2>8, <3>1 DEF Regular
      <4> QED
        BY <1>1, <1>4, <4>1, SameField
    <3> QED
      BY <1>1, <3>1 DEF Regular
  <2>11. ASSUME pc' = "idle", Len(out') < Len(sent')
         PROVE  Len(in') < Len(sent'[Len(out') + 1])
    <3>1. CASE Len(out) = n
      <4>1. in \o net = <<>>
        BY <2>1, <2>8, <3>1
      <4>2. Len(in) = 0
        BY <1>3, <2>8, <4>1, Joined
      <4> QED
        BY <1>1, <1>2, <1>4, <3>1, <4>2
    <3>2. CASE Len(out) # n
      <4>1. Len(out) + 1 \in 1..n /\ Len(out) < Len(sent)
        BY <2>1, <2>8, <3>2
      <4>2. Len(in) < Len(sent[Len(out) + 1])
        BY <1>1, <1>8, <2>11, <4>1 DEF Reading
      <4> QED
        BY <1>1, <1>4, <4>1, <4>2
    <3> QED
      BY <3>1, <3>2
  <2>12. Reading(q)'
    <3>1. ~discardingTooLongFrame' /\ bytesToDiscard' = 0 /\ in' \in Seq(Nat)
          /\ Len(out') <= Len(sent')
      BY <1>1, <1>4, <2>1, <2>8
    <3> QED
      BY <2>9, <2>10, <2>11, <3>1 DEF Reading
  <2> QED
    BY <2>7, <2>12
<1>9. Returned'
  <2> SUFFICES ASSUME NEW i \in DOMAIN sent', i <= Len(out'), Regular(i)'
               PROVE  out'[i] = Stripped(sent[i])'
    BY DEF Returned
  <2>1. CASE i = Len(sent) + 1
    \* More is returned than had been sent: only when the decoder is lost.
    <3>1. PICK b \in DOMAIN sent : ~Fits(sent[b])
      <4>1. ~(\E r : Reading(r))
        BY <1>1, <1>3, <1>4, <2>1 DEF Reading
      <4> QED
        BY <4>1 DEF FrameInv, OnTrack, Lost
    <3>2. b \in 1..i /\ ~Fits(sent[b])'
      BY <1>1, <1>4, <2>1, <3>1, SameField
    <3> QED
      BY <3>2 DEF Regular
  <2>2. CASE i \in 1..Len(sent)
    <3>1. out[i] = Stripped(sent[i])
      BY <1>1, <1>4, <1>7, <2>2 DEF FrameInv, Returned
    <3> QED
      BY <1>1, <1>4, <2>2, <3>1, SameField
  <2> QED
    BY <1>4, <2>1, <2>2
<1>10. (OnTrack => OnTrack') /\ (Lost' \/ OnTrack')
  BY <1>7, <1>8 DEF FrameInv, OnTrack
<1> QED
  BY <1>1, <1>3, <1>4, <1>5, <1>6, <1>9, <1>10 DEF FrameInv

\* The bytes read and the bytes still on their way.
LEMMA Cut ==
  ASSUME NEW s \in Seq(Nat), NEW n \in 1..Len(s)
  PROVE  /\ SubSeq(s, 1, n) \in Seq(Nat) /\ From(s, n + 1) \in Seq(Nat)
         /\ SubSeq(s, 1, n) \o From(s, n + 1) = s
<1> DEFINE u == SubSeq(s, 1, n)  v == SubSeq(s, n + 1, Len(s))
<1>1. Len(s) \in Nat /\ n \in Nat /\ n <= Len(s)
  OBVIOUS
<1>2. u \in Seq(Nat) /\ Len(u) = n /\ \A i \in 1..n : u[i] = s[i]
  BY <1>1, Piece DEF IsPiece
<1>3. v \in Seq(Nat) /\ Len(v) = Len(s) - n /\ \A i \in 1..(Len(s) - n) : v[i] = s[n + i]
  <2>1. IsPiece(v, s, n + 1, Len(s))
    BY <1>1, Piece
  <2>2. Len(s) - (n + 1) + 1 = Len(s) - n
        /\ \A i \in 1..(Len(s) - n) : (n + 1) + i - 1 = n + i
    BY <1>1
  <2> HIDE DEF v
  <2> QED
    BY <2>1, <2>2 DEF IsPiece
<1> HIDE DEF u, v
<1>4. u \o v \in Seq(Nat) /\ Len(u \o v) = Len(s)
  <2>1. u \o v \in Seq(Nat) /\ Len(u \o v) = Len(u) + Len(v)
    BY <1>2, <1>3, Joined
  <2> QED
    BY <1>1, <1>2, <1>3, <2>1
<1>5. ASSUME NEW i \in 1..Len(s) PROVE (u \o v)[i] = s[i]
  <2>1. CASE i <= n
    BY <1>1, <1>2, <1>3, <2>1, Joined
  <2>2. CASE i > n
    <3> PICK j \in 1..(Len(s) - n) : i = n + j
      <4>1. i - n \in 1..(Len(s) - n) /\ i = n + (i - n)
        BY <1>1, <2>2
      <4> QED
        BY <4>1
    <3>1. (u \o v)[Len(u) + j] = v[j]
      <4>1. j \in 1..Len(v)
        BY <1>3
      <4> QED
        BY <1>2, <1>3, <4>1, Joined
    <3> QED
      BY <1>2, <1>3, <3>1
  <2>3. i <= n \/ i > n
    BY <1>1
  <2> QED
    BY <2>1, <2>2, <2>3, Zenon
<1>6. u \o v = s
  BY <1>1, <1>4, <1>5, Same
<1> QED
  BY <1>2, <1>3, <1>6 DEF From, u, v

\* What the frames sent and returned are does not depend on the bytes.
LEMMA SameFrames ==
  ASSUME FrameInv, lf' = lf, sent' = sent, out' = out
  PROVE  /\ lf' \in LengthFields /\ sent' \in Seq(Seq(Nat))
         /\ (\E S : out' \in Seq(S)) /\ (\A i \in DOMAIN sent' : Whole(sent[i])')
         /\ Returned' /\ (Lost => Lost') /\ (Regular(Len(out)) => Regular(Len(out))')
         /\ \A r : Streams(r) => Streams(r)'
<1>1. \A i \in DOMAIN sent' : Whole(sent[i])'
  BY SameField DEF FrameInv
<1>2. \A i : Fits(sent[i])' = Fits(sent[i]) /\ Stripped(sent[i])' = Stripped(sent[i])
  BY SameField
<1>3. \A i : Regular(i)' = Regular(i)
  BY <1>2 DEF Regular
<1>4. Returned'
  BY <1>2, <1>3 DEF FrameInv, Returned
<1>5. Lost => Lost'
  BY <1>2 DEF Lost
<1>6. \A r : Streams(r) => Streams(r)'
  BY DEF Streams
<1>7. Regular(Len(out)) => Regular(Len(out))'
  BY <1>2 DEF Regular
<1> QED
  BY <1>1, <1>4, <1>5, <1>6, <1>7 DEF FrameInv

LEMMA ReceivesInv ==
  ASSUME FrameInv, NEW n \in 1..Len(net), Receive(n)
  PROVE  FrameInv'
<1>1. lf' = lf /\ sent' = sent /\ out' = out /\ pc' = "loop"
      /\ in' = in \o SubSeq(net, 1, n) /\ net' = From(net, n + 1)
      /\ discardingTooLongFrame' = discardingTooLongFrame /\ bytesToDiscard' = bytesToDiscard
  BY DEF Receive, mode
<1>2. net \in Seq(Nat)
  BY DEF FrameInv
<1>3. SubSeq(net, 1, n) \in Seq(Nat) /\ net' \in Seq(Nat) /\ SubSeq(net, 1, n) \o net' = net
  BY <1>1, <1>2, Cut
<1>4. ASSUME NEW r, Streams(r), Reading(r) PROVE Streams(r)' /\ Reading(r)'
  <2>1. in \in Seq(Nat) /\ in \o net = r[Len(out)]
    BY <1>4 DEF Reading
  <2>2. in' \in Seq(Nat)
    BY <1>1, <1>3, <2>1, Joined
  <2>3. in' \o net' = r[Len(out')]
    <3> DEFINE s == SubSeq(net, 1, n)
    <3> HIDE DEF s
    <3>1. s \in Seq(Nat) /\ s \o net' = net
      BY <1>3 DEF s
    <3>2. (in \o s) \o net' = in \o (s \o net')
      BY <1>3, <2>1, <3>1, Associative
    <3> QED
      BY <1>1, <2>1, <3>1, <3>2 DEF s
  <2>4. Streams(r)' /\ Regular(Len(out))'
    BY <1>1, <1>4, SameFrames DEF Reading
  <2>5. pc' # "idle"
    BY <1>1
  <2> QED
    BY <1>1, <1>4, <2>2, <2>3, <2>4, <2>5 DEF Reading
<1>5. Lost' \/ \E r : Streams(r)' /\ Reading(r)'
  BY <1>1, <1>4, SameFrames DEF FrameInv, OnTrack
<1> QED
  BY <1>1, <1>3, <1>5, SameFrames DEF FrameInv, OnTrack

LEMMA NothingToDiscard ==
  ASSUME NEW n, FailIfNecessary(n, ToDiscard), ToDiscard = 0
  PROVE  bytesToDiscard' = 0 /\ ~discardingTooLongFrame'
<1>1. bytesToDiscard' = ToDiscard /\ discardingTooLongFrame' = (ToDiscard > 0)
  BY DEF FailIfNecessary
<1>2. ~(ToDiscard > 0)
  OBVIOUS
<1> QED
  BY <1>1, <1>2

\* Nothing is decoded: the decoder waits for more, or the frame is too long.
LEMMA WaitsInv ==
  ASSUME FrameInv, Incomplete \/ ExceededFrameLength
  PROVE  FrameInv'
<1>1. lf' = lf /\ sent' = sent /\ out' = out /\ pc' = "idle" /\ in' = in /\ net' = net
  BY DEF Incomplete, ExceededFrameLength
<1>2. Len(out) \in Nat /\ Len(sent) \in Nat /\ DOMAIN sent = 1..Len(sent)
  BY DEF FrameInv
<1>3. ASSUME NEW r, Streams(r), Reading(r), Incomplete PROVE Streams(r)' /\ Reading(r)'
  <2>1. Readable = in /\ ToDiscard = 0
    BY <1>3, NextFrame
  <2>2. bytesToDiscard' = 0 /\ ~discardingTooLongFrame'
    <3>1. FailIfNecessary(tooLongFrameLength, ToDiscard)
      BY <1>3 DEF Incomplete
    <3> QED
      BY <2>1, <3>1, NothingToDiscard
  <2>3. ASSUME Len(out) < Len(sent) PROVE Len(in) < Len(sent[Len(out) + 1])
    <3> DEFINE f == sent[Len(out) + 1]
    <3>1. Whole(f) /\ (HasHeader => FrameLength = Len(f))
      BY <1>3, <2>3, NextFrame
    <3> HIDE DEF f
    <3>2. Len(f) \in Nat /\ Len(f) >= LengthFieldEndOffset /\ LengthFieldEndOffset \in Nat
      BY <3>1, FieldNumbers DEF Whole, FrameInv
    <3>3. Len(in) \in Nat
      BY <1>3 DEF Reading
    <3>4. CASE HasHeader
      BY <1>3, <2>1, <3>1, <3>4 DEF Incomplete, f
    <3>5. CASE ~HasHeader
      <4>1. Len(in) < LengthFieldEndOffset
        BY <2>1, <3>2, <3>3, <3>5 DEF HasHeader
      <4> QED
        BY <3>2, <3>3, <4>1 DEF f
    <3> QED
      BY <3>4, <3>5
  <2>4. Streams(r)' /\ Regular(Len(out))'
    BY <1>1, <1>3, SameFrames DEF Reading
  <2> QED
    BY <1>1, <1>3, <2>2, <2>3, <2>4 DEF Reading
<1>4. ASSUME NEW r, Streams(r), Reading(r), ExceededFrameLength PROVE Lost
  <2>1. HasHeader /\ FrameLength > MaxFrameLength
    BY <1>4 DEF ExceededFrameLength, TooLong
  <2>2. Len(out) < Len(sent)
    <3>1. Len(out) # Len(sent)
      BY <1>4, <2>1, NextFrame
    <3>2. Len(out) <= Len(sent)
      BY <1>4 DEF Reading
    <3> QED
      BY <1>2, <3>1, <3>2
  <2>3. Len(out) + 1 \in DOMAIN sent /\ Len(sent[Len(out) + 1]) > MaxFrameLength
    BY <1>2, <1>4, <2>1, <2>2, NextFrame
  <2>4. Len(sent[Len(out) + 1]) \in Nat /\ MaxFrameLength \in Nat
    BY <2>3, FieldNumbers DEF FrameInv, Whole
  <2> QED
    BY <1>2, <2>3, <2>4 DEF Lost, Fits
<1>5. Lost' \/ \E r : Streams(r)' /\ Reading(r)'
  BY <1>1, <1>3, <1>4, SameFrames DEF FrameInv, OnTrack
<1>6. net' \in Seq(Nat)
  BY <1>1 DEF FrameInv
<1> QED
  BY <1>1, <1>5, <1>6, SameFrames DEF FrameInv, OnTrack

LEMMA RestIn ==
  \A f, g : in \in Seq(Nat) /\ net \in Seq(Nat) /\ f \in Seq(Nat) /\ g \in Seq(Nat)
            /\ in \o net = f \o g /\ Len(f) <= Len(in)
            => From(in, Len(f) + 1) \in Seq(Nat) /\ From(in, Len(f) + 1) \o net = g
BY RestOf, Zenon

\* A frame is decoded.
LEMMA DecodesInv ==
  ASSUME FrameInv, DecodeFrame
  PROVE  FrameInv' /\ (OnTrack => OnTrack')
<1> DEFINE m == Len(out)
           e == SubSeq(Readable, InitialBytesToStrip + 1, FrameLength)
<1>1. lf' = lf /\ sent' = sent /\ net' = net /\ pc' = pc /\ out' = Append(out, e)
      /\ in' = From(in, FrameLength + 1) /\ pc = "loop"
      /\ HasHeader /\ ~TooLong /\ Len(Readable) >= FrameLength
  BY DEF DecodeFrame, Complete
<1>2. /\ sent \in Seq(Seq(Nat)) /\ Len(sent) \in Nat /\ DOMAIN sent = 1..Len(sent)
      /\ net \in Seq(Nat) /\ lf \in LengthFields
  BY DEF FrameInv
<1> HIDE DEF e
<1>3. /\ (\E S : out' \in Seq(S)) /\ Len(out') = m + 1 /\ m \in Nat
      /\ (\A i \in 1..m : out'[i] = out[i]) /\ out'[m + 1] = e
  <2> PICK S : out \in Seq(S)
    BY DEF FrameInv
  <2>1. /\ Append(out, e) \in Seq(S \cup {e}) /\ Len(Append(out, e)) = Len(out) + 1
        /\ Len(out) \in Nat
        /\ \A i \in 1..Len(out) : Append(out, e)[i] = out[i]
        /\ Append(out, e)[Len(out) + 1] = e
    BY Longer
  <2>2. \E T : out' \in Seq(T)
    BY <1>1, <2>1
  <2> QED
    BY <1>1, <2>1, <2>2
<1>4. /\ (\A i \in 1..Len(sent) : Regular(i)' = Regular(i)) /\ (Lost => Lost')
  BY <1>1, <1>2, <1>3, Kept
<1>5. \A i \in DOMAIN sent' : Whole(sent[i])'
  BY <1>1, SameField DEF FrameInv
<1>6. \A i : Stripped(sent[i])' = Stripped(sent[i])
  BY <1>1, SameField
<1>7. ASSUME Lost PROVE Returned'
  <2> SUFFICES ASSUME NEW i \in 1..Len(sent), i <= m + 1, Regular(i)
               PROVE  out'[i] = Stripped(sent[i])
    BY <1>1, <1>2, <1>3, <1>4, <1>6 DEF Returned
  <2>1. PICK b \in 1..Len(sent) : ~Fits(sent[b]) /\ b <= m + 1
    BY <1>2, <1>7 DEF Lost
  <2>2. ~(b \in 1..i)
    BY <2>1 DEF Regular
  <2>3. i <= m
    BY <1>2, <1>3, <2>1, <2>2
  <2>4. out[i] = Stripped(sent[i])
    BY <1>2, <2>3 DEF FrameInv, Returned
  <2>5. i \in 1..m
    BY <1>2, <1>3, <2>3
  <2> QED
    BY <1>3, <2>4, <2>5
<1>8. ASSUME NEW r, Streams(r), Reading(r) PROVE Returned' /\ Streams(r)' /\ Reading(r)'
  <2>1. Readable = in /\ ToDiscard = 0 /\ m < Len(sent)
    <3>1. Readable = in /\ ToDiscard = 0 /\ m # Len(sent)
      BY <1>1, <1>8, NextFrame
    <3>2. m <= Len(sent)
      BY <1>8 DEF Reading
    <3> QED
      BY <1>2, <1>3, <3>1, <3>2
  <2> PICK f : f = sent[m + 1]
    OBVIOUS
  <2> PICK g : g = r[m + 1]
    OBVIOUS
  <2>2. /\ m + 1 \in 1..Len(sent) /\ Whole(f) /\ in \o net = f \o g /\ g \in Seq(Nat)
        /\ FrameLength = Len(f)
    BY <1>1, <1>8, <2>1, NextFrame
  <2>3. /\ f \in Seq(Nat) /\ Len(f) \in Nat /\ in \in Seq(Nat) /\ Len(in) \in Nat
        /\ Len(f) <= Len(in) /\ Len(f) <= MaxFrameLength
    <3>1. f \in Seq(Nat) /\ in \in Seq(Nat) /\ MaxFrameLength \in Nat
      BY <1>8, <2>2, FieldNumbers DEF Whole, Reading, FrameInv
    <3>2. Len(f) \in Nat /\ Len(in) \in Nat
      BY <3>1
    <3> QED
      BY <1>1, <2>1, <2>2, <3>1, <3>2 DEF TooLong
  <2>4. bytesToDiscard' = 0 /\ ~discardingTooLongFrame'
    <3>1. FailIfNecessary(tooLongFrameLength, ToDiscard)
      BY DEF DecodeFrame
    <3> QED
      BY <2>1, <3>1, NothingToDiscard
  <2>5. e = Stripped(f)
    <3> DEFINE a == InitialBytesToStrip + 1
    <3>1. a \in Nat \ {0} /\ a <= Len(f) + 1
      <4>1. InitialBytesToStrip <= Len(f) /\ InitialBytesToStrip \in Nat
        BY <1>2, <2>2, StripFits, FieldNumbers
      <4> QED
        BY <2>3, <4>1
    <3> HIDE DEF a
    <3>2. \A i \in 1..Len(in) : i <= Len(f) => in[i] = f[i]
      BY <1>2, <2>2, <2>3, SameHead
    <3>3. \A i \in 1..Len(f) : i \in 1..Len(in) /\ i <= Len(f)
      BY <2>3
    <3>4. \A i \in 1..Len(f) : in[i] = f[i]
      BY <3>2, <3>3, Zenon
    <3>5. SubSeq(in, a, Len(f)) = SubSeq(f, a, Len(f))
      BY <2>3, <3>1, <3>4, SamePiece
    <3> QED
      BY <2>1, <2>2, <3>5 DEF e, a, Stripped, From
  <2>6. in' \in Seq(Nat) /\ in' \o net' = g
    <3>1. in' = From(in, Len(f) + 1)
      BY <1>1, <2>2
    <3>2. From(in, Len(f) + 1) \in Seq(Nat) /\ From(in, Len(f) + 1) \o net = g
      <4>1. in \in Seq(Nat) /\ net \in Seq(Nat) /\ f \in Seq(Nat) /\ g \in Seq(Nat)
        BY <1>2, <2>2, <2>3
      <4>2. in \o net = f \o g
        BY <2>2
      <4>3. Len(f) <= Len(in)
        BY <2>3
      <4> QED
        BY <4>1, <4>2, <4>3, RestIn, Zenon
    <3> QED
      BY <1>1, <3>1, <3>2
  <2>7. Streams(r)'
    BY <1>1, <1>8 DEF Streams
  <2>8. Regular(m + 1)
    <3> SUFFICES ASSUME NEW j \in 1..(m + 1) PROVE Fits(sent[j])
      BY DEF Regular
    <3>1. CASE j = m + 1
      BY <2>3, <3>1 DEF Fits
    <3>2. CASE j # m + 1
      <4>1. j \in 1..m
        BY <1>3, <3>2
      <4> QED
        BY <1>8, <4>1 DEF Reading, Regular
    <3> QED
      BY <3>1, <3>2
  <2>9. Returned'
    <3> SUFFICES ASSUME NEW i \in 1..Len(sent), i <= m + 1, Regular(i)
                 PROVE  out'[i] = Stripped(sent[i])
      BY <1>1, <1>2, <1>3, <1>4, <1>6 DEF Returned
    <3>1. CASE i = m + 1
      BY <1>3, <2>5, <3>1
    <3>2. CASE i # m + 1
      <4>1. i \in 1..m /\ i <= m
        BY <1>3, <3>2
      <4>2. out[i] = Stripped(sent[i])
        BY <1>2, <4>1 DEF FrameInv, Returned
      <4> QED
        BY <1>3, <4>1, <4>2
    <3> QED
      BY <3>1, <3>2
  <2>10. Reading(r)'
    <3>1. Regular(Len(out))'
      <4>1. \A i : Fits(sent[i])' = Fits(sent[i])
        BY <1>1, SameField
      <4> QED
        BY <1>3, <2>8, <4>1 DEF Regular
    <3>2. ~(pc' = "idle")
      BY <1>1
    <3>3. Len(out') <= Len(sent') /\ g = r[Len(out')]
      BY <1>1, <1>2, <1>3, <2>1
    <3> QED
      BY <2>4, <2>6, <3>1, <3>2, <3>3 DEF Reading
  <2> QED
    BY <2>7, <2>9, <2>10
<1>9. Returned' /\ (Lost' \/ OnTrack') /\ (OnTrack => OnTrack')
  BY <1>4, <1>7, <1>8 DEF FrameInv, OnTrack
<1> QED
  BY <1>1, <1>2, <1>3, <1>5, <1>9 DEF FrameInv

\* Decode fails: only behind a frame that was too long.
LEMMA FailsInv ==
  ASSUME FrameInv, DecodeFails
  PROVE  FrameInv' /\ ~OnTrack
<1>1. lf' = lf /\ sent' = sent /\ net' = net /\ out' = out /\ HasHeader /\ ~Taken
  BY DEF DecodeFails, Complete
<1>2. ASSUME NEW r, Streams(r), Reading(r) PROVE FALSE
  <2>1. Len(out) < Len(sent)
    <3>1. Len(out) # Len(sent)
      BY <1>1, <1>2, NextFrame
    <3>2. Len(out) <= Len(sent) /\ Len(out) \in Nat /\ Len(sent) \in Nat
      BY <1>2 DEF Reading, FrameInv
    <3> QED
      BY <3>1, <3>2
  <2>2. /\ Whole(sent[Len(out) + 1])
        /\ FrameLength = Len(sent[Len(out) + 1])
    BY <1>1, <1>2, <2>1, NextFrame
  <2>3. InitialBytesToStrip <= FrameLength /\ FrameLength > 0
    BY <2>2, StripFits DEF FrameInv
  <2>4. InitialBytesToStrip \in Nat /\ FrameLength \in Nat
    BY <2>2, FieldNumbers DEF FrameInv, Whole
  <2> QED
    BY <1>1, <2>3, <2>4 DEF Taken
<1>3. ~OnTrack
  BY <1>2 DEF OnTrack
<1>4. Lost' /\ net' \in Seq(Nat)
  BY <1>1, <1>3, SameFrames DEF FrameInv
<1> QED
  BY <1>1, <1>3, <1>4, SameFrames DEF FrameInv

LEMMA NothingInv ==
  ASSUME FrameInv, UNCHANGED fdvars
  PROVE  FrameInv' /\ (OnTrack => OnTrack')
<1>1. lf' = lf /\ sent' = sent /\ net' = net /\ in' = in /\ out' = out /\ pc' = pc
      /\ discardingTooLongFrame' = discardingTooLongFrame /\ bytesToDiscard' = bytesToDiscard
  BY DEF fdvars, mode
<1>2. \A r : Reading(r) => Reading(r)'
  BY <1>1, SameFrames DEF Reading
<1>3. OnTrack => OnTrack'
  BY <1>1, <1>2, SameFrames DEF OnTrack
<1> QED
  BY <1>1, <1>3, SameFrames DEF FrameInv

LEMMA NotShorter ==
  ASSUME NEW s \in Seq(Nat), NEW t \in Seq(Nat), NEW f \in Seq(Nat), NEW g \in Seq(Nat),
         s \o t = f \o g, Len(t) = 0
  PROVE  ~(Len(s) < Len(f))
<1>1. Len(s \o t) = Len(s) + Len(t) /\ Len(f \o g) = Len(f) + Len(g)
  BY Joined
<1>2. Len(s) \in Nat /\ Len(f) \in Nat /\ Len(g) \in Nat
  OBVIOUS
<1> QED
  BY <1>1, <1>2

\* A frame that is not held back (see NothingHeldBack).
LEMMA NoneHeldBack == FrameInv => NothingHeldBack
<1> SUFFICES ASSUME FrameInv, net = <<>>, pc = "idle", NEW i \in DOMAIN sent, Regular(i)
             PROVE  i <= Len(out)
  BY DEF NothingHeldBack
<1>1. Len(sent) \in Nat /\ DOMAIN sent = 1..Len(sent) /\ Len(out) \in Nat
  BY DEF FrameInv
<1>2. CASE Lost
  BY <1>1, <1>2 DEF Lost, Regular
<1>3. ASSUME NEW r, Streams(r), Reading(r) PROVE i <= Len(out)
  <2> SUFFICES ASSUME Len(out) < Len(sent) PROVE FALSE
    BY <1>1
  <2> PICK f : f = sent[Len(out) + 1]
    OBVIOUS
  <2> PICK g : g = r[Len(out) + 1]
    OBVIOUS
  <2>1. Whole(f) /\ in \o net = f \o g /\ g \in Seq(Nat)
    BY <1>3, NextFrame
  <2>2. in \in Seq(Nat) /\ net \in Seq(Nat) /\ f \in Seq(Nat) /\ Len(in) < Len(f)
    BY <1>3, <2>1 DEF Reading, FrameInv, Whole
  <2>3. Len(net) = 0 /\ Len(in) \in Nat /\ Len(f) \in Nat
    BY <2>2
  <2> QED
    BY <2>1, <2>2, <2>3, NotShorter
<1> QED
  BY <1>2, <1>3 DEF FrameInv, OnTrack
-----------------------------------------------------------------------------
(* The frames the peer makes                                                *)

LEMMA WordNumbers ==
  /\ Word \in Nat \ {0} /\ HeaderLen = Word + Word /\ HeaderLen \in Nat \ {0}
  /\ Uint \in Nat \ {0} /\ Uint = Power[Word] /\ Radix \in Nat /\ MaxFrames \in Nat
  /\ Radix + MaxFrames + 1 < Uint
<1>1. Word \in Nat \ {0} /\ Radix \in Nat /\ MaxFrames \in Nat /\ Radix + MaxFrames + 1 < Uint
  BY CodecAssumption, FrameDecoderAssumption
<1>2. Power[Word] \in Nat \ {0}
  BY <1>1, PowerFacts
<1> QED
  BY <1>1, <1>2 DEF HeaderLen, Uint

LEMMA SmallMod ==
  \A b \in Nat \ {0} : \A a \in 0..(b - 1) : a % b = a
<1> SUFFICES ASSUME NEW b \in Nat \ {0}, NEW a \in 0..(b - 1) PROVE a % b = a
  OBVIOUS
<1>1. (0 * b + a) % b = a
  BY DivUnique
<1>2. 0 * b + a = a
  OBVIOUS
<1> QED
  BY <1>1, <1>2

\* A frame of another framing is whole.
LEMMA FrameIsWhole ==
  ASSUME lf \in LengthFields, NEW f \in Nat, NEW n \in Bodies, HasLength(n)
  PROVE  Whole(Frame(f, n))
<1> DEFINE fill(k) == [i \in 1..k |-> f % Radix]
           v == n - LengthAdjustment
<1>1. /\ LengthFieldOffset \in Nat /\ LengthFieldLength \in Nat /\ LengthAdjustment \in Int
      /\ n \in Nat
  BY FieldNumbers, FrameDecoderAssumption
<1>2. v \in 0..(Power[LengthFieldLength] - 1) /\ v \in Nat
  <2>1. v \in 0..(Power[LengthFieldLength] - 1)
    BY DEF HasLength
  <2>2. Power[LengthFieldLength] \in Nat
    BY <1>1, PowerFacts
  <2> QED
    BY <2>1, <2>2
<1>3. \A k \in Nat : fill(k) \in Seq(Nat) /\ Len(fill(k)) = k
  <2>1. f % Radix \in Nat
    BY FrameDecoderAssumption, DivRange
  <2> QED
    BY <2>1
<1> PICK a : a = fill(LengthFieldOffset)
  OBVIOUS
<1> PICK b : b = Bytes(v, LengthFieldLength)
  OBVIOUS
<1> PICK c : c = fill(n)
  OBVIOUS
<1>4. a \in Seq(Nat) /\ Len(a) = LengthFieldOffset /\ c \in Seq(Nat) /\ Len(c) = n
  BY <1>1, <1>3
<1>5. b \in Seq(Nat) /\ Len(b) = LengthFieldLength
  BY <1>1, <1>2, BytesFacts
<1>6. Frame(f, n) = (a \o b) \o c
  BY DEF Frame
<1> PICK s : s = (a \o b) \o c
  OBVIOUS
<1> HIDE DEF fill, v
<1>7. /\ s \in Seq(Nat) /\ Len(s) = LengthFieldEndOffset + n
      /\ SubSeq(s, LengthFieldOffset + 1, LengthFieldEndOffset) = b
  <2>1. Made((a \o b) \o c, a, b, c)
    BY <1>4, <1>5, Parts
  <2>2. Made(s, a, b, c)
    BY <2>1
  <2> QED
    BY <1>4, <1>5, <2>2 DEF LengthFieldEndOffset, Made
<1>8. UnadjustedFrameLength(s) = v
  BY <1>1, <1>2, <1>7, NumberOfBytes DEF UnadjustedFrameLength
<1>9. v + LengthAdjustment + LengthFieldEndOffset = Len(s) /\ Len(s) >= LengthFieldEndOffset
  BY <1>1, <1>7 DEF v, LengthFieldEndOffset
<1> QED
  BY <1>2, <1>6, <1>7, <1>8, <1>9 DEF Whole

LEMMA SameWords ==
  ASSUME NEW s \in Seq(Nat), NEW t \in Seq(Nat), HeaderLen <= Len(s), HeaderLen <= Len(t),
         \A i \in 1..HeaderLen : s[i] = t[i]
  PROVE  /\ SubSeq(s, 1, Word) = SubSeq(t, 1, Word)
         /\ SubSeq(s, Word + 1, HeaderLen) = SubSeq(t, Word + 1, HeaderLen)
<1>1. Word \in Nat \ {0} /\ HeaderLen = Word + Word /\ HeaderLen \in Nat
      /\ Len(s) \in Nat /\ Len(t) \in Nat
  BY WordNumbers
<1>2. SubSeq(s, 1, Word) = SubSeq(t, 1, Word)
  <2>1. Word <= Len(s) /\ Word <= Len(t) /\ 1 <= Word + 1 /\ \A i \in 1..Word : s[i] = t[i]
    BY <1>1
  <2> QED
    BY <1>1, <2>1, SamePiece
<1>3. SubSeq(s, Word + 1, HeaderLen) = SubSeq(t, Word + 1, HeaderLen)
  <2>1. Word + 1 \in Nat \ {0} /\ Word + 1 <= HeaderLen + 1
    BY <1>1
  <2> QED
    BY <1>1, <2>1, SamePiece
<1> QED
  BY <1>2, <1>3

HeadAndData(p, x, y, z) ==
  /\ p \in Seq(Nat) /\ Len(p) = HeaderLen + Len(z)
  /\ SubSeq(p, 1, Word) = x /\ SubSeq(p, Word + 1, HeaderLen) = y
  /\ SubSeq(p, HeaderLen + 1, HeaderLen + Len(z)) = z
  /\ SubSeq(SubSeq(p, 1, HeaderLen), 1, Word) = x
  /\ SubSeq(SubSeq(p, 1, HeaderLen), Word + 1, HeaderLen) = y

\* Two words and what follows them.
LEMMA Heads ==
  ASSUME NEW x \in Seq(Nat), NEW y \in Seq(Nat), NEW z \in Seq(Nat),
         Len(x) = Word, Len(y) = Word
  PROVE  HeadAndData((x \o y) \o z, x, y, z)
<1> PICK p : p = (x \o y) \o z
  OBVIOUS
<1>1. Word \in Nat \ {0} /\ HeaderLen = Word + Word /\ HeaderLen \in Nat \ {0} /\ Len(z) \in Nat
  BY WordNumbers
<1>2. /\ p \in Seq(Nat) /\ Len(p) = HeaderLen + Len(z)
      /\ SubSeq(p, 1, Word) = x /\ SubSeq(p, Word + 1, HeaderLen) = y
      /\ SubSeq(p, HeaderLen + 1, HeaderLen + Len(z)) = z
  <2>1. Made((x \o y) \o z, x, y, z)
    BY Parts
  <2>2. Made(p, x, y, z)
    BY <2>1
  <2> QED
    BY <1>1, <2>2 DEF Made
<1> PICK h : h = SubSeq(p, 1, HeaderLen)
  OBVIOUS
<1>3. h \in Seq(Nat) /\ Len(h) = HeaderLen /\ \A i \in 1..HeaderLen : h[i] = p[i]
  <2>1. HeaderLen <= Len(p) /\ 1 <= HeaderLen + 1 /\ HeaderLen - 1 + 1 = HeaderLen
    BY <1>1, <1>2
  <2>2. IsPiece(h, p, 1, HeaderLen)
    <3>1. p \in Seq(Nat) /\ 1 \in Nat \ {0} /\ HeaderLen \in Nat
      BY <1>1, <1>2
    <3> QED
      BY <2>1, <3>1, Piece
  <2>3. \A i \in 1..HeaderLen : 1 + i - 1 = i
    OBVIOUS
  <2> QED
    BY <2>1, <2>2, <2>3 DEF IsPiece
<1>4. SubSeq(h, 1, Word) = x /\ SubSeq(h, Word + 1, HeaderLen) = y
  <2>1. /\ h \in Seq(Nat) /\ p \in Seq(Nat) /\ HeaderLen <= Len(h) /\ HeaderLen <= Len(p)
        /\ \A i \in 1..HeaderLen : h[i] = p[i]
    BY <1>1, <1>2, <1>3
  <2>2. /\ SubSeq(h, 1, Word) = SubSeq(p, 1, Word)
        /\ SubSeq(h, Word + 1, HeaderLen) = SubSeq(p, Word + 1, HeaderLen)
    BY <2>1, SameWords
  <2> QED
    BY <1>2, <2>2
<1> QED
  BY <1>2, <1>4 DEF HeadAndData

IsWord(n) == n \in 0..(Uint - 1)

\* A message that Pack writes: uint32 fields, and the length of its data.
Packable(m) ==
  /\ m \in [ID : Nat, DataLen : Nat, Data : Seq(Nat)]
  /\ IsWord(m.ID) /\ IsWord(m.DataLen) /\ Len(m.Data) = m.DataLen

\* The fields that Pack writes are the fields that Unpack and decode read, in
\* TLV's order and in LTV's.
LEMMA PackedFields ==
  ASSUME HasDecoder, NEW m, Packable(m), NEW p, p = Pack(m)
  PROVE  /\ p \in Seq(Nat) /\ Len(p) = HeaderLen + m.DataLen
         /\ Tag(p) = m.ID /\ Length(p) = m.DataLen
         /\ Tag(SubSeq(p, 1, HeaderLen)) = m.ID
         /\ Length(SubSeq(p, 1, HeaderLen)) = m.DataLen
         /\ SubSeq(p, HeaderLen + 1, HeaderLen + m.DataLen) = m.Data
         /\ Whole(p)
<1> PICK id : id = Bytes(m.ID, Word)
  OBVIOUS
<1> PICK length : length = Bytes(m.DataLen, Word)
  OBVIOUS
<1> PICK z : z = m.Data
  OBVIOUS
<1>1. Word \in Nat \ {0} /\ HeaderLen = Word + Word /\ HeaderLen \in Nat
      /\ m.ID \in 0..(Power[Word] - 1) /\ m.DataLen \in 0..(Power[Word] - 1)
      /\ m.ID \in Nat /\ m.DataLen \in Nat /\ z \in Seq(Nat) /\ Len(z) = m.DataLen
  BY WordNumbers DEF Packable, IsWord
<1>2. /\ id \in Seq(Nat) /\ Len(id) = Word /\ Number(id) = m.ID
      /\ length \in Seq(Nat) /\ Len(length) = Word /\ Number(length) = m.DataLen
  BY <1>1, BytesFacts, NumberOfBytes
<1>3. CASE lf = TLVField
  <2>1. p = (id \o length) \o z
    BY <1>3 DEF Pack
  <2>2. /\ p \in Seq(Nat) /\ Len(p) = HeaderLen + Len(z)
        /\ SubSeq(p, 1, Word) = id /\ SubSeq(p, Word + 1, HeaderLen) = length
        /\ SubSeq(p, HeaderLen + 1, HeaderLen + Len(z)) = z
        /\ SubSeq(SubSeq(p, 1, HeaderLen), 1, Word) = id
        /\ SubSeq(SubSeq(p, 1, HeaderLen), Word + 1, HeaderLen) = length
    <3>1. HeadAndData((id \o length) \o z, id, length, z)
      BY <1>1, <1>2, Heads
    <3>2. HeadAndData(p, id, length, z)
      BY <2>1, <3>1
    <3> QED
      BY <3>2 DEF HeadAndData
  <2>3. /\ Tag(p) = m.ID /\ Length(p) = m.DataLen
        /\ Tag(SubSeq(p, 1, HeaderLen)) = m.ID
        /\ Length(SubSeq(p, 1, HeaderLen)) = m.DataLen
    BY <1>2, <1>3, <2>2 DEF Tag, Length, First, Second
  <2>4. LengthFieldOffset = Word /\ LengthFieldLength = Word /\ LengthAdjustment = 0
    BY <1>3 DEF TLVField, LengthFieldOffset, LengthFieldLength, LengthAdjustment
  <2>5. LengthFieldEndOffset = HeaderLen
    BY <1>1, <2>4 DEF LengthFieldEndOffset
  <2>6. UnadjustedFrameLength(p) = m.DataLen
    BY <1>2, <2>2, <2>4, <2>5 DEF UnadjustedFrameLength
  <2>7. Whole(p)
    BY <1>1, <2>2, <2>4, <2>5, <2>6 DEF Whole
  <2> QED
    BY <1>1, <2>2, <2>3, <2>7
<1>4. CASE lf = LTVField
  <2>1. lf # TLVField
    BY <1>1, <1>4 DEF TLVField, LTVField
  <2>2. p = (length \o id) \o z
    BY <2>1 DEF Pack
  <2>3. /\ p \in Seq(Nat) /\ Len(p) = HeaderLen + Len(z)
        /\ SubSeq(p, 1, Word) = length /\ SubSeq(p, Word + 1, HeaderLen) = id
        /\ SubSeq(p, HeaderLen + 1, HeaderLen + Len(z)) = z
        /\ SubSeq(SubSeq(p, 1, HeaderLen), 1, Word) = length
        /\ SubSeq(SubSeq(p, 1, HeaderLen), Word + 1, HeaderLen) = id
    <3>1. HeadAndData((length \o id) \o z, length, id, z)
      BY <1>1, <1>2, Heads
    <3>2. HeadAndData(p, length, id, z)
      BY <2>2, <3>1
    <3> QED
      BY <3>2 DEF HeadAndData
  <2>4. /\ Tag(p) = m.ID /\ Length(p) = m.DataLen
        /\ Tag(SubSeq(p, 1, HeaderLen)) = m.ID
        /\ Length(SubSeq(p, 1, HeaderLen)) = m.DataLen
    BY <1>2, <2>1, <2>3 DEF Tag, Length, First, Second
  <2>5. LengthFieldOffset = 0 /\ LengthFieldLength = Word /\ LengthAdjustment = Word
    BY <1>4 DEF LTVField, LengthFieldOffset, LengthFieldLength, LengthAdjustment
  <2>6. LengthFieldEndOffset = Word
    BY <1>1, <2>5 DEF LengthFieldEndOffset
  <2>7. UnadjustedFrameLength(p) = m.DataLen
    <3>1. LengthFieldOffset + 1 = 1
      BY <2>5
    <3> QED
      BY <1>2, <2>3, <2>6, <3>1 DEF UnadjustedFrameLength
  <2>8. Whole(p)
    BY <1>1, <2>3, <2>5, <2>6, <2>7 DEF Whole
  <2> QED
    BY <1>1, <2>3, <2>4, <2>8
<1> QED
  BY <1>3, <1>4 DEF HasDecoder

-----------------------------------------------------------------------------
(* The decoders in the chain                                                *)

\* What the loop over the decoders computes is determined by its steps.
LEMMA ThroughIs ==
  ASSUME decoders \in Nat, NEW m, NEW f,
         f = [k \in 0..decoders |-> IF k = 0 THEN m ELSE Intercept(f[k - 1])]
  PROVE  \A k \in 0..decoders : Through(m)[k] = f[k]
<1> DEFINE Values(g) ==
      g = [k \in 0..decoders |-> IF k = 0 THEN m ELSE Intercept(g[k - 1])]
<1>1. Through(m) = CHOOSE g : Values(g)
  BY DEF Through
<1>2. Values(f)
  OBVIOUS
<1>3. ASSUME NEW g, Values(g), NEW n \in 0..decoders PROVE g[n] = f[n]
  <2> DEFINE S == {i \in Nat : i <= decoders => g[i] = f[i]}
  <2>1. 0 \in S
    BY <1>3
  <2>2. ASSUME NEW i \in Nat, i \in S PROVE i + 1 \in S
    <3> SUFFICES ASSUME i + 1 <= decoders PROVE g[i + 1] = f[i + 1]
      OBVIOUS
    <3>1. i + 1 \in 0..decoders /\ i + 1 # 0 /\ (i + 1) - 1 = i
      OBVIOUS
    <3>2. g[i + 1] = Intercept(g[i])
      BY <1>3, <3>1
    <3>3. f[i + 1] = Intercept(f[i])
      BY <3>1
    <3>4. g[i] = f[i]
      BY <2>2
    <3> QED
      BY <3>2, <3>3, <3>4
  <2> HIDE DEF S, Values
  <2>3. Nat \subseteq S
    BY <2>1, <2>2, SetInduction
  <2>4. \A i \in Nat : i <= decoders => g[i] = f[i]
    BY <2>3, Zenon DEF S
  <2>5. n \in Nat /\ n <= decoders
    OBVIOUS
  <2> QED
    BY <2>4, <2>5, Zenon
<1> HIDE DEF Values
<1>4. Values(CHOOSE g : Values(g))
  BY <1>2
<1>5. Values(Through(m))
  BY <1>1, <1>4
<1> QED
  BY <1>3, <1>5

\* A message that the first decoder makes, and that the others let pass.
LEMMA ThroughTheChain ==
  ASSUME decoders \in Nat \ {0}, NEW m, NEW p, Intercept(m) = p,
         decoders > 1 => Intercept(p) = p
  PROVE  Through(m)[0] = m /\ \A k \in 1..decoders : Through(m)[k] = p
<1> DEFINE f == [k \in 0..decoders |-> IF k = 0 THEN m ELSE p]
<1>1. f[0] = m /\ \A k \in 1..decoders : f[k] = p
  OBVIOUS
<1>2. ASSUME NEW k \in 0..decoders, k # 0 PROVE Intercept(f[k - 1]) = p
  <2>1. CASE k = 1
    BY <1>1, <2>1
  <2>2. CASE k # 1
    <3>1. k - 1 \in 1..decoders /\ decoders > 1
      BY <1>2, <2>2
    <3> QED
      BY <1>1, <3>1
  <2> QED
    BY <2>1, <2>2
<1>3. f = [k \in 0..decoders |-> IF k = 0 THEN m ELSE Intercept(f[k - 1])]
  <2>1. \A k \in 0..decoders : f[k] = IF k = 0 THEN m ELSE Intercept(f[k - 1])
    <3> SUFFICES ASSUME NEW k \in 0..decoders
                 PROVE  f[k] = IF k = 0 THEN m ELSE Intercept(f[k - 1])
      OBVIOUS
    <3>1. CASE k = 0
      BY <1>1, <3>1
    <3>2. CASE k # 0
      <4>1. k \in 1..decoders
        BY <3>2
      <4> HIDE DEF f
      <4> QED
        BY <1>1, <1>2, <3>2, <4>1
    <3> QED
      BY <3>1, <3>2
  <2>2. f = [k \in 0..decoders |-> f[k]]
    OBVIOUS
  <2> HIDE DEF f
  <2> QED
    BY <2>1, <2>2
<1> HIDE DEF f
<1>4. \A k \in 0..decoders : Through(m)[k] = f[k]
  BY <1>3, ThroughIs
<1>5. 0 \in 0..decoders /\ \A k \in 1..decoders : k \in 0..decoders
  OBVIOUS
<1> QED
  BY <1>1, <1>4, <1>5

\* The decoders turn a packed message that is sound into itself, and none of
\* them panics (Intercept, decode).
LEMMA SoundMessage ==
  ASSUME decoders \in Nat \ {0}, HasDecoder, NEW m, Packable(m), Sound(m)
  PROVE  /\ Through(NewMessage(Pack(m)))[decoders] = m
         /\ ~ChainPanics(NewMessage(Pack(m)))
<1> PICK p : p = Pack(m)
  OBVIOUS
<1> PICK r : r = NewMessage(p)
  OBVIOUS
<1>1. /\ p \in Seq(Nat) /\ Len(p) = HeaderLen + m.DataLen
      /\ Tag(p) = m.ID /\ Length(p) = m.DataLen
      /\ SubSeq(p, HeaderLen + 1, HeaderLen + m.DataLen) = m.Data
  BY PackedFields
<1>2. r.Data = p
  BY DEF NewMessage, NewMsgPackage
<1>3. HeaderLen \in Nat /\ m.DataLen \in Nat /\ Len(m.Data) = m.DataLen /\ Uint \in Nat
      /\ HeaderLen + m.DataLen < Uint /\ (decoders > 1 => m.DataLen < HeaderLen)
  BY WordNumbers DEF Packable, Sound
<1>4. End(r) = HeaderLen + m.DataLen
  <2>1. End(r) = (HeaderLen + m.DataLen) % Uint
    BY <1>1, <1>2 DEF End
  <2>2. Uint \in Nat \ {0} /\ HeaderLen + m.DataLen \in 0..(Uint - 1)
    BY <1>3
  <2> QED
    BY <2>1, <2>2, SmallMod, Zenon
<1>5. ~Passes(r) /\ ~Panics(r)
  <2>1. End(r) \in HeaderLen..Len(p) /\ ~(Len(p) < HeaderLen)
    <3>1. End(r) = Len(p) /\ HeaderLen <= Len(p) /\ HeaderLen \in Nat /\ Len(p) \in Nat
      BY <1>1, <1>3, <1>4
    <3> HIDE DEF Packable
    <3> QED
      BY <3>1
  <2> QED
    BY <1>2, <2>1 DEF Passes, Panics
<1>6. Intercept(r) = m
  <2>1. Intercept(r) = [ID |-> m.ID, DataLen |-> m.DataLen, Data |-> m.Data]
    BY <1>1, <1>2, <1>4, <1>5 DEF Intercept
  <2> QED
    BY <2>1 DEF Packable
<1>7. ASSUME decoders > 1 PROVE Intercept(m) = m /\ ~Panics(m)
  BY <1>3, <1>7 DEF Intercept, Passes, Panics
<1>8. Through(r)[0] = r /\ \A k \in 1..decoders : Through(r)[k] = m
  BY <1>6, <1>7, ThroughTheChain
<1>9. Through(r)[decoders] = m
  BY <1>8
<1>10. ASSUME NEW k \in 0..(decoders - 1) PROVE ~Panics(Through(r)[k])
  <2>1. CASE k = 0
    BY <1>5, <1>8, <2>1
  <2>2. CASE k # 0
    <3>1. k \in 1..decoders /\ decoders > 1
      BY <2>2
    <3> QED
      BY <1>7, <1>8, <3>1
  <2> QED
    BY <2>1, <2>2
<1>11. ~ChainPanics(r)
  BY <1>10 DEF ChainPanics
<1> QED
  BY <1>9, <1>11
-----------------------------------------------------------------------------
(* The reader and its peer                                                  *)

\* A message for every frame: packed into it, or made of it.
Paired ==
  /\ Len(msgs) = Len(sent) /\ Len(sent) <= MaxFrames
  /\ HasDecoder => \A i \in 1..Len(msgs) : Packable(msgs[i]) /\ sent[i] = Pack(msgs[i])
  /\ ~HasDecoder => \A i \in 1..Len(msgs) : msgs[i] = NewMessage(Stripped(sent[i]))

\* Up to here no frame is too long, and every message is sound.
Good(i) == Regular(i) /\ \A j \in 1..i : Sound(msgs[j])

Passed == \A i \in 1..Len(msgs) : Good(i) /\ i <= Len(got) => got[i] = msgs[i]

\* A reader that has ended had reached a message that is not good.
Ended == ~alive => \E b \in 1..Len(msgs) : b <= Len(got) + 1 /\ ~Good(b)

Histories ==
  /\ (\E S : msgs \in Seq(S)) /\ (\E S : got \in Seq(S))
  /\ Len(got) <= Len(out) /\ decoders \in Nat \ {0}

\* A frame that is too long had been reached when Decode was called.
LostBefore == \E b \in DOMAIN sent : ~Fits(sent[b]) /\ b <= Len(got) + 1

\* Inside Decode the next frame starts where it should, or it did not before.
Called == pc # "idle" => LostBefore \/ (pc = "loop" /\ OnTrack)

CodecInv == FrameInv /\ Histories /\ Paired /\ Passed /\ Ended /\ Called

LEMMA CodecInitInv == CInit => CodecInv
<1> SUFFICES ASSUME CInit PROVE CodecInv
  OBVIOUS
<1>1. FrameInv
  BY FrameInitInv DEF CInit
<1>2. decoders \in Nat \ {0}
  BY CodecAssumption DEF CInit
<1>3. msgs = <<>> /\ got = <<>> /\ alive = TRUE /\ sent = <<>> /\ out = <<>>
  BY DEF CInit, FInit
<1>4. Len(msgs) = 0 /\ Len(got) = 0 /\ Len(sent) = 0 /\ Len(out) = 0
      /\ msgs \in Seq(Nat) /\ got \in Seq(Nat)
  BY <1>3
<1>5. Histories /\ Paired /\ Passed /\ Ended
  BY <1>2, <1>3, <1>4, WordNumbers DEF Histories, Paired, Passed, Ended
<1>6. Called
  BY DEF CInit, FInit, Called
<1> QED
  BY <1>1, <1>5, <1>6 DEF CodecInv

\* The numbers of the histories.
LEMMA Numbers ==
  ASSUME CodecInv
  PROVE  /\ Len(msgs) \in Nat /\ Len(got) \in Nat /\ Len(sent) \in Nat /\ Len(out) \in Nat
         /\ DOMAIN msgs = 1..Len(msgs) /\ DOMAIN sent = 1..Len(sent)
         /\ Len(msgs) = Len(sent) /\ Len(got) <= Len(out) /\ lf \in LengthFields
BY DEF CodecInv, FrameInv, Histories, Paired

\* What is good stays good.
LEMMA StillGood ==
  ASSUME CodecInv, lf' = lf, decoders' = decoders, Len(sent') \in Nat,
         \A i \in 1..Len(msgs) : sent'[i] = sent[i] /\ msgs'[i] = msgs[i]
  PROVE  \A i \in 1..Len(msgs) : Good(i)' <=> Good(i)
<1> SUFFICES ASSUME NEW i \in 1..Len(msgs) PROVE Good(i)' <=> Good(i)
  OBVIOUS
<1>1. \A j \in 1..i : j \in 1..Len(msgs)
  BY Numbers
<1>2. \A j \in 1..i : Fits(sent[j])' <=> Fits(sent[j])
  BY <1>1, SameField
<1>3. \A j \in 1..i : Sound(msgs[j])' <=> Sound(msgs[j])
  BY <1>1 DEF Sound, HasDecoder
<1>4. Regular(i)' <=> Regular(i)
  BY <1>2 DEF Regular
<1> QED
  BY <1>3, <1>4 DEF Good

\* The peer's next frame and message.
LEMMA SentInv ==
  ASSUME CodecInv, NEW f, NEW m, Whole(f), SendFrame(f), msgs' = Append(msgs, m),
         decoders' = decoders, alive' = alive, got' = got,
         HasDecoder => Packable(m) /\ f = Pack(m),
         ~HasDecoder => m = NewMessage(Stripped(f))
  PROVE  CodecInv'
<1>1. /\ Len(msgs) \in Nat /\ Len(got) \in Nat /\ Len(sent) \in Nat /\ Len(out) \in Nat
      /\ Len(msgs) = Len(sent) /\ Len(got) <= Len(out) /\ DOMAIN sent = 1..Len(sent)
  BY Numbers
<1>2. lf' = lf /\ sent' = Append(sent, f) /\ out' = out /\ Len(sent) < MaxFrames
  BY DEF SendFrame
<1> DEFINE n == Len(msgs)
<1>3. /\ (\E S : msgs' \in Seq(S)) /\ Len(msgs') = n + 1
      /\ (\A i \in 1..n : msgs'[i] = msgs[i]) /\ msgs'[n + 1] = m
  <2> PICK S : msgs \in Seq(S)
    BY DEF CodecInv, Histories
  <2>1. /\ Append(msgs, m) \in Seq(S \cup {m}) /\ Len(Append(msgs, m)) = Len(msgs) + 1
        /\ \A i \in 1..Len(msgs) : Append(msgs, m)[i] = msgs[i]
        /\ Append(msgs, m)[Len(msgs) + 1] = m
    BY Longer
  <2>2. \E T : msgs' \in Seq(T)
    BY <2>1
  <2> QED
    BY <2>1, <2>2
<1>4. /\ Len(sent') = n + 1 /\ (\A i \in 1..n : sent'[i] = sent[i]) /\ sent'[n + 1] = f
  <2>1. sent \in Seq(Seq(Nat))
    BY DEF CodecInv, FrameInv
  <2>2. /\ Len(Append(sent, f)) = Len(sent) + 1
        /\ \A i \in 1..Len(sent) : Append(sent, f)[i] = sent[i]
        /\ Append(sent, f)[Len(sent) + 1] = f
    BY <2>1, Longer
  <2> QED
    BY <1>1, <1>2, <2>2
<1>5. FrameInv'
  BY SendsInv DEF CodecInv
<1>6. Histories'
  BY <1>2, <1>3 DEF CodecInv, Histories
<1>7. HasDecoder' = HasDecoder /\ \A x : Pack(x)' = Pack(x)
  BY <1>2 DEF HasDecoder, Pack, Bytes, InOrder
<1>8. Paired'
  <2>1. Len(msgs') = Len(sent') /\ Len(sent') <= MaxFrames
    BY <1>1, <1>2, <1>3, <1>4, WordNumbers
  <2>2. ASSUME HasDecoder, NEW i \in 1..Len(msgs')
        PROVE  Packable(msgs[i])' /\ sent'[i] = Pack(msgs[i])'
    <3>1. Packable(msgs'[i]) /\ sent'[i] = Pack(msgs'[i])
      <4>1. CASE i = n + 1
        BY <1>3, <1>4, <2>2, <4>1
      <4>2. CASE i # n + 1
        <5>1. i \in 1..n
          BY <1>1, <1>3, <4>2
        <5>2. Packable(msgs[i]) /\ sent[i] = Pack(msgs[i])
          BY <2>2, <5>1 DEF CodecInv, Paired
        <5> QED
          BY <1>3, <1>4, <5>1, <5>2
      <4> QED
        BY <4>1, <4>2
    <3>2. Packable(msgs[i])' = Packable(msgs'[i])
      BY DEF Packable
    <3>3. Pack(msgs[i])' = Pack(msgs'[i])
      BY <1>2 DEF Pack, Bytes, InOrder
    <3> QED
      BY <3>1, <3>2, <3>3
  <2>3. ASSUME ~HasDecoder, NEW i \in 1..Len(msgs')
        PROVE  msgs'[i] = NewMessage(Stripped(sent[i]))'
    <3>1. msgs'[i] = NewMessage(Stripped(sent'[i]))
      <4>1. CASE i = n + 1
        BY <1>3, <1>4, <2>3, <4>1
      <4>2. CASE i # n + 1
        <5>1. i \in 1..n
          BY <1>1, <1>3, <4>2
        <5>2. msgs[i] = NewMessage(Stripped(sent[i]))
          BY <2>3, <5>1 DEF CodecInv, Paired
        <5> QED
          BY <1>3, <1>4, <5>1, <5>2
      <4> QED
        BY <4>1, <4>2
    <3>2. NewMessage(Stripped(sent[i]))' = NewMessage(Stripped(sent'[i]))
      BY <1>2 DEF NewMessage, NewMsgPackage, Stripped, From, InitialBytesToStrip
    <3> QED
      BY <3>1, <3>2
  <2> QED
    BY <1>7, <2>1, <2>2, <2>3 DEF Paired
<1>9. \A i \in 1..n : Good(i)' <=> Good(i)
  BY <1>1, <1>2, <1>3, <1>4, StillGood
<1>10. Passed'
  <2> SUFFICES ASSUME NEW i \in 1..Len(msgs'), Good(i)', i <= Len(got')
               PROVE  got'[i] = msgs'[i]
    BY DEF Passed
  <2>1. CASE i = n + 1
    \* A message that is new and already got: then the decoder is lost.
    <3>1. PICK b \in DOMAIN sent : ~Fits(sent[b])
      <4>1. ~(\E r : Reading(r))
        BY <1>1, <2>1 DEF Reading
      <4> QED
        BY <4>1 DEF CodecInv, FrameInv, OnTrack, Lost
    <3>2. b \in 1..i /\ ~Fits(sent[b])'
      BY <1>1, <1>2, <1>4, <2>1, <3>1, SameField
    <3> QED
      BY <3>2 DEF Good, Regular
  <2>2. CASE i # n + 1
    <3>1. i \in 1..n
      BY <1>1, <1>3, <2>2
    <3>2. Good(i) /\ i <= Len(got)
      BY <1>9, <3>1
    <3> QED
      BY <1>3, <3>1, <3>2 DEF CodecInv, Passed
  <2> QED
    BY <2>1, <2>2
<1>11. Ended'
  <2> SUFFICES ASSUME ~alive PROVE \E b \in 1..Len(msgs') : b <= Len(got') + 1 /\ ~Good(b)'
    BY DEF Ended
  <2>1. PICK b \in 1..n : b <= Len(got) + 1 /\ ~Good(b)
    BY DEF CodecInv, Ended
  <2>2. b \in 1..Len(msgs') /\ b <= Len(got') + 1 /\ ~Good(b)'
    BY <1>1, <1>3, <1>9, <2>1
  <2> QED
    BY <2>2
<1>12. Called'
  <2>1. pc' = pc /\ (OnTrack => OnTrack')
    BY SendsInv DEF CodecInv, SendFrame
  <2>2. DOMAIN sent' = 1..Len(sent')
    BY <1>2 DEF CodecInv, FrameInv
  <2>3. ASSUME LostBefore PROVE LostBefore'
    <3> PICK b \in DOMAIN sent : ~Fits(sent[b]) /\ b <= Len(got) + 1
      BY <2>3 DEF LostBefore
    <3>1. b \in 1..n /\ b \in 1..Len(sent')
      BY <1>1, <1>4
    <3>2. ~Fits(sent[b])'
      BY <1>2, <1>4, <3>1, SameField
    <3> QED
      BY <2>2, <3>1, <3>2 DEF LostBefore
  <2> QED
    BY <2>1, <2>3 DEF CodecInv, Called
<1> QED
  BY <1>5, <1>6, <1>8, <1>10, <1>11, <1>12 DEF CodecInv

\* Reading, decoding and standing still leave the messages alone.
LEMMA BytesInv ==
  ASSUME CodecInv, FrameInv', lf' = lf, sent' = sent, UNCHANGED cvars,
         Len(out') \in Nat, Len(out) <= Len(out'), (LostBefore' = LostBefore) => Called'
  PROVE  CodecInv'
<1>1. decoders' = decoders /\ alive' = alive /\ msgs' = msgs /\ got' = got
  BY DEF cvars
<1>2. Len(msgs) \in Nat /\ Len(got) \in Nat /\ Len(out) \in Nat /\ Len(got) <= Len(out)
      /\ Len(sent) \in Nat
  BY Numbers
<1>3. Histories'
  BY <1>1, <1>2 DEF CodecInv, Histories
<1>4. Paired'
  <2>1. Paired' = Paired
    BY <1>1 DEF Paired, HasDecoder, Packable, Pack, Bytes, InOrder, NewMessage, NewMsgPackage,
                Stripped, From, InitialBytesToStrip
  <2> QED
    BY <2>1 DEF CodecInv
<1>5. \A i \in 1..Len(msgs) : Good(i)' <=> Good(i)
  BY <1>1, <1>2, StillGood
<1>6. Passed'
  BY <1>1, <1>5 DEF CodecInv, Passed
<1>7. Ended'
  <2> SUFFICES ASSUME ~alive PROVE \E b \in 1..Len(msgs) : b <= Len(got) + 1 /\ ~Good(b)'
    BY <1>1 DEF Ended
  <2> QED
    BY <1>5 DEF CodecInv, Ended
<1>8. LostBefore' = LostBefore
  <2>1. \A b : Fits(sent[b])' <=> Fits(sent[b])
    BY SameField
  <2> QED
    BY <1>1, <2>1 DEF LostBefore
<1> QED
  BY <1>3, <1>4, <1>6, <1>7, <1>8 DEF CodecInv

\* The next frame of a peer that packs is the message that was packed.
LEMMA NextPacked ==
  ASSUME CodecInv, HasDecoder, NEW i \in 1..Len(msgs), i <= Len(out), Good(i)
  PROVE  out[i] = Pack(msgs[i]) /\ Packable(msgs[i]) /\ Sound(msgs[i])
<1>1. Packable(msgs[i]) /\ sent[i] = Pack(msgs[i])
  BY DEF CodecInv, Paired
<1>2. i \in DOMAIN sent /\ i \in 1..i
  BY Numbers
<1>3. out[i] = Stripped(sent[i])
  BY <1>2 DEF CodecInv, FrameInv, Returned, Good
<1>4. sent[i] \in Seq(Nat)
  BY <1>1, PackedFields
<1>5. InitialBytesToStrip = 0
  BY DEF HasDecoder, TLVField, LTVField, InitialBytesToStrip
<1>6. SubSeq(sent[i], 1, Len(sent[i])) = sent[i]
  BY <1>4
<1>7. Stripped(sent[i]) = sent[i]
  BY <1>5, <1>6 DEF Stripped, From
<1> QED
  BY <1>1, <1>2, <1>3, <1>7 DEF Good

LEMMA DeliverInv ==
  ASSUME CodecInv, Deliver
  PROVE  CodecInv'
<1> DEFINE k == Len(got) + 1
           m == Frames(k)
           panics == HasDecoder /\ ChainPanics(m)
           e == IF HasDecoder THEN Through(m)[decoders] ELSE m
<1>1. UNCHANGED fdvars /\ decoders' = decoders /\ msgs' = msgs /\ alive
      /\ Len(got) < Len(out) /\ alive' = ~panics
      /\ got' = IF panics THEN got ELSE Append(got, e)
  BY DEF Deliver
<1> HIDE DEF e, panics
<1>2. Len(msgs) \in Nat /\ Len(got) \in Nat /\ Len(out) \in Nat /\ Len(sent) \in Nat
      /\ Len(msgs) = Len(sent) /\ DOMAIN sent = 1..Len(sent) /\ k \in Nat /\ k <= Len(out)
  <2>1. Len(msgs) \in Nat /\ Len(got) \in Nat /\ Len(out) \in Nat /\ Len(sent) \in Nat
        /\ Len(msgs) = Len(sent) /\ DOMAIN sent = 1..Len(sent)
    BY Numbers
  <2>2. Len(got) < Len(out)
    BY <1>1
  <2> QED
    BY <2>1, <2>2
<1>3. lf' = lf /\ sent' = sent /\ out' = out
  BY <1>1 DEF fdvars
<1>4. FrameInv'
  BY <1>1, NothingInv DEF CodecInv
<1>5. Paired'
  <2>1. Paired' = Paired
    BY <1>1, <1>3 DEF Paired, HasDecoder, Packable, Pack, Bytes, InOrder, NewMessage,
                NewMsgPackage, Stripped, From, InitialBytesToStrip
  <2> QED
    BY <2>1 DEF CodecInv
<1>6. \A i \in 1..Len(msgs) : Good(i)' <=> Good(i)
  BY <1>1, <1>2, <1>3, StillGood
<1>7. /\ (\E S : got' \in Seq(S))
      /\ panics => got' = got
      /\ ~panics => /\ Len(got') = k /\ got'[k] = e
                    /\ \A i \in 1..Len(got) : got'[i] = got[i]
  <2> PICK S : got \in Seq(S)
    BY DEF CodecInv, Histories
  <2>1. /\ Append(got, e) \in Seq(S \cup {e}) /\ Len(Append(got, e)) = Len(got) + 1
        /\ \A i \in 1..Len(got) : Append(got, e)[i] = got[i]
        /\ Append(got, e)[Len(got) + 1] = e
    BY Longer
  <2>2. \E T : got' \in Seq(T)
    <3>1. CASE panics
      BY <1>1, <3>1
    <3>2. CASE ~panics
      BY <1>1, <2>1, <3>2
    <3> QED
      BY <3>1, <3>2
  <2> QED
    BY <1>1, <2>1, <2>2
<1>8. Histories'
  <2>1. Len(got') <= Len(out')
    BY <1>2, <1>3, <1>7
  <2> QED
    BY <1>1, <1>7, <2>1 DEF CodecInv, Histories
<1>9. ASSUME k \in 1..Len(msgs), Good(k) PROVE ~panics /\ e = msgs[k]
  <2>1. CASE HasDecoder
    <3>1. out[k] = Pack(msgs[k]) /\ Packable(msgs[k]) /\ Sound(msgs[k])
      BY <1>2, <1>9, <2>1, NextPacked
    <3>2. m = NewMessage(Pack(msgs[k]))
      BY <3>1 DEF Frames
    <3>3. decoders \in Nat \ {0}
      BY DEF CodecInv, Histories
    <3>4. Through(m)[decoders] = msgs[k] /\ ~ChainPanics(m)
      BY <2>1, <3>1, <3>2, <3>3, SoundMessage
    <3> QED
      BY <2>1, <3>4 DEF panics, e
  <2>2. CASE ~HasDecoder
    <3>1. msgs[k] = NewMessage(Stripped(sent[k]))
      BY <1>9, <2>2 DEF CodecInv, Paired
    <3>2. out[k] = Stripped(sent[k])
      BY <1>2, <1>9 DEF CodecInv, FrameInv, Returned, Good
    <3> QED
      BY <2>2, <3>1, <3>2 DEF panics, e, Frames
  <2> QED
    BY <2>1, <2>2
<1>10. Passed'
  <2> SUFFICES ASSUME NEW i \in 1..Len(msgs), Good(i), i <= Len(got')
               PROVE  got'[i] = msgs[i]
    BY <1>1, <1>6 DEF Passed
  <2>1. CASE i <= Len(got)
    <3>1. got[i] = msgs[i] /\ i \in 1..Len(got)
      BY <1>2, <2>1 DEF CodecInv, Passed
    <3> QED
      BY <1>7, <3>1
  <2>2. CASE i > Len(got)
    <3>1. ~panics /\ i = k
      BY <1>2, <1>7, <2>2
    <3> QED
      BY <1>7, <1>9, <3>1
  <2> QED
    BY <1>2, <2>1, <2>2
<1>11. Ended'
  <2> SUFFICES ASSUME panics PROVE \E b \in 1..Len(msgs) : b <= k /\ ~Good(b)
    BY <1>1, <1>6, <1>7 DEF Ended
  <2>1. CASE k \in 1..Len(msgs)
    BY <1>2, <1>9, <2>1
  <2>2. CASE k \notin 1..Len(msgs)
    <3>1. PICK b \in DOMAIN sent : ~Fits(sent[b])
      <4>1. ~(\E r : Reading(r))
        BY <1>2, <2>2 DEF Reading
      <4> QED
        BY <4>1 DEF CodecInv, FrameInv, OnTrack, Lost
    <3>2. b \in 1..Len(msgs) /\ b <= k /\ b \in 1..b
      BY <1>2, <2>2, <3>1
    <3> QED
      BY <3>1, <3>2 DEF Good, Regular
  <2> QED
    BY <2>1, <2>2
<1>12. Called'
  BY <1>1 DEF Deliver, fdvars, Called
<1> QED
  BY <1>4, <1>5, <1>8, <1>10, <1>11, <1>12 DEF CodecInv

\* The messages the peer packs fit the fields of a packed message.
LEMMA MessageIsPackable ==
  ASSUME CodecInv, NEW n \in Bodies, n < Uint, Len(sent) < MaxFrames
  PROVE  Packable(NewMsgPackage(Radix + (Len(msgs) + 1) + 1, [i \in 1..n |-> Len(msgs) + 1]))
<1> PICK k : k = Len(msgs) + 1
  OBVIOUS
<1> PICK data : data = [i \in 1..n |-> k]
  OBVIOUS
<1> PICK m : m = NewMsgPackage(Radix + k + 1, data)
  OBVIOUS
<1>1. k \in Nat /\ k <= MaxFrames /\ n \in Nat /\ n \in 0..(Uint - 1)
      /\ Uint \in Nat \ {0} /\ Radix \in Nat /\ Radix + k + 1 < Uint
  <2>1. Len(msgs) \in Nat /\ Len(msgs) = Len(sent) /\ n \in Nat
    BY Numbers, FrameDecoderAssumption
  <2>2. /\ Uint \in Nat \ {0} /\ Radix \in Nat /\ MaxFrames \in Nat
        /\ Radix + MaxFrames + 1 < Uint
    BY WordNumbers
  <2> QED
    BY <2>1, <2>2
<1>2. data \in Seq(Nat) /\ Len(data) = n
  BY <1>1
<1>3. n % Uint = n
  BY <1>1, SmallMod, Zenon
<1>4. m = [ID |-> Radix + k + 1, DataLen |-> n, Data |-> data]
  BY <1>2, <1>3 DEF NewMsgPackage
<1>5. Packable(m)
  BY <1>1, <1>2, <1>4 DEF Packable, IsWord
<1> QED
  BY <1>5

LEMMA CodecStepInv == CodecInv /\ [CNext]_codecVars => CodecInv'
<1> SUFFICES ASSUME CodecInv, [CNext]_codecVars PROVE CodecInv'
  OBVIOUS
<1>1. Len(out) \in Nat /\ lf \in LengthFields /\ FrameInv
  BY Numbers DEF CodecInv
<1>2. ASSUME NEW n \in Bodies, SendMessage(n) PROVE CodecInv'
  <2> PICK m : m = NewMsgPackage(Radix + (Len(msgs) + 1) + 1, [i \in 1..n |-> Len(msgs) + 1])
    OBVIOUS
  <2>1. /\ HasDecoder /\ n < Uint /\ SendFrame(Pack(m)) /\ msgs' = Append(msgs, m)
        /\ decoders' = decoders /\ alive' = alive /\ got' = got
    BY <1>2 DEF SendMessage
  <2>2. Len(sent) < MaxFrames
    BY <2>1 DEF SendFrame
  <2>3. Packable(m)
    BY <2>1, <2>2, MessageIsPackable
  <2>4. Whole(Pack(m))
    BY <2>1, <2>3, PackedFields
  <2> QED
    BY <2>1, <2>3, <2>4, SentInv
<1>3. ASSUME NEW n \in Bodies, SendOther(n) PROVE CodecInv'
  <2> PICK f : f = Frame(Len(sent) + 1, n)
    OBVIOUS
  <2>1. /\ ~HasDecoder /\ HasLength(n) /\ SendFrame(f)
        /\ msgs' = Append(msgs, NewMessage(Stripped(f)))
        /\ decoders' = decoders /\ alive' = alive /\ got' = got
    BY <1>3 DEF SendOther
  <2>2. Len(sent) + 1 \in Nat
    BY Numbers
  <2>3. Whole(f)
    BY <1>1, <2>1, <2>2, FrameIsWhole
  <2> QED
    BY <2>1, <2>3, SentInv
<1>4. ASSUME NEW n \in 1..Len(net), Read(n) PROVE CodecInv'
  <2>1. Receive(n) /\ UNCHANGED cvars
    BY <1>4 DEF Read
  <2>2. FrameInv' /\ lf' = lf /\ sent' = sent /\ out' = out /\ pc' = "loop"
    BY <1>1, <2>1, ReceivesInv DEF Receive
  <2>3. Lost' => LostBefore'
    BY <1>4, <2>1, <2>2 DEF Read, cvars, Lost, LostBefore
  <2>4. Called'
    BY <2>2, <2>3 DEF FrameInv, Called
  <2> QED
    BY <1>1, <2>1, <2>2, <2>4, BytesInv
<1>5. ASSUME Decode PROVE CodecInv'
  <2>1. DecodeStep /\ UNCHANGED cvars
    BY <1>5 DEF Decode
  <2>2. FrameInv'
    BY <1>1, <2>1, WaitsInv, DecodesInv, FailsInv DEF DecodeStep
  <2>3. lf' = lf /\ sent' = sent
    BY <2>1 DEF DecodeStep, Incomplete, ExceededFrameLength, DecodeFrame, DecodeFails
  <2>4. Len(out') \in Nat /\ Len(out) <= Len(out')
    <3>1. CASE Incomplete \/ ExceededFrameLength \/ DecodeFails
      BY <1>1, <3>1 DEF Incomplete, ExceededFrameLength, DecodeFails
    <3>2. CASE DecodeFrame
      <4> PICK S : out \in Seq(S)
        BY <1>1 DEF FrameInv
      <4> PICK e : e = SubSeq(Readable, InitialBytesToStrip + 1, FrameLength)
        OBVIOUS
      <4>1. out' = Append(out, e)
        BY <3>2 DEF DecodeFrame
      <4>2. Len(Append(out, e)) = Len(out) + 1
        BY Longer
      <4> QED
        BY <1>1, <4>1, <4>2
    <3> QED
      BY <2>1, <3>1, <3>2 DEF DecodeStep
  <2>5. ASSUME LostBefore' = LostBefore PROVE Called'
    <3>1. CASE Incomplete \/ ExceededFrameLength
      BY <3>1 DEF Incomplete, ExceededFrameLength, Called
    <3>2. CASE DecodeFrame
      <4>1. pc = "loop" /\ pc' = pc /\ (OnTrack => OnTrack')
        BY <1>1, <3>2, DecodesInv DEF DecodeFrame
      <4> QED
        BY <2>5, <4>1 DEF CodecInv, Called
    <3>3. CASE DecodeFails
      <4>1. pc = "loop" /\ ~OnTrack
        BY <1>1, <3>3, FailsInv DEF DecodeFails
      <4> QED
        BY <2>5, <4>1 DEF CodecInv, Called
    <3> QED
      BY <2>1, <3>1, <3>2, <3>3 DEF DecodeStep
  <2> QED
    BY <2>1, <2>2, <2>3, <2>4, <2>5, BytesInv
<1>6. ASSUME UNCHANGED codecVars PROVE CodecInv'
  <2>1. UNCHANGED fdvars /\ UNCHANGED cvars
    BY <1>6 DEF codecVars
  <2>2. /\ FrameInv' /\ lf' = lf /\ sent' = sent /\ out' = out /\ pc' = pc
        /\ (OnTrack => OnTrack')
    BY <1>1, <2>1, NothingInv DEF fdvars
  <2>3. (LostBefore' = LostBefore) => Called'
    BY <2>2 DEF CodecInv, Called
  <2> QED
    BY <1>1, <2>1, <2>2, <2>3, BytesInv
<1> QED
  BY <1>2, <1>3, <1>4, <1>5, <1>6, DeliverInv DEF CNext

\* The invariant gives the order of the messages (see MessagesInOrder).
LEMMA InOrderOfPacking == CodecInv => MessagesInOrder
<1> SUFFICES ASSUME CodecInv, NEW i \in DOMAIN msgs, Good(i)
             PROVE  /\ i <= Len(got) => got[i] = msgs[i]
                    /\ Len(got) < i => alive /\ pc # "failed"
                    /\ HasDecoder /\ i <= Len(out) => HeadAgrees(i)
  BY DEF MessagesInOrder, Good
<1>1. Len(msgs) \in Nat /\ Len(got) \in Nat /\ i \in 1..Len(msgs)
  BY Numbers
<1>2. i <= Len(got) => got[i] = msgs[i]
  BY <1>1 DEF CodecInv, Passed
<1>3. ASSUME Len(got) < i, ~alive PROVE FALSE
  <2>1. PICK b \in 1..Len(msgs) : b <= Len(got) + 1 /\ ~Good(b)
    BY <1>3 DEF CodecInv, Ended
  <2>2. \A j \in 1..b : j \in 1..i
    BY <1>1, <1>3, <2>1
  <2> QED
    BY <2>1, <2>2 DEF Good, Regular
<1>4. ASSUME HasDecoder, i <= Len(out) PROVE HeadAgrees(i)
  <2> PICK p : p = out[i]
    OBVIOUS
  <2>1. p = Pack(msgs[i]) /\ Packable(msgs[i])
    BY <1>1, <1>4, NextPacked
  <2>2. /\ Len(p) = HeaderLen + msgs[i].DataLen
        /\ Tag(SubSeq(p, 1, HeaderLen)) = msgs[i].ID
        /\ Length(SubSeq(p, 1, HeaderLen)) = msgs[i].DataLen
    BY <1>4, <2>1, PackedFields
  <2> QED
    BY <2>2 DEF HeadAgrees, Unpack
<1>5. ASSUME Len(got) < i, pc = "failed" PROVE FALSE
  <2>1. PICK b \in DOMAIN sent : ~Fits(sent[b]) /\ b <= Len(got) + 1
    BY <1>5 DEF CodecInv, Called, LostBefore
  <2>2. b \in 1..i
    BY <1>1, <1>5, <2>1, Numbers
  <2> QED
    BY <2>1, <2>2 DEF Good, Regular
<1> QED
  BY <1>2, <1>3, <1>4, <1>5

-----------------------------------------------------------------------------
\* Every reachable state of decoder, reader and peer satisfies the invariant.
THEOREM CodecInvariance == CSpec => []CodecInv
BY CodecInitInv, CodecStepInv, PTL DEF CSpec

\* However the peer's bytes are cut, and for every length field and size of a
\* frame: when all is read and Decode has returned, no frame before the first
\* one that is too long is left in d.in (decode, Decode).
THEOREM NothingStaysBehind == CSpec => []NothingHeldBack
<1>1. CodecInv => NothingHeldBack
  BY NoneHeldBack DEF CodecInv
<1> QED
  BY <1>1, CodecInvariance, PTL

\* For every number of frames, size of a word and cut of the bytes, TLV and LTV
\* messages come out of the decoders as they were packed, in order and one for
\* one; neither the reader nor Decode fails before a message whose length wraps or that
\* two decoders decode twice (Pack, Unpack, Decode, Intercept).
THEOREM PackedMessagesArrive == CSpec => []MessagesInOrder
<1>1. CodecInv => MessagesInOrder
  BY InOrderOfPacking
<1> QED
  BY <1>1, CodecInvariance, PTL
==============================================================================

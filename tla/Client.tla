-------------------------------- MODULE Client --------------------------------
(***************************************************************************)
(* The client of zinx/znet/client.go: Start and Restart dial in a goroutine*)
(* of their own, Stop waits for that goroutine on exitChan.  A user calls  *)
(* them in any order, dials fail or succeed, and errors may go unread.     *)
(*                                                                         *)
(* The k-th Restart makes exit channel k and dials connection k.  c.conn   *)
(* and c.exitChan are plain fields which every goroutine reads when it     *)
(* gets there.  A panic that nothing recovers ends the process.            *)
(*                                                                         *)
(* A definition named X_Word is X with one mistake in it; no action uses   *)
(* it.  Each one shows that a property of the run can fail.                *)
(***************************************************************************)
EXTENDS Naturals

CONSTANTS
  MaxDials,      \* bound: calls of Start and Restart
  MaxStops       \* bound: calls of Stop

ASSUME ClientAssumption == MaxDials \in Nat /\ MaxStops \in Nat

VARIABLES
  dials,          \* calls of Restart so far
  starts,         \* calls of Start: each puts the decoder in the chain again
  dial,           \* where the goroutine of each Restart is
  conn,           \* c.conn, 0 for nil
  state,          \* what became of each connection
  exitChan,       \* c.exitChan, 0 for nil
  waitsOn,        \* the exit channel each goroutine evaluated
  closedExit, errClosed,    \* the exit channels closed, ErrChan closed
  stop,           \* where the user is in Stop
  stops,          \* calls of Stop so far
  safe,           \* history: every call so far was made at a safe moment
  crashed         \* the process has ended

chans == <<exitChan, waitsOn, closedExit, errClosed>>
vars == <<dials, starts, dial, conn, state, chans, stop, stops, safe, crashed>>

Dials == 1..MaxDials

DialTypes ==
  /\ dials \in 0..MaxDials /\ starts \in 0..MaxDials /\ conn \in 0..MaxDials
  /\ dial \in [Dials -> {"none", "dial", "error", "connected", "select", "wait", "done"}]
  /\ state \in [Dials -> {"none", "made", "spawned", "started", "over"}]

ChanTypes ==
  /\ exitChan \in 0..MaxDials /\ waitsOn \in [Dials -> 0..MaxDials]
  /\ closedExit \subseteq Dials /\ errClosed \in BOOLEAN

StopTypes ==
  /\ stop \in {"out", "conn", "exit", "close", "closeErr"} /\ stops \in 0..MaxStops
  /\ safe \in BOOLEAN /\ crashed \in BOOLEAN

TypeOK == DialTypes /\ ChanTypes /\ StopTypes

\* NewClient, NewWsClient and NewTLSClient make ErrChan and nothing else.
Init ==
  /\ dials = 0 /\ starts = 0 /\ conn = 0 /\ exitChan = 0
  /\ dial = [k \in Dials |-> "none"] /\ state = [k \in Dials |-> "none"]
  /\ waitsOn = [k \in Dials |-> 0] /\ closedExit = {} /\ errClosed = FALSE
  /\ stop = "out" /\ stops = 0 /\ safe = TRUE /\ crashed = FALSE

Crash == crashed' = TRUE /\ UNCHANGED <<dials, starts, dial, conn, state, chans,
                                        stop, stops, safe>>

-----------------------------------------------------------------------------
(* Start and Restart                                                        *)

NewExit_Nil(k) == 0
\* The exit channel of the k-th Restart.  ErrChan is not made again, so that
\* no Restart after a Stop is safe: its dial may fail.
NewExit(k) == k

Restart ==
  /\ stop = "out" /\ dials < MaxDials
  /\ dials' = dials + 1 /\ exitChan' = NewExit(dials + 1)
  /\ dial' = [dial EXCEPT ![dials + 1] = "dial"]
  /\ safe' = (safe /\ stops = 0)
  /\ UNCHANGED <<conn, state, waitsOn, closedExit, errClosed, stop, stops, crashed>>

Again == Restart /\ UNCHANGED starts
Start == Restart /\ starts' = starts + 1

\* The dial fails and its goroutine offers the error.
DialFails(k) ==
  /\ dial[k] = "dial" /\ dial' = [dial EXCEPT ![k] = "error"]
  /\ UNCHANGED <<dials, starts, conn, state, chans, stop, stops, safe, crashed>>

\* Somebody reads ErrChan.
ErrorRead(k) ==
  /\ dial[k] = "error" /\ ~errClosed /\ dial' = [dial EXCEPT ![k] = "done"]
  /\ UNCHANGED <<dials, starts, conn, state, chans, stop, stops, safe, crashed>>

\* A send on ErrChan after, or while, Stop closes it panics.
ErrorPanics(k) == dial[k] = "error" /\ errClosed /\ Crash

\* newClientConn: the connection is there and not started.
Connects(k) ==
  /\ dial[k] = "dial" /\ dial' = [dial EXCEPT ![k] = "connected"]
  /\ conn' = k /\ state' = [state EXCEPT ![k] = "made"]
  /\ UNCHANGED <<dials, starts, chans, stop, stops, safe, crashed>>

\* BindConn and `go c.conn.Start()`, of the connection c.conn is by now.
Spawns(k) ==
  /\ dial[k] = "connected" /\ dial' = [dial EXCEPT ![k] = "select"]
  /\ state' = [state EXCEPT ![conn] = IF @ = "made" THEN "spawned" ELSE @]
  /\ UNCHANGED <<dials, starts, conn, chans, stop, stops, safe, crashed>>

\* Connection.Start makes the context; until then Stop has nothing to cancel.
ConnStarts(c) ==
  /\ state[c] = "spawned" /\ state' = [state EXCEPT ![c] = "started"]
  /\ UNCHANGED <<dials, starts, dial, conn, chans, stop, stops, safe, crashed>>

\* The peer leaves, and the connection stops itself.
ConnEnds(c) ==
  /\ state[c] = "started" /\ state' = [state EXCEPT ![c] = "over"]
  /\ UNCHANGED <<dials, starts, dial, conn, chans, stop, stops, safe, crashed>>

\* `<-c.exitChan`, of the channel c.exitChan is by now.
Selects(k) ==
  /\ dial[k] = "select" /\ dial' = [dial EXCEPT ![k] = "wait"]
  /\ waitsOn' = [waitsOn EXCEPT ![k] = exitChan]
  /\ UNCHANGED <<dials, starts, conn, state, exitChan, closedExit, errClosed,
                 stop, stops, safe, crashed>>

\* The channel was closed: everyone who waits on it ends.
ExitClosed(k) ==
  /\ dial[k] = "wait" /\ waitsOn[k] \in closedExit
  /\ dial' = [dial EXCEPT ![k] = "done"]
  /\ UNCHANGED <<dials, starts, conn, state, chans, stop, stops, safe, crashed>>

-----------------------------------------------------------------------------
(* Stop                                                                     *)

\* No dial is on its way and no error unread, the last dial connected, c.conn
\* is started, and nobody has called Stop before.
SafeMoment ==
  /\ stops = 0 /\ dials > 0
  /\ \A k \in 1..dials : dial[k] \in {"select", "wait", "done"}
  /\ dial[dials] # "done"
  /\ state[conn] \in {"started", "over"}

\* The addresses of c.conn are logged first.
Stop ==
  /\ stop = "out" /\ stops < MaxStops /\ conn # 0
  /\ stop' = "conn" /\ stops' = stops + 1 /\ safe' = (safe /\ SafeMoment)
  /\ UNCHANGED <<dials, starts, dial, conn, state, chans, crashed>>

\* Without a connection that is a nil interface.
StopWithoutConn ==
  /\ stop = "out" /\ stops < MaxStops /\ conn = 0
  /\ crashed' = TRUE /\ stops' = stops + 1 /\ safe' = (safe /\ SafeMoment)
  /\ UNCHANGED <<dials, starts, dial, conn, state, chans, stop>>

StopConn ==
  /\ stop = "conn" /\ state[conn] \in {"started", "over"} /\ stop' = "exit"
  /\ state' = [state EXCEPT ![conn] = "over"]
  /\ UNCHANGED <<dials, starts, dial, conn, chans, stops, safe, crashed>>

\* Connection.Stop of a connection that has not started calls a nil cancel.
StopConnPanics == stop = "conn" /\ state[conn] \in {"made", "spawned"} /\ Crash

\* `c.exitChan <- struct{}{}` meets one goroutine that waits there.
SendExit(k) ==
  /\ stop = "exit" /\ exitChan # 0 /\ exitChan \notin closedExit
  /\ dial[k] = "wait" /\ waitsOn[k] = exitChan
  /\ dial' = [dial EXCEPT ![k] = "done"] /\ stop' = "close"
  /\ UNCHANGED <<dials, starts, conn, state, chans, stops, safe, crashed>>

SendPanics == stop = "exit" /\ exitChan \in closedExit /\ Crash

CloseExit ==
  /\ stop = "close" /\ stop' = "closeErr"
  /\ closedExit' = closedExit \cup {exitChan}
  /\ UNCHANGED <<dials, starts, dial, conn, state, exitChan, waitsOn, errClosed,
                 stops, safe, crashed>>

CloseErr_Exit ==
  /\ stop = "closeErr" /\ stop' = "out"
  /\ crashed' = (exitChan \in closedExit)
  /\ UNCHANGED <<dials, starts, dial, conn, state, chans, stops, safe>>

CloseErr ==
  /\ stop = "closeErr" /\ ~errClosed /\ stop' = "out" /\ errClosed' = TRUE
  /\ UNCHANGED <<dials, starts, dial, conn, state, exitChan, waitsOn, closedExit,
                 stops, safe, crashed>>

\* A second Stop closes ErrChan again.
CloseErrPanics == stop = "closeErr" /\ errClosed /\ Crash

-----------------------------------------------------------------------------
Dialer(k) ==
  \/ DialFails(k) \/ Connects(k) \/ ErrorPanics(k)
  \/ Spawns(k) \/ Selects(k) \/ ExitClosed(k)

Stopping ==
  \/ StopConn \/ StopConnPanics \/ SendPanics \/ CloseExit
  \/ CloseErr \/ CloseErrPanics \/ \E k \in Dials : SendExit(k)

Next ==
  /\ ~crashed
  /\ \/ Start \/ Again \/ Stop \/ StopWithoutConn \/ Stopping
     \/ \E k \in Dials : Dialer(k) \/ ErrorRead(k) \/ ConnStarts(k) \/ ConnEnds(k)

Spec == Init /\ [][Next]_vars

\* Goroutines go on unless they wait on a channel; errors may stay unread.
FairSpec ==
  /\ Spec /\ WF_vars(~crashed /\ Stopping)
  /\ \A k \in Dials : WF_vars(~crashed /\ (Dialer(k) \/ ConnStarts(k)))

-----------------------------------------------------------------------------
(* Properties                                                               *)

\* A client that is stopped once, at a safe moment, does not crash, whatever
\* was dialled, failed, lost or restarted before (Stop, Restart).
SafeStopSurvives == safe => ~crashed

\* A Stop at a safe moment returns, although goroutines of earlier connections
\* may wait on other channels or on the same one; and whoever waits on the
\* channel it used ends, unless an unsafe call follows.
SafeStopReturns ==
  /\ (safe /\ stop # "out") ~> (stop = "out")
  /\ \A k \in Dials :
       (safe /\ errClosed /\ waitsOn[k] \in closedExit)
         ~> (dial[k] = "done" \/ ~safe)
=============================================================================

---------------------------- MODULE MCConnection ----------------------------
(* Model checking of Connection: callers are alike, and which of their calls *)
(* are explored.                                                            *)
EXTENDS Connection, TLC

CallerSymmetry == Permutations(Callers)

\* One call each, of the methods that take the lock first, with everything that
\* happens to the connection: two callers at once, or one and the heartbeat.  The
\* reader's work and the passing of time touch what a call uses only by stopping
\* the connection, as Stop does at any time: they have their turn between calls.
LockedCalls ==
  /\ \A c \in Callers : calls[c] <= 1 /\ kind[c] # "SendBuffMsg"
  /\ spc[Hb] = "idle" \/ \E c \in Callers : \A d \in Callers \ {c} : spc[d] = "idle"
  /\ rpc \in {"execute", "stop"} \/ lastActivity = "old"
     => \A p \in Senders : spc[p] = "idle"

\* Buffered calls of all callers, two of one of them, until the finalizer asks
\* for the lock; the peer, the reader and the heartbeat are quiet meanwhile.
BufferedCalls ==
  /\ sockOpen /\ peer = "reading" /\ spc[Hb] = "idle" /\ lastActivity # "old"
  /\ writeLock = "free" /\ rpc \in {"none", "select"}
  /\ \A c \in Callers : kind[c] # "Send"
  /\ \E c \in Callers : \A d \in Callers \ {c} : calls[d] <= 1

Explored == (LockedCalls \/ BufferedCalls)'
=============================================================================

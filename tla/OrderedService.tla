---------------------------- MODULE OrderedService ----------------------------
(***************************************************************************)
(* What the worker pool promises a connection: its requests are handled in *)
(* the order they arrived, each exactly once, and each in the end, unless  *)
(* the process is down.  Connections do not hold each other up for ever.   *)
(***************************************************************************)
EXTENDS Naturals

CONSTANT Conns

VARIABLES arrived, handled, up

vars == <<arrived, handled, up>>

Init == /\ arrived = [c \in Conns |-> 0]
        /\ handled = [c \in Conns |-> 0]
        /\ up = TRUE

Arrive(c) ==
  /\ up /\ arrived' = [arrived EXCEPT ![c] = @ + 1]
  /\ UNCHANGED <<handled, up>>

Handle(c) ==
  /\ up /\ handled[c] < arrived[c]
  /\ handled' = [handled EXCEPT ![c] = @ + 1]
  /\ UNCHANGED <<arrived, up>>

Crash == up /\ up' = FALSE /\ UNCHANGED <<arrived, handled>>

Next == Crash \/ \E c \in Conns : Arrive(c) \/ Handle(c)

Spec     == Init /\ [][Next]_vars
FairSpec == Spec /\ \A c \in Conns : WF_vars(Handle(c))
=============================================================================

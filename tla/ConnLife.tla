------------------------------ MODULE ConnLife ------------------------------
(***************************************************************************)
(* What a connection promises its users, whatever goroutines serve it: it  *)
(* is up until Stop, then stopping, then closed for good; a message is     *)
(* delivered to the peer at most once, and never after the close.          *)
(***************************************************************************)
EXTENDS Sequences, Naturals

CONSTANT Messages

VARIABLES phase, delivered

vars == <<phase, delivered>>

Init == phase = "up" /\ delivered = <<>>

Stop  == phase = "up" /\ phase' = "stopping" /\ UNCHANGED delivered
Close == phase = "stopping" /\ phase' = "closed" /\ UNCHANGED delivered

Deliver(m) ==
  /\ phase # "closed"
  /\ \A i \in DOMAIN delivered : delivered[i] # m
  /\ delivered' = Append(delivered, m)
  /\ UNCHANGED phase

Next == Stop \/ Close \/ \E m \in Messages : Deliver(m)

Spec == Init /\ [][Next]_vars
=============================================================================

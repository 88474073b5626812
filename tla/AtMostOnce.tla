----------------------------- MODULE AtMostOnce -----------------------------
(***************************************************************************)
(* What one protected direction of a session promises to the layer above:  *)
(* packets the peer sealed are delivered in any order, possibly never, and *)
(* none of them twice.                                                     *)
(***************************************************************************)
EXTENDS Naturals

CONSTANT Packet        \* packet identities: session and counter

VARIABLES sent,        \* packets the peer has sealed
          deliveries   \* how often each packet was handed to the application

vars == <<sent, deliveries>>

Init == sent = {} /\ deliveries = [p \in Packet |-> 0]

\* A packet identity is used for one packet only.
Send(p) == p \notin sent /\ sent' = sent \cup {p} /\ UNCHANGED deliveries

Deliver(p) ==
  /\ p \in sent
  /\ deliveries[p] = 0
  /\ deliveries' = [deliveries EXCEPT ![p] = 1]
  /\ UNCHANGED sent

Next == \E p \in Packet : Send(p) \/ Deliver(p)

Spec == Init /\ [][Next]_vars
=============================================================================

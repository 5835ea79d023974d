----------------------------- MODULE MCDelivery -----------------------------
(* Instances of Delivery for TLC. *)
EXTENDS Delivery

CONSTANT u1

\* One participant reconnects, the other one is not connected.
OneUser == [c \in Clients |-> u1]
=============================================================================

------------------------------- MODULE MCHub -------------------------------
(* Instances of Hub for TLC. *)
EXTENDS Hub, TLC

CONSTANT u1

\* A user who reconnects: every client is his.
OneUser == [c \in Clients |-> u1]

Sym == Permutations(Clients) \cup Permutations(Senders)
=============================================================================

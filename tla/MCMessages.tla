----------------------------- MODULE MCMessages -----------------------------
(* Instances of Messages for TLC. *)
EXTENDS Messages, TLC

CONSTANTS u1, u2, u3, c1, c2

\* One conversation of two users.
OnePair == [c \in Convs |-> {u1, u2}]

\* Two conversations that share user u1.
TwoPairs == (c1 :> {u1, u2}) @@ (c2 :> {u1, u3})

\* Identifiers of requests, messages and attachments are never compared but
\* for equality.
Sym == Permutations(Requests) \cup Permutations(Msgs)
           \cup Permutations(Attachments)

\* TwoPairs is the same with its two conversations swapped.
Other == (u2 :> u3) @@ (u3 :> u2) @@ (c1 :> c2) @@ (c2 :> c1)

SymPairs == Sym \cup {Other}
=============================================================================

------------------------------ MODULE Registry ------------------------------
(***************************************************************************)
(* What the hub promises to everybody who does not look inside: a user has *)
(* at most one current connection, a connection is current once and never  *)
(* again, it is told to close once, and whoever takes the place of another *)
(* one has told it so before.  Hub implements it.                          *)
(***************************************************************************)
CONSTANTS Users, Clients, Owner, None

VARIABLES
    current,    \* the connection of a user that events go to, or None
    entered,    \* the connections that are or have been current
    ended       \* the connections that have been told to close

Init ==
    /\ current = [u \in Users |-> None]
    /\ entered = {}
    /\ ended = {}

\* A new connection takes the place of its user's, if there is one.
Enter(c) ==
    /\ c \notin entered
    /\ current[Owner[c]] \in ended \cup {None}
    /\ current' = [current EXCEPT ![Owner[c]] = c]
    /\ entered' = entered \cup {c}
    /\ UNCHANGED ended

\* A connection is told to close, by its successor or by itself.
End(c) ==
    /\ c \in entered \ ended
    /\ ended' = ended \cup {c}
    /\ UNCHANGED <<current, entered>>

\* A connection gives up its own place, and only before it is told to close.
Leave(c) ==
    /\ current[Owner[c]] = c
    /\ c \notin ended
    /\ current' = [current EXCEPT ![Owner[c]] = None]
    /\ UNCHANGED <<entered, ended>>

Next == \E c \in Clients : Enter(c) \/ End(c) \/ Leave(c)

Spec == Init /\ [][Next]_<<current, entered, ended>>
=============================================================================

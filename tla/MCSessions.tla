----------------------------- MODULE MCSessions -----------------------------
(* Instances of Sessions for TLC. *)
EXTENDS Sessions, TLC

\* Identifiers and contents are never compared but for equality.
Sym == Permutations(Requests) \cup Permutations(Users)
           \cup Permutations(Passwords) \cup Permutations(Emails)
           \cup Permutations(Names)
=============================================================================

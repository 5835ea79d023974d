------------------------------ MODULE MCSocial ------------------------------
(* Instances of Social for TLC. *)
EXTENDS Social, TLC

\* Nothing in the code distinguishes users or requests but equality.
Sym == Permutations(Requests) \cup Permutations(Users)
=============================================================================

------------------------------ MODULE MCPages ------------------------------
(* Instances of Pages for TLC: a client asks for no size, for one row, or  *)
(* for more than a page may hold.                                          *)
EXTENDS Pages

AskedLimits == {0, 1, 3}
=============================================================================

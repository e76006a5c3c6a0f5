------------------------- MODULE MCLocalhostHandler -------------------------
(* Instances of LocalhostHandler for TLC. *)
EXTENDS LocalhostHandler

\* A job of two tasks, then jobs of one.
TwoThenOne == [j \in Job |-> IF j = 1 THEN 2 ELSE 1]
=============================================================================

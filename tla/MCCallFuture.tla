---------------------------- MODULE MCCallFuture ----------------------------
(* Instances of CallFuture for TLC. *)
EXTENDS CallFuture

CONSTANTS c1, c2

\* All calls in one job, and two jobs of a call each.
OneJob == [c \in Call |-> 1]
TwoJobs == [c \in Call |-> IF c = c1 THEN 1 ELSE 2]
=============================================================================

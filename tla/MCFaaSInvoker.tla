--------------------------- MODULE MCFaaSInvoker ---------------------------
(* Instances of FaaSInvoker for TLC: the jobs of each configuration. *)
EXTENDS FaaSInvoker

\* Two jobs: one of two full chunks, one of a short chunk only.
UnevenTotal == [j \in 1 .. NumJobs |-> IF j = 1 THEN 4 ELSE 1]
\* One of two full chunks and a short one, one of a full chunk.
ShortLastTotal == [j \in 1 .. NumJobs |-> IF j = 1 THEN 5 ELSE 2]
Pairs == [j \in 1 .. NumJobs |-> 2]
=============================================================================

--------------------------- MODULE MCPartitioner ---------------------------
EXTENDS Partitioner

\* Every placing of newlines in one object, and two objects without any.
MCInputs ==
  UNION {{<<[size |-> n, nl |-> rows]>> : rows \in SUBSET (0 .. n - 1)} : n \in 0 .. 7}
    \cup {<<[size |-> m, nl |-> {}], [size |-> n, nl |-> {}]>> : m, n \in {0, 2, 5}}
MCOptions ==
  {[chunkNumber |-> 0, chunkSize |-> n] : n \in 0 .. 3}
    \cup {[chunkNumber |-> n, chunkSize |-> 0] : n \in 1 .. 4}
=============================================================================

--------------------------- MODULE ActivationPool ---------------------------
(***************************************************************************)
(* What a serverless executor promises of its activations: a chunk of      *)
(* calls is activated at most once, and at most Limit activations run at a *)
(* time, whatever queues, tokens and retries lie behind.                   *)
(***************************************************************************)
EXTENDS Naturals, FiniteSets

CONSTANTS
    Work,  \* the chunks there are
    Limit  \* a number: how many activations may run at a time

VARIABLES
    started, \* the chunks that were activated
    active   \* those whose activation runs

vars == <<started, active>>

Init == started = {} /\ active = {}

Activate(w) ==
    /\ w \notin started /\ Cardinality(active) < Limit
    /\ started' = started \cup {w}
    /\ active' = active \cup {w}

\* An activation ends, well or not.
Leave(w) ==
    /\ w \in active
    /\ active' = active \ {w}
    /\ UNCHANGED started

Next == \E w \in Work : Activate(w) \/ Leave(w)

Spec == Init /\ [][Next]_vars
=============================================================================

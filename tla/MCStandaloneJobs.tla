-------------------------- MODULE MCStandaloneJobs --------------------------
EXTENDS StandaloneJobs, TLC
CONSTANTS j1, j2
MCCalls == j1 :> 2 @@ j2 :> 1
\* In create mode clear() takes VMs away as it is.
MCMishaps == [m \in Modes |-> IF m = "create" THEN 0 ELSE 1]
=============================================================================

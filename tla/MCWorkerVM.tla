----------------------------- MODULE MCWorkerVM -----------------------------
EXTENDS WorkerVM
=============================================================================

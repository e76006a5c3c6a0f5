---------------------------- MODULE MCSharedSync ----------------------------
EXTENDS SharedSync
=============================================================================

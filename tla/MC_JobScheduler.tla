--------------------------- MODULE MC_JobScheduler ---------------------------
EXTENDS JobScheduler, TLC
=============================================================================

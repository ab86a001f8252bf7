---------------------------- MODULE MCWorkerFence ---------------------------
EXTENDS WorkerFence

=============================================================================

-------------------------- MODULE MCExecutionApp --------------------------
(* Instances of ExecutionApp for TLC.                                        *)
EXTENDS ExecutionApp, TLC

CONSTANTS r1, c1, c2, i1, i2, j1, k1, x1

MCAttemptIds == Requests \X Commands
Symmetry == Permutations(Advancers) \cup Permutations(Commands)
MCNeeds == [r \in Requests |-> {x1}]
MCOperations == Operations
=============================================================================

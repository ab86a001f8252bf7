----------------------------- MODULE MCJournal -----------------------------
(* Instances of Journal for TLC.                                             *)
EXTENDS Journal

CONSTANTS r1, r2, c1, c2, k1

MCAttemptIds == Requests \X Commands
OneNeeds == [r \in Requests |-> {k1}]
=============================================================================

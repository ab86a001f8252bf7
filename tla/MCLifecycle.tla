---------------------------- MODULE MCLifecycle ----------------------------
(* Instance of Lifecycle for TLC: identities are interchangeable.            *)
EXTENDS Lifecycle, TLC

MCTimes == 0..4
MCCounts == {0, 2}
Symmetry == Permutations(EventIds) \cup Permutations(AttemptIds)
=============================================================================

------------------------- MODULE MCSearchOrchestrator -------------------------
(* SearchOrchestrator for TLC: threads are interchangeable. *)
EXTENDS SearchOrchestrator, TLC

Symmetry == Permutations(Threads)
=============================================================================

---------------------------- MODULE MCSearchSession ---------------------------
(* Two intents that are ready, one that is blocking, two usage policies.    *)
EXTENDS SearchSession, TLC

CONSTANTS i1, i2, p1, p2

MCReady    == {i1, i2}
MCPolicies == {p1, p2}

MCSymmetry == Permutations(MCReady) \cup Permutations(MCPolicies)
===============================================================================

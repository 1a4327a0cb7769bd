------------------------- MODULE MCProductionSearch -------------------------
(* Two commands, one of them with digests that do not match, is enough for  *)
(* every refusal; two capabilities may stand for the same command.          *)
EXTENDS ProductionSearch, TLC

CONSTANTS k1, k2, j1, j2

\* Job and capability names are handed out in order, which leaves one
\* representative of every renaming.
NamedInOrder ==
    /\ status[j2] # "fresh" => status[j1] # "fresh"
    /\ k2 \in issued => k1 \in issued
=============================================================================

----------------------- MODULE MC_InvalidationClient -----------------------
(* Model-checking instance of InvalidationClient: server-assigned client   *)
(* ids are model values, object ids small naturals.                        *)
EXTENDS InvalidationClient, TLC

CONSTANTS c1, c2, c3, c4

MC_ClientIds == {c1, c2, c3, c4}
MC_Objects == {1}

\* The server hands out any unused id, so ids are interchangeable.
MC_Symmetry == Permutations(MC_ClientIds)
==============================================================================

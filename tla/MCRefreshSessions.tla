------------------------- MODULE MCRefreshSessions --------------------------
(* Instances of RefreshSessions for TLC.                                    *)
EXTENDS RefreshSessions, TLC

CONSTANTS r1, r2

\* Requests are interchangeable.
Simetria == Permutations(Solicitudes)
=============================================================================

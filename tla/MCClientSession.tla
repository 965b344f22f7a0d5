--------------------------- MODULE MCClientSession ---------------------------
(* Instances of ClientSession for TLC.                                      *)
EXTENDS ClientSession, TLC

CONSTANTS p1, p2, e1, e2

\* Neither the requests nor the calls on the wire are told apart.
Simetria == Permutations(Peticiones) \union Permutations(Envios)
=============================================================================

--------------------------- MODULE MCRateLimiter ---------------------------
(* An instance of RateLimiter for TLC.                                      *)
EXTENDS RateLimiter

CONSTANTS p1, p2, i1, u1

\* The windows keep the order of the code's: the burst and the limits no longer than
\* the lock, the lock shorter than the window that counts failures.
MCMaximo == [c \in Clases |-> IF c = <<"ip", "refresh">> THEN 1 ELSE 2]
MCVentana == [c \in Clases |-> IF c = <<"failures">> THEN 3 ELSE 2]
=============================================================================

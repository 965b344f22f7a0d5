-------------------------- MODULE MCDocumentOutbox --------------------------
(***************************************************************************)
(* Instances of DocumentOutbox for TLC.                                    *)
(***************************************************************************)
EXTENDS DocumentOutbox, TLC

\* Workers and review requests are interchangeable; rows are not, their number
\* is their place in the queue.
Simetria == Permutations(Trabajadores) \union Permutations(Revisores)
=============================================================================

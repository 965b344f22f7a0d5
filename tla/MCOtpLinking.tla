---------------------------- MODULE MCOtpLinking ----------------------------
(* Instances of OtpLinking for TLC.                                         *)
EXTENDS OtpLinking, TLC

CONSTANTS c1, e1, e2, e3, r1, r2, o1, o2

\* Requests, operators and e-mails are interchangeable.
Simetria == Permutations(Solicitudes) \union Permutations(Operadores)
              \union Permutations(Correos)
=============================================================================

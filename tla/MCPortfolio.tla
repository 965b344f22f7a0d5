---------------------------- MODULE MCPortfolio ----------------------------
(* An instance of Portfolio for TLC.                                        *)
EXTENDS Portfolio, TLC

CONSTANTS a1, a2, p1

\* A cedula, the same with one digit mistyped, and the RUC of a company.
Cedula == <<1, 7, 1, 0, 0, 3, 4, 0, 4, 0>>
MCClientes == {Cedula, [Cedula EXCEPT ![9] = 9], <<1, 7, 9, 0, 0, 1, 6, 9, 1, 9, 0, 0, 1>>}

\* Three payments, two by two alike in a column.
MCRecibos == {<<"transferencia", "r1">>, <<"transferencia", "r2">>, <<"tarjeta", "r1">>}

Simetria == Permutations(Peticiones)
=============================================================================

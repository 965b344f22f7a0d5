--------------------------- MODULE Identification --------------------------
(***************************************************************************)
(* Ecuadorian identifications, as schemas/cliente.py accepts them: a       *)
(* cedula of ten digits or a RUC of thirteen.  One is the sequence of its  *)
(* digits, first the province, then the digit that tells its kind, and,    *)
(* where the kind says, the digit that verifies those before it.           *)
(***************************************************************************)
EXTENDS Integers, Sequences

Digitos == 0 .. 9
Numeros == [1 .. 10 -> Digitos] \union [1 .. 13 -> Digitos]

ProvinciaValida(d) == LET p == 10 * d[1] + d[2] IN p \in 1 .. 24 \/ p = 30

\* Mutant: a product of two digits is added as it is.
Doble_SinRestar(x) == 2 * x

\* Twice a digit; a product of two digits loses nine.
Doble(x) == IF 2 * x >= 10 THEN 2 * x - 9 ELSE 2 * x

SumaCedula(d) ==
    Doble(d[1]) + d[2] + Doble(d[3]) + d[4] + Doble(d[5])
        + d[6] + Doble(d[7]) + d[8] + Doble(d[9])
SumaPublica(d) ==
    3 * d[1] + 2 * d[2] + 7 * d[3] + 6 * d[4] + 5 * d[5] + 4 * d[6] + 3 * d[7] + 2 * d[8]
SumaPrivada(d) ==
    4 * d[1] + 3 * d[2] + 2 * d[3] + 7 * d[4] + 6 * d[5] + 5 * d[6] + 4 * d[7]
        + 3 * d[8] + 2 * d[9]

\* The digit that verifies a sum.  Modulo 11 it may be 10, which no digit equals.
Modulo10(s) == (10 - (s % 10)) % 10
Modulo11(s) == IF s % 11 = 0 THEN 0 ELSE 11 - (s % 11)

\* validar_cedula_ecuatoriana, of the first ten digits.
CedulaValida(d) ==
    /\ ProvinciaValida(d)
    /\ d[3] <= 5
    /\ d[10] = Modulo10(SumaCedula(d))

\* A person's RUC: a cedula and an establishment that is not 000.
RucNatural(d) == CedulaValida(d) /\ \E i \in 11 .. 13 : d[i] # 0

RucPublico(d) ==
    /\ ProvinciaValida(d)
    /\ d[3] = 6
    /\ d[9] = Modulo11(SumaPublica(d))
    /\ \E i \in 10 .. 13 : d[i] # 0

RucPrivado(d) ==
    /\ ProvinciaValida(d)
    /\ d[3] = 9
    /\ d[10] = Modulo11(SumaPrivada(d))
    /\ \E i \in 11 .. 13 : d[i] # 0

\* validar_identificacion
IdentificacionValida(d) ==
    \/ Len(d) = 10 /\ CedulaValida(d)
    \/ Len(d) = 13 /\ (RucNatural(d) \/ RucPublico(d) \/ RucPrivado(d))

\* The third digit: a person, a public institution, a company.
Tipo(d) == IF d[3] <= 5 THEN "persona" ELSE IF d[3] = 6 THEN "publica" ELSE "sociedad"

\* The digits that the verifier protects, itself included.
Protegidos(d) == IF Tipo(d) = "publica" THEN 1 .. 9 ELSE 1 .. 10

\* One digit mistyped: the same kind of identification, and one protected digit that
\* is not the same.
UnDigitoDistinto(a, b) ==
    /\ Len(a) = Len(b) /\ Tipo(a) = Tipo(b)
    /\ \E i \in Protegidos(a) :
            a[i] # b[i] /\ \A j \in Protegidos(a) \ {i} : a[j] = b[j]
=============================================================================

------------------------------ MODULE Rounding ------------------------------
(***************************************************************************)
(* Python's round() of a quotient, as confidences and installments use it. *)
(***************************************************************************)
EXTENDS Integers

\* round(a / b): to the nearest integer, a tie to the even one.
RedondeoPar(a, b) ==
    LET q == a \div b
        r == 2 * (a % b)
    IN IF r < b \/ (r = b /\ q % 2 = 0) THEN q ELSE q + 1
=============================================================================

-------------------------- MODULE PortfolioProofs --------------------------
(***************************************************************************)
(* What Portfolio keeps for any clients, vehicles, policies and requests.  *)
(*                                                                         *)
(* The inductive invariant adds to TypeOK what a request that has read may *)
(* still rely on when it writes: Evolucion is how rows may change under    *)
(* it, and PeticionEstable shows that no such change takes it away.  The   *)
(* last section is what no step changes in a policy.                       *)
(***************************************************************************)
EXTENDS Portfolio, SequenceTheorems, TLAPS

-----------------------------------------------------------------------------
(* The verifiers of identifications tell any single mistyped digit: each    *)
(* sum changes by a multiple that the modulus does not divide.              *)

\* Doubling with the loss of nine permutes the digits.
LEMMA DobleInyectiva ==
    ASSUME NEW x \in Digitos, NEW y \in Digitos
    PROVE  Doble(x) \in Digitos /\ (x # y => Doble(x) # Doble(y))
  BY DEF Doble, Digitos

\* Sums closer than ten have different verifiers modulo ten.
LEMMA Modulo10Distingue ==
    ASSUME NEW s \in Nat, NEW t \in Nat, s # t, s - t <= 9, t - s <= 9
    PROVE  Modulo10(s) # Modulo10(t)
  BY DEF Modulo10

\* The verifier modulo eleven determines the remainder.
LEMMA Modulo11Distingue ==
    ASSUME NEW s \in Int, NEW t \in Int, s % 11 # t % 11
    PROVE  Modulo11(s) # Modulo11(t)
  BY DEF Modulo11

\* Eleven divides no product of a coefficient and a difference of digits.
LEMMA CoeficienteDistingue ==
    ASSUME NEW s \in Int, NEW t \in Int, NEW x \in Digitos, NEW y \in Digitos, x # y,
           \/ s - t = 2 * (x - y) \/ s - t = 3 * (x - y) \/ s - t = 4 * (x - y)
           \/ s - t = 5 * (x - y) \/ s - t = 6 * (x - y) \/ s - t = 7 * (x - y)
    PROVE  s % 11 # t % 11
  BY DEF Digitos

\* What the next lemmas know of two numbers that differ in digit i of the first n.
Errata(a, b, i, n) ==
    /\ \A j \in 1 .. n : a[j] \in Digitos /\ b[j] \in Digitos
    /\ i \in 1 .. n
    /\ a[i] # b[i]
    /\ \A j \in (1 .. n) \ {i} : a[j] = b[j]

LEMMA CedulaDistingue ==
    ASSUME NEW a, NEW b, NEW i, Errata(a, b, i, 10), CedulaValida(a)
    PROVE  ~ CedulaValida(b)
  <1>1. \A j \in 1 .. 10 : a[j] \in Digitos /\ b[j] \in Digitos /\ (j # i => a[j] = b[j])
    BY DEF Errata
  <1>2. \A j \in 1 .. 10 : /\ Doble(a[j]) \in Digitos /\ Doble(b[j]) \in Digitos
                           /\ (j # i => Doble(a[j]) = Doble(b[j]))
                           /\ (j = i => Doble(a[j]) # Doble(b[j]))
    BY <1>1, DobleInyectiva DEF Errata
  <1>digitos.
        /\ a[1] \in Nat /\ a[2] \in Nat /\ a[3] \in Nat /\ a[4] \in Nat /\ a[5] \in Nat
        /\ a[6] \in Nat /\ a[7] \in Nat /\ a[8] \in Nat /\ a[9] \in Nat /\ b[1] \in Nat
        /\ b[2] \in Nat /\ b[3] \in Nat /\ b[4] \in Nat /\ b[5] \in Nat /\ b[6] \in Nat
        /\ b[7] \in Nat /\ b[8] \in Nat /\ b[9] \in Nat
    BY <1>1 DEF Digitos
  <1>dobles.
        /\ Doble(a[1]) \in Nat /\ Doble(a[3]) \in Nat /\ Doble(a[5]) \in Nat /\ Doble(a[7]) \in Nat
        /\ Doble(a[9]) \in Nat /\ Doble(b[1]) \in Nat /\ Doble(b[3]) \in Nat /\ Doble(b[5]) \in Nat
        /\ Doble(b[7]) \in Nat /\ Doble(b[9]) \in Nat
    BY <1>2 DEF Digitos
  <1>3. SumaCedula(a) \in Nat /\ SumaCedula(b) \in Nat
    <2>1. SumaCedula(a) \in Nat
      BY ONLY <1>digitos, <1>dobles DEF SumaCedula
    <2>2. SumaCedula(b) \in Nat
      BY ONLY <1>digitos, <1>dobles DEF SumaCedula
    <2> QED
      BY <2>1, <2>2
  <1>4. i = 10 => SumaCedula(a) = SumaCedula(b)
    <2>1. ASSUME i = 10
          PROVE  /\ a[1] = b[1] /\ a[2] = b[2] /\ a[3] = b[3] /\ a[4] = b[4] /\ a[5] = b[5]
                 /\ a[6] = b[6] /\ a[7] = b[7] /\ a[8] = b[8] /\ a[9] = b[9]
      BY <1>1, <2>1
    <2> QED
      BY ONLY <2>1 DEF SumaCedula
  <1>5. ASSUME i \in 1 .. 9
        PROVE  /\ SumaCedula(a) # SumaCedula(b)
               /\ SumaCedula(a) - SumaCedula(b) <= 9 /\ SumaCedula(b) - SumaCedula(a) <= 9
    <2>1. a[i] # b[i] /\ a[i] - b[i] <= 9 /\ b[i] - a[i] <= 9
      BY <1>1, <1>5 DEF Errata, Digitos
    <2>2. /\ Doble(a[i]) # Doble(b[i])
          /\ Doble(a[i]) - Doble(b[i]) <= 9 /\ Doble(b[i]) - Doble(a[i]) <= 9
      BY <1>1, <1>2, <1>5 DEF Digitos
    <2>3. SumaCedula(a) - SumaCedula(b) \in {Doble(a[i]) - Doble(b[i]), a[i] - b[i]}
      <3>1. CASE i = 1
        <4>1. /\ a[2] = b[2] /\ a[3] = b[3] /\ a[4] = b[4] /\ a[5] = b[5]
              /\ a[6] = b[6] /\ a[7] = b[7] /\ a[8] = b[8] /\ a[9] = b[9]
          BY <1>1, <3>1
        <4>2. SumaCedula(a) - SumaCedula(b) = Doble(a[1]) - Doble(b[1])
          BY ONLY <1>digitos, <1>dobles, <4>1 DEF SumaCedula
        <4> QED
          BY <3>1, <4>2
      <3>2. CASE i = 2
        <4>1. /\ a[1] = b[1] /\ a[3] = b[3] /\ a[4] = b[4] /\ a[5] = b[5]
              /\ a[6] = b[6] /\ a[7] = b[7] /\ a[8] = b[8] /\ a[9] = b[9]
          BY <1>1, <3>2
        <4>2. SumaCedula(a) - SumaCedula(b) = a[2] - b[2]
          BY ONLY <1>digitos, <1>dobles, <4>1 DEF SumaCedula
        <4> QED
          BY <3>2, <4>2
      <3>3. CASE i = 3
        <4>1. /\ a[1] = b[1] /\ a[2] = b[2] /\ a[4] = b[4] /\ a[5] = b[5]
              /\ a[6] = b[6] /\ a[7] = b[7] /\ a[8] = b[8] /\ a[9] = b[9]
          BY <1>1, <3>3
        <4>2. SumaCedula(a) - SumaCedula(b) = Doble(a[3]) - Doble(b[3])
          BY ONLY <1>digitos, <1>dobles, <4>1 DEF SumaCedula
        <4> QED
          BY <3>3, <4>2
      <3>4. CASE i = 4
        <4>1. /\ a[1] = b[1] /\ a[2] = b[2] /\ a[3] = b[3] /\ a[5] = b[5]
              /\ a[6] = b[6] /\ a[7] = b[7] /\ a[8] = b[8] /\ a[9] = b[9]
          BY <1>1, <3>4
        <4>2. SumaCedula(a) - SumaCedula(b) = a[4] - b[4]
          BY ONLY <1>digitos, <1>dobles, <4>1 DEF SumaCedula
        <4> QED
          BY <3>4, <4>2
      <3>5. CASE i = 5
        <4>1. /\ a[1] = b[1] /\ a[2] = b[2] /\ a[3] = b[3] /\ a[4] = b[4]
              /\ a[6] = b[6] /\ a[7] = b[7] /\ a[8] = b[8] /\ a[9] = b[9]
          BY <1>1, <3>5
        <4>2. SumaCedula(a) - SumaCedula(b) = Doble(a[5]) - Doble(b[5])
          BY ONLY <1>digitos, <1>dobles, <4>1 DEF SumaCedula
        <4> QED
          BY <3>5, <4>2
      <3>6. CASE i = 6
        <4>1. /\ a[1] = b[1] /\ a[2] = b[2] /\ a[3] = b[3] /\ a[4] = b[4]
              /\ a[5] = b[5] /\ a[7] = b[7] /\ a[8] = b[8] /\ a[9] = b[9]
          BY <1>1, <3>6
        <4>2. SumaCedula(a) - SumaCedula(b) = a[6] - b[6]
          BY ONLY <1>digitos, <1>dobles, <4>1 DEF SumaCedula
        <4> QED
          BY <3>6, <4>2
      <3>7. CASE i = 7
        <4>1. /\ a[1] = b[1] /\ a[2] = b[2] /\ a[3] = b[3] /\ a[4] = b[4]
              /\ a[5] = b[5] /\ a[6] = b[6] /\ a[8] = b[8] /\ a[9] = b[9]
          BY <1>1, <3>7
        <4>2. SumaCedula(a) - SumaCedula(b) = Doble(a[7]) - Doble(b[7])
          BY ONLY <1>digitos, <1>dobles, <4>1 DEF SumaCedula
        <4> QED
          BY <3>7, <4>2
      <3>8. CASE i = 8
        <4>1. /\ a[1] = b[1] /\ a[2] = b[2] /\ a[3] = b[3] /\ a[4] = b[4]
              /\ a[5] = b[5] /\ a[6] = b[6] /\ a[7] = b[7] /\ a[9] = b[9]
          BY <1>1, <3>8
        <4>2. SumaCedula(a) - SumaCedula(b) = a[8] - b[8]
          BY ONLY <1>digitos, <1>dobles, <4>1 DEF SumaCedula
        <4> QED
          BY <3>8, <4>2
      <3>9. CASE i = 9
        <4>1. /\ a[1] = b[1] /\ a[2] = b[2] /\ a[3] = b[3] /\ a[4] = b[4]
              /\ a[5] = b[5] /\ a[6] = b[6] /\ a[7] = b[7] /\ a[8] = b[8]
          BY <1>1, <3>9
        <4>2. SumaCedula(a) - SumaCedula(b) = Doble(a[9]) - Doble(b[9])
          BY ONLY <1>digitos, <1>dobles, <4>1 DEF SumaCedula
        <4> QED
          BY <3>9, <4>2
      <3> QED
        BY <1>5, <3>1, <3>2, <3>3, <3>4, <3>5, <3>6, <3>7, <3>8, <3>9
    <2>4. a[i] \in Int /\ b[i] \in Int /\ Doble(a[i]) \in Int /\ Doble(b[i]) \in Int
      BY <1>1, <1>2, <1>5 DEF Digitos
    <2> QED
      BY <1>3, <2>1, <2>2, <2>3, <2>4
  <1>6. CASE i = 10
    BY <1>4, <1>6 DEF CedulaValida, Errata
  <1>7. CASE i \in 1 .. 9
    <2>1. Modulo10(SumaCedula(a)) # Modulo10(SumaCedula(b))
      BY <1>3, <1>5, <1>7, Modulo10Distingue
    <2>2. a[10] = b[10]
      BY <1>1, <1>7
    <2> QED
      BY <2>1, <2>2 DEF CedulaValida
  <1> QED
    BY <1>6, <1>7 DEF Errata

LEMMA RucPublicoDistingue ==
    ASSUME NEW a, NEW b, NEW i, Errata(a, b, i, 9), RucPublico(a)
    PROVE  ~ RucPublico(b)
  <1>1. \A j \in 1 .. 9 : a[j] \in Digitos /\ b[j] \in Digitos /\ (j # i => a[j] = b[j])
    BY DEF Errata
  <1>2. a[i] # b[i] /\ i \in 1 .. 9
    BY DEF Errata
  <1>digitos.
        /\ a[1] \in Nat /\ a[2] \in Nat /\ a[3] \in Nat /\ a[4] \in Nat /\ a[5] \in Nat
        /\ a[6] \in Nat /\ a[7] \in Nat /\ a[8] \in Nat /\ b[1] \in Nat /\ b[2] \in Nat
        /\ b[3] \in Nat /\ b[4] \in Nat /\ b[5] \in Nat /\ b[6] \in Nat /\ b[7] \in Nat
        /\ b[8] \in Nat
    BY <1>1 DEF Digitos
  <1>3. SumaPublica(a) \in Int /\ SumaPublica(b) \in Int
    <2>1. SumaPublica(a) \in Int
      BY ONLY <1>digitos DEF SumaPublica
    <2>2. SumaPublica(b) \in Int
      BY ONLY <1>digitos DEF SumaPublica
    <2> QED
      BY <2>1, <2>2
  <1>4. CASE i = 9
    <2>1. SumaPublica(a) = SumaPublica(b)
      <3>1. /\ a[1] = b[1] /\ a[2] = b[2] /\ a[3] = b[3] /\ a[4] = b[4] /\ a[5] = b[5]
            /\ a[6] = b[6] /\ a[7] = b[7] /\ a[8] = b[8]
        BY <1>1, <1>4
      <3> QED
        BY ONLY <1>digitos, <3>1 DEF SumaPublica
    <2> QED
      BY <1>2, <1>4, <2>1 DEF RucPublico
  <1>5. CASE i \in 1 .. 8
    <2> DEFINE s == SumaPublica(a)
               t == SumaPublica(b)
    <2>1. \/ s - t = 2 * (a[i] - b[i]) \/ s - t = 3 * (a[i] - b[i])
          \/ s - t = 4 * (a[i] - b[i]) \/ s - t = 5 * (a[i] - b[i])
          \/ s - t = 6 * (a[i] - b[i]) \/ s - t = 7 * (a[i] - b[i])
      <3>1. CASE i = 1
        <4>1. /\ a[2] = b[2] /\ a[3] = b[3] /\ a[4] = b[4] /\ a[5] = b[5]
              /\ a[6] = b[6] /\ a[7] = b[7] /\ a[8] = b[8]
          BY <1>1, <3>1
        <4>2. s - t = 3 * (a[1] - b[1])
          BY ONLY <1>digitos, <4>1, SMTT(60) DEF SumaPublica
        <4> QED
          BY <3>1, <4>2
      <3>2. CASE i = 2
        <4>1. /\ a[1] = b[1] /\ a[3] = b[3] /\ a[4] = b[4] /\ a[5] = b[5]
              /\ a[6] = b[6] /\ a[7] = b[7] /\ a[8] = b[8]
          BY <1>1, <3>2
        <4>2. s - t = 2 * (a[2] - b[2])
          BY ONLY <1>digitos, <4>1 DEF SumaPublica
        <4> QED
          BY <3>2, <4>2
      <3>3. CASE i = 3
        <4>1. /\ a[1] = b[1] /\ a[2] = b[2] /\ a[4] = b[4] /\ a[5] = b[5]
              /\ a[6] = b[6] /\ a[7] = b[7] /\ a[8] = b[8]
          BY <1>1, <3>3
        <4>2. s - t = 7 * (a[3] - b[3])
          BY ONLY <1>digitos, <4>1 DEF SumaPublica
        <4> QED
          BY <3>3, <4>2
      <3>4. CASE i = 4
        <4>1. /\ a[1] = b[1] /\ a[2] = b[2] /\ a[3] = b[3] /\ a[5] = b[5]
              /\ a[6] = b[6] /\ a[7] = b[7] /\ a[8] = b[8]
          BY <1>1, <3>4
        <4>2. s - t = 6 * (a[4] - b[4])
          BY ONLY <1>digitos, <4>1 DEF SumaPublica
        <4> QED
          BY <3>4, <4>2
      <3>5. CASE i = 5
        <4>1. /\ a[1] = b[1] /\ a[2] = b[2] /\ a[3] = b[3] /\ a[4] = b[4]
              /\ a[6] = b[6] /\ a[7] = b[7] /\ a[8] = b[8]
          BY <1>1, <3>5
        <4>2. s - t = 5 * (a[5] - b[5])
          BY ONLY <1>digitos, <4>1 DEF SumaPublica
        <4> QED
          BY <3>5, <4>2
      <3>6. CASE i = 6
        <4>1. /\ a[1] = b[1] /\ a[2] = b[2] /\ a[3] = b[3] /\ a[4] = b[4]
              /\ a[5] = b[5] /\ a[7] = b[7] /\ a[8] = b[8]
          BY <1>1, <3>6
        <4>2. s - t = 4 * (a[6] - b[6])
          BY ONLY <1>digitos, <4>1 DEF SumaPublica
        <4> QED
          BY <3>6, <4>2
      <3>7. CASE i = 7
        <4>1. /\ a[1] = b[1] /\ a[2] = b[2] /\ a[3] = b[3] /\ a[4] = b[4]
              /\ a[5] = b[5] /\ a[6] = b[6] /\ a[8] = b[8]
          BY <1>1, <3>7
        <4>2. s - t = 3 * (a[7] - b[7])
          BY ONLY <1>digitos, <4>1 DEF SumaPublica
        <4> QED
          BY <3>7, <4>2
      <3>8. CASE i = 8
        <4>1. /\ a[1] = b[1] /\ a[2] = b[2] /\ a[3] = b[3] /\ a[4] = b[4]
              /\ a[5] = b[5] /\ a[6] = b[6] /\ a[7] = b[7]
          BY <1>1, <3>8
        <4>2. s - t = 2 * (a[8] - b[8])
          BY ONLY <1>digitos, <4>1 DEF SumaPublica
        <4> QED
          BY <3>8, <4>2
      <3> QED
        BY <1>5, <3>1, <3>2, <3>3, <3>4, <3>5, <3>6, <3>7, <3>8
    <2>2. s % 11 # t % 11
      <3> HIDE DEF s, t
      <3> QED
        BY <1>1, <1>2, <1>3, <2>1, CoeficienteDistingue DEF s, t
    <2>3. Modulo11(s) # Modulo11(t)
      BY <1>3, <2>2, Modulo11Distingue
    <2>4. a[9] = b[9]
      BY <1>1, <1>5
    <2> QED
      BY <2>3, <2>4 DEF RucPublico
  <1> QED
    BY <1>2, <1>4, <1>5

LEMMA RucPrivadoDistingue ==
    ASSUME NEW a, NEW b, NEW i, Errata(a, b, i, 10), RucPrivado(a)
    PROVE  ~ RucPrivado(b)
  <1>1. \A j \in 1 .. 10 : a[j] \in Digitos /\ b[j] \in Digitos /\ (j # i => a[j] = b[j])
    BY DEF Errata
  <1>2. a[i] # b[i] /\ i \in 1 .. 10
    BY DEF Errata
  <1>digitos.
        /\ a[1] \in Nat /\ a[2] \in Nat /\ a[3] \in Nat /\ a[4] \in Nat /\ a[5] \in Nat
        /\ a[6] \in Nat /\ a[7] \in Nat /\ a[8] \in Nat /\ a[9] \in Nat /\ b[1] \in Nat
        /\ b[2] \in Nat /\ b[3] \in Nat /\ b[4] \in Nat /\ b[5] \in Nat /\ b[6] \in Nat
        /\ b[7] \in Nat /\ b[8] \in Nat /\ b[9] \in Nat
    BY <1>1 DEF Digitos
  <1>3. SumaPrivada(a) \in Int /\ SumaPrivada(b) \in Int
    <2>1. SumaPrivada(a) \in Int
      BY ONLY <1>digitos, SMTT(30) DEF SumaPrivada
    <2>2. SumaPrivada(b) \in Int
      BY ONLY <1>digitos, SMTT(30) DEF SumaPrivada
    <2> QED
      BY <2>1, <2>2
  <1>4. CASE i = 10
    <2>1. SumaPrivada(a) = SumaPrivada(b)
      <3>1. /\ a[1] = b[1] /\ a[2] = b[2] /\ a[3] = b[3] /\ a[4] = b[4] /\ a[5] = b[5]
            /\ a[6] = b[6] /\ a[7] = b[7] /\ a[8] = b[8] /\ a[9] = b[9]
        BY <1>1, <1>4
      <3> QED
        BY ONLY <1>digitos, <3>1 DEF SumaPrivada
    <2> QED
      BY <1>2, <1>4, <2>1 DEF RucPrivado
  <1>5. CASE i \in 1 .. 9
    <2> DEFINE s == SumaPrivada(a)
               t == SumaPrivada(b)
    <2>1. \/ s - t = 2 * (a[i] - b[i]) \/ s - t = 3 * (a[i] - b[i])
          \/ s - t = 4 * (a[i] - b[i]) \/ s - t = 5 * (a[i] - b[i])
          \/ s - t = 6 * (a[i] - b[i]) \/ s - t = 7 * (a[i] - b[i])
      <3>1. CASE i = 1
        <4>1. /\ a[2] = b[2] /\ a[3] = b[3] /\ a[4] = b[4] /\ a[5] = b[5]
              /\ a[6] = b[6] /\ a[7] = b[7] /\ a[8] = b[8] /\ a[9] = b[9]
          BY <1>1, <3>1
        <4>2. s - t = 4 * (a[1] - b[1])
          BY ONLY <1>digitos, <4>1 DEF SumaPrivada
        <4> QED
          BY <3>1, <4>2
      <3>2. CASE i = 2
        <4>1. /\ a[1] = b[1] /\ a[3] = b[3] /\ a[4] = b[4] /\ a[5] = b[5]
              /\ a[6] = b[6] /\ a[7] = b[7] /\ a[8] = b[8] /\ a[9] = b[9]
          BY <1>1, <3>2
        <4>2. s - t = 3 * (a[2] - b[2])
          BY ONLY <1>digitos, <4>1 DEF SumaPrivada
        <4> QED
          BY <3>2, <4>2
      <3>3. CASE i = 3
        <4>1. /\ a[1] = b[1] /\ a[2] = b[2] /\ a[4] = b[4] /\ a[5] = b[5]
              /\ a[6] = b[6] /\ a[7] = b[7] /\ a[8] = b[8] /\ a[9] = b[9]
          BY <1>1, <3>3
        <4>2. s - t = 2 * (a[3] - b[3])
          BY ONLY <1>digitos, <4>1 DEF SumaPrivada
        <4> QED
          BY <3>3, <4>2
      <3>4. CASE i = 4
        <4>1. /\ a[1] = b[1] /\ a[2] = b[2] /\ a[3] = b[3] /\ a[5] = b[5]
              /\ a[6] = b[6] /\ a[7] = b[7] /\ a[8] = b[8] /\ a[9] = b[9]
          BY <1>1, <3>4
        <4>2. s - t = 7 * (a[4] - b[4])
          BY ONLY <1>digitos, <4>1 DEF SumaPrivada
        <4> QED
          BY <3>4, <4>2
      <3>5. CASE i = 5
        <4>1. /\ a[1] = b[1] /\ a[2] = b[2] /\ a[3] = b[3] /\ a[4] = b[4]
              /\ a[6] = b[6] /\ a[7] = b[7] /\ a[8] = b[8] /\ a[9] = b[9]
          BY <1>1, <3>5
        <4>2. s - t = 6 * (a[5] - b[5])
          BY ONLY <1>digitos, <4>1 DEF SumaPrivada
        <4> QED
          BY <3>5, <4>2
      <3>6. CASE i = 6
        <4>1. /\ a[1] = b[1] /\ a[2] = b[2] /\ a[3] = b[3] /\ a[4] = b[4]
              /\ a[5] = b[5] /\ a[7] = b[7] /\ a[8] = b[8] /\ a[9] = b[9]
          BY <1>1, <3>6
        <4>2. s - t = 5 * (a[6] - b[6])
          BY ONLY <1>digitos, <4>1 DEF SumaPrivada
        <4> QED
          BY <3>6, <4>2
      <3>7. CASE i = 7
        <4>1. /\ a[1] = b[1] /\ a[2] = b[2] /\ a[3] = b[3] /\ a[4] = b[4]
              /\ a[5] = b[5] /\ a[6] = b[6] /\ a[8] = b[8] /\ a[9] = b[9]
          BY <1>1, <3>7
        <4>2. s - t = 4 * (a[7] - b[7])
          BY ONLY <1>digitos, <4>1 DEF SumaPrivada
        <4> QED
          BY <3>7, <4>2
      <3>8. CASE i = 8
        <4>1. /\ a[1] = b[1] /\ a[2] = b[2] /\ a[3] = b[3] /\ a[4] = b[4]
              /\ a[5] = b[5] /\ a[6] = b[6] /\ a[7] = b[7] /\ a[9] = b[9]
          BY <1>1, <3>8
        <4>2. s - t = 3 * (a[8] - b[8])
          BY ONLY <1>digitos, <4>1 DEF SumaPrivada
        <4> QED
          BY <3>8, <4>2
      <3>9. CASE i = 9
        <4>1. /\ a[1] = b[1] /\ a[2] = b[2] /\ a[3] = b[3] /\ a[4] = b[4]
              /\ a[5] = b[5] /\ a[6] = b[6] /\ a[7] = b[7] /\ a[8] = b[8]
          BY <1>1, <3>9
        <4>2. s - t = 2 * (a[9] - b[9])
          BY ONLY <1>digitos, <4>1 DEF SumaPrivada
        <4> QED
          BY <3>9, <4>2
      <3> QED
        BY <1>5, <3>1, <3>2, <3>3, <3>4, <3>5, <3>6, <3>7, <3>8, <3>9
    <2>2. s % 11 # t % 11
      <3> HIDE DEF s, t
      <3> QED
        BY <1>1, <1>2, <1>3, <2>1, CoeficienteDistingue DEF s, t
    <2>3. Modulo11(s) # Modulo11(t)
      BY <1>3, <2>2, Modulo11Distingue
    <2>4. a[10] = b[10]
      BY <1>1, <1>5
    <2> QED
      BY <2>3, <2>4 DEF RucPrivado
  <1> QED
    BY <1>2, <1>4, <1>5

\* validar_identificacion never accepts two numbers of a kind that differ in exactly
\* one of the digits under its verifier: every such slip of a typist is noticed.
THEOREM UnaErrataSeNota ==
    ASSUME NEW a \in Numeros, NEW b \in Numeros, UnDigitoDistinto(a, b),
           IdentificacionValida(a)
    PROVE  ~ IdentificacionValida(b)
  <1>1. PICK i \in Protegidos(a) :
            a[i] # b[i] /\ \A j \in Protegidos(a) \ {i} : a[j] = b[j]
    BY DEF UnDigitoDistinto
  <1>2. \A j \in 1 .. 10 : a[j] \in Digitos /\ b[j] \in Digitos
    BY DEF Numeros
  <1>3. Tipo(a) = Tipo(b) /\ Len(a) = Len(b)
    BY DEF UnDigitoDistinto
  <1>4. a[3] \in 0 .. 9 /\ b[3] \in 0 .. 9
    BY <1>2 DEF Digitos
  <1>5. CASE Tipo(a) = "publica"
    <2>1. Errata(a, b, i, 9)
      BY <1>1, <1>2, <1>5 DEF Errata, Protegidos
    <2>2. a[3] = 6 /\ b[3] = 6
      BY <1>3, <1>4, <1>5 DEF Tipo
    <2>3. RucPublico(a)
      BY <2>2 DEF IdentificacionValida, CedulaValida, RucNatural, RucPrivado
    <2>4. ~ RucPublico(b)
      BY <2>1, <2>3, RucPublicoDistingue
    <2> QED
      BY <2>2, <2>4 DEF IdentificacionValida, CedulaValida, RucNatural, RucPrivado
  <1>6. CASE Tipo(a) = "persona"
    <2>1. Errata(a, b, i, 10)
      BY <1>1, <1>2, <1>6 DEF Errata, Protegidos
    <2>2. a[3] <= 5 /\ b[3] <= 5
      BY <1>3, <1>4, <1>6 DEF Tipo
    <2>3. CedulaValida(a)
      BY <1>4, <2>2 DEF IdentificacionValida, RucNatural, RucPublico, RucPrivado
    <2>4. ~ CedulaValida(b)
      BY <2>1, <2>3, CedulaDistingue
    <2> QED
      BY <1>4, <2>2, <2>4 DEF IdentificacionValida, RucNatural, RucPublico, RucPrivado
  <1>7. CASE Tipo(a) = "sociedad"
    <2>1. Errata(a, b, i, 10)
      BY <1>1, <1>2, <1>7 DEF Errata, Protegidos
    <2>2. ~(a[3] <= 5) /\ a[3] # 6 /\ ~(b[3] <= 5) /\ b[3] # 6
      BY <1>3, <1>4, <1>7 DEF Tipo
    <2>3. RucPrivado(a)
      BY <2>2 DEF IdentificacionValida, CedulaValida, RucNatural, RucPublico
    <2>4. ~ RucPrivado(b)
      BY <2>1, <2>3, RucPrivadoDistingue
    <2> QED
      BY <2>2, <2>4 DEF IdentificacionValida, CedulaValida, RucNatural, RucPublico
  <1> QED
    BY <1>5, <1>6, <1>7 DEF Tipo

-----------------------------------------------------------------------------
(* The number of installments.                                              *)

\* A rounded quotient is within half a divisor.
LEMMA RedondeoCercano ==
    ASSUME NEW a \in Nat, NEW b \in Nat \ {0}
    PROVE  /\ RedondeoPar(a, b) \in Nat
           /\ 2 * (b * RedondeoPar(a, b)) <= 2 * a + b
           /\ 2 * a <= 2 * (b * RedondeoPar(a, b)) + b
  <1> DEFINE q == a \div b
             r == a % b
  <1>1. q \in Nat /\ r \in Nat /\ r < b /\ a = b * q + r
    OBVIOUS
  <1>2. RedondeoPar(a, b) \in {q, q + 1}
    BY <1>1 DEF RedondeoPar
  <1>3. b * (q + 1) = b * q + b /\ b * q \in Nat
    BY <1>1
  <1>4. /\ RedondeoPar(a, b) = q => 2 * r <= b
        /\ RedondeoPar(a, b) = q + 1 => 2 * r >= b
    BY <1>1 DEF RedondeoPar
  <1> HIDE DEF q, r
  <1> QED
    BY <1>1, <1>2, <1>3, <1>4

\* The products of the plan grow with the number of the installment.
LEMMA Monotona ==
    ASSUME NEW b \in Nat, NEW x \in Int, NEW y \in Int, x <= y
    PROVE  b * x <= b * y
  OBVIOUS

LEMMA NumCuotasCubre ==
    ASSUME NEW d \in Nat \ {0}
    PROVE  /\ NumCuotas(d) \in 1 .. MaxCuotas
           /\ Periodo * (NumCuotas(d) - 1) < d
           /\ NumCuotas(d) < MaxCuotas => 2 * (d - Periodo * (NumCuotas(d) - 1)) <= 3 * Periodo
  <1> DEFINE R == RedondeoPar(d, Periodo)
             n == NumCuotas(d)
  <1>1. Periodo \in Nat \ {0} /\ MaxCuotas \in Nat \ {0}
    BY CarteraAssumption
  <1>2. /\ R \in Nat
        /\ 2 * (Periodo * R) <= 2 * d + Periodo
        /\ 2 * d <= 2 * (Periodo * R) + Periodo
    BY <1>1, RedondeoCercano
  <1>3. n = IF R < 1 THEN 1 ELSE IF R > MaxCuotas THEN MaxCuotas ELSE R
    BY DEF NumCuotas
  <1> HIDE DEF n, R
  <1>4. n \in 1 .. MaxCuotas
    BY <1>1, <1>2, <1>3
  <1>5. Periodo * (n - 1) = Periodo * n - Periodo /\ Periodo * n \in Int /\ Periodo * R \in Int
    BY <1>1, <1>2, <1>4
  <1>6. CASE R < 1
    <2>1. n = 1 /\ R = 0
      BY <1>2, <1>3, <1>6
    <2>2. Periodo * n = Periodo /\ Periodo * R = 0
      BY <1>1, <2>1
    <2> QED
      BY <1>1, <1>2, <1>4, <1>5, <2>2 DEF n
  <1>7. CASE R >= 1
    <2>1. n <= R /\ (n < MaxCuotas => n = R)
      BY <1>1, <1>2, <1>3, <1>7
    <2>2. Periodo * n <= Periodo * R
      BY <1>1, <1>2, <1>4, <2>1, Monotona
    <2> QED
      BY <1>1, <1>2, <1>4, <1>5, <2>1, <2>2 DEF n
  <1> QED
    BY <1>2, <1>6, <1>7

-----------------------------------------------------------------------------
(* The inductive invariant.                                                 *)

FilasOK ==
    /\ cliente \in [Clientes -> {"sin", "vivo", "borrado"}]
    /\ vehiculo \in [Vehiculos -> FilasVehiculo \union {SinFila, Borrada}]
    /\ poliza \in [Polizas -> FilasPoliza \union {SinFila, Borrada}]
    /\ \A v \in Vehiculos : VivoVehiculo(v) => VivoCliente(vehiculo[v].dueno)
    /\ \A p \in Polizas : VivaPoliza(p) =>
            VivoCliente(poliza[p].titular) /\ VivoVehiculo(poliza[p].auto)

Registradas == \A c \in Clientes : cliente[c] # "sin" => IdentificacionValida(c)

PlanDe(d, c) ==
    /\ d \in Nat \ {0}
    /\ Len(c) = NumCuotas(d)
    /\ \A i \in 1 .. Len(c) : c[i].vence = Periodo * (i - 1)

Planes == \A p \in Polizas : VivaPoliza(p) => PlanDe(poliza[p].dias, poliza[p].cuotas)

\* The installment is there while its policy is, and one seen paid stays paid.
PagoOK(q, po) ==
    /\ po[q.pol].fila # "sin"
    /\ po[q.pol].fila = "viva" =>
            /\ q.cuota \in DOMAIN po[q.pol].cuotas
            /\ q.visto # Pendiente => po[q.pol].cuotas[q.cuota].abono # Pendiente

\* No policy that the deletion could see is the client's, nor, once it has asked for
\* vehicles, on a vehicle of the client's.
BorradoOK(q, ve, po) ==
    \A p \in q.vistas :
        /\ po[p].fila # "sin"
        /\ po[p].fila = "viva" =>
                /\ po[p].titular # q.cli
                /\ q.op = "borrarSinNada" => ve[po[p].auto].dueno # q.cli

PeticionOK(q, ve, po) ==
    /\ q \in Abiertas \union {Libre}
    /\ q.op = "registrar" => IdentificacionValida(q.cli)
    /\ q.op = "poliza" => q.dias > 0
    /\ q.op = "pago" => PagoOK(q, po)
    /\ q.op \in {"borrarSinPolizas", "borrarSinNada"} => BorradoOK(q, ve, po)

Peticion == \A b \in Peticiones : PeticionOK(peticion[b], vehiculo, poliza)

IInv ==
    /\ FilasOK
    /\ Registradas
    /\ Planes
    /\ peticion \in [Peticiones -> Abiertas \union {Libre}]
    /\ Peticion

\* How rows change under a request: one that was there is never new again, and while
\* it lives it keeps its references, its installments and what is paid.
Evolucion ==
    /\ \A p \in Polizas : poliza[p].fila # "sin" =>
            /\ poliza'[p].fila # "sin"
            /\ poliza'[p].fila = "viva" =>
                    /\ poliza[p].fila = "viva"
                    /\ poliza'[p].titular = poliza[p].titular
                    /\ poliza'[p].auto = poliza[p].auto
                    /\ DOMAIN poliza'[p].cuotas = DOMAIN poliza[p].cuotas
                    /\ \A i \in DOMAIN poliza[p].cuotas :
                            poliza[p].cuotas[i].abono # Pendiente =>
                                poliza'[p].cuotas[i].abono # Pendiente
    /\ \A v \in Vehiculos : vehiculo[v].fila = "viva" /\ vehiculo'[v].fila = "viva" =>
            vehiculo'[v] = vehiculo[v]

\* An operation tells the columns of a request.
LEMMA TipoDePeticion ==
    ASSUME NEW q \in Abiertas \union {Libre}
    PROVE  /\ q.op = "registrar" => q.cli \in Clientes
           /\ q.op = "vehiculo" => q.auto \in Vehiculos /\ q.cli \in Clientes
           /\ q.op = "poliza" => /\ q.pol \in Polizas /\ q.cli \in Clientes
                                 /\ q.auto \in Vehiculos /\ q.dias \in Int
           /\ q.op = "pago" => /\ q.pol \in Polizas /\ q.cuota \in 1 .. MaxCuotas
                               /\ q.visto \in Abonos /\ q.recibo \in Recibos
           /\ q.op \in {"borrar", "borrarSinPolizas", "borrarSinNada"} =>
                 q \in [op : {"borrar", "borrarSinPolizas", "borrarSinNada"},
                        cli : Clientes, vistas : SUBSET Polizas]
  BY DEF Abiertas, Libre

\* What a request relies on survives any such change.
LEMMA PeticionEstable ==
    ASSUME FilasOK, FilasOK', Evolucion, NEW q, PeticionOK(q, vehiculo, poliza)
    PROVE  PeticionOK(q, vehiculo', poliza')
  <1>1. q \in Abiertas \union {Libre}
    BY DEF PeticionOK
  <1>2. ASSUME q.op = "pago"
        PROVE  PagoOK(q, poliza')
    <2>1. q.pol \in Polizas /\ PagoOK(q, poliza)
      BY <1>1, <1>2, TipoDePeticion DEF PeticionOK
    <2> QED
      BY <2>1 DEF PagoOK, Evolucion
  <1>3. ASSUME q.op \in {"borrarSinPolizas", "borrarSinNada"}
        PROVE  BorradoOK(q, vehiculo', poliza')
    <2>1. q.vistas \subseteq Polizas /\ BorradoOK(q, vehiculo, poliza)
      BY <1>1, <1>3, TipoDePeticion DEF PeticionOK
    <2> SUFFICES ASSUME NEW p \in q.vistas
                 PROVE  /\ poliza'[p].fila # "sin"
                        /\ poliza'[p].fila = "viva" =>
                              /\ poliza'[p].titular # q.cli
                              /\ q.op = "borrarSinNada" => vehiculo'[poliza'[p].auto].dueno # q.cli
      BY DEF BorradoOK
    <2>2. p \in Polizas /\ poliza[p].fila # "sin"
      BY <2>1 DEF BorradoOK
    <2>3. poliza'[p].fila # "sin"
      BY <2>2 DEF Evolucion
    <2>4. ASSUME poliza'[p].fila = "viva"
          PROVE  /\ poliza'[p].titular # q.cli
                 /\ q.op = "borrarSinNada" => vehiculo'[poliza'[p].auto].dueno # q.cli
      <3>1. /\ poliza[p].fila = "viva" /\ poliza'[p].titular = poliza[p].titular
            /\ poliza'[p].auto = poliza[p].auto
        BY <2>2, <2>4 DEF Evolucion
      <3>2. poliza[p].auto \in Vehiculos
        BY <2>2, <3>1 DEF FilasOK, FilasPoliza, SinFila, Borrada
      <3>3. vehiculo[poliza[p].auto].fila = "viva" /\ vehiculo'[poliza[p].auto].fila = "viva"
        BY <2>2, <2>4, <3>1 DEF FilasOK, VivaPoliza, VivoVehiculo
      <3>4. vehiculo'[poliza[p].auto] = vehiculo[poliza[p].auto]
        BY <3>2, <3>3 DEF Evolucion
      <3> QED
        BY <2>1, <3>1, <3>4 DEF BorradoOK
    <2> QED
      BY <2>3, <2>4
  <1> QED
    BY <1>1, <1>2, <1>3 DEF PeticionOK

-----------------------------------------------------------------------------
(* The steps that only read.                                                *)

LEMMA SoloLee ==
    ASSUME IInv, NEW a \in Peticiones, NEW q, peticion' = [peticion EXCEPT ![a] = q],
           UNCHANGED filas, PeticionOK(q, vehiculo, poliza)
    PROVE  IInv'
  <1>1. FilasOK'
    BY DEF IInv, FilasOK, filas, VivoVehiculo, VivoCliente, VivaPoliza
  <1>2. Registradas' /\ Planes'
    BY DEF IInv, Registradas, Planes, filas, VivaPoliza
  <1>3. q \in Abiertas \union {Libre}
    BY DEF PeticionOK
  <1>4. peticion' \in [Peticiones -> Abiertas \union {Libre}]
    BY <1>3 DEF IInv
  <1>5. Peticion'
    <2> SUFFICES ASSUME NEW b \in Peticiones
                 PROVE  PeticionOK(peticion'[b], vehiculo, poliza)
      BY DEF Peticion, filas
    <2>1. CASE b = a
      BY <2>1 DEF IInv
    <2>2. CASE b # a
      BY <2>2 DEF IInv, Peticion
    <2> QED
      BY <2>1, <2>2
  <1> QED
    BY <1>1, <1>2, <1>4, <1>5 DEF IInv

LEMMA LibreOK ==
    ASSUME NEW ve, NEW po
    PROVE  PeticionOK(Libre, ve, po)
  BY DEF PeticionOK, Libre

LEMMA PasoAbrirRegistro ==
    ASSUME IInv, NEW a \in Peticiones, NEW c \in Clientes, AbrirRegistro(a, c)
    PROVE  IInv'
  <1> DEFINE q == [op |-> "registrar", cli |-> c]
  <1>1. q \in Abiertas
    BY DEF Abiertas
  <1>2. PeticionOK(q, vehiculo, poliza)
    BY <1>1 DEF PeticionOK, AbrirRegistro
  <1> QED
    BY <1>2, SoloLee DEF AbrirRegistro, Abrir

LEMMA PasoAbrirVehiculo ==
    ASSUME IInv, NEW a \in Peticiones, NEW v \in Vehiculos, NEW c \in Clientes,
           AbrirVehiculo(a, v, c)
    PROVE  IInv'
  <1> DEFINE q == [op |-> "vehiculo", auto |-> v, cli |-> c]
  <1>1. q \in Abiertas
    BY DEF Abiertas
  <1>2. PeticionOK(q, vehiculo, poliza)
    BY <1>1 DEF PeticionOK
  <1> QED
    BY <1>2, SoloLee DEF AbrirVehiculo, Abrir

LEMMA PasoAbrirPoliza ==
    ASSUME IInv, NEW a \in Peticiones, NEW p \in Polizas, NEW c \in Clientes,
           NEW v \in Vehiculos, NEW d \in Duraciones, AbrirPoliza(a, p, c, v, d)
    PROVE  IInv'
  <1> DEFINE q == [op |-> "poliza", pol |-> p, cli |-> c, auto |-> v, dias |-> d]
  <1>1. q \in Abiertas
    BY CarteraAssumption DEF Abiertas
  <1>2. PeticionOK(q, vehiculo, poliza)
    BY <1>1 DEF PeticionOK, AbrirPoliza
  <1> QED
    BY <1>2, SoloLee DEF AbrirPoliza, Abrir

\* The columns of an installment of a living policy.
LEMMA TipoDeAbono ==
    ASSUME FilasOK, NEW p \in Polizas, VivaPoliza(p), NEW i \in DOMAIN poliza[p].cuotas
    PROVE  poliza[p].cuotas[i].abono \in Abonos /\ poliza[p].cuotas[i].vence \in Int
  <1>1. poliza[p] \in FilasPoliza
    BY DEF FilasOK, VivaPoliza, SinFila, Borrada
  <1>2. poliza[p].cuotas \in Seq(Cuota)
    BY <1>1 DEF FilasPoliza
  <1>3. poliza[p].cuotas[i] \in Cuota
    BY <1>2
  <1> QED
    BY <1>3 DEF Cuota

LEMMA PasoAbrirPago ==
    ASSUME IInv, NEW a \in Peticiones, NEW p \in Polizas, NEW i \in 1 .. MaxCuotas,
           NEW r \in Recibos, AbrirPago(a, p, i, r)
    PROVE  IInv'
  <1> DEFINE q == [op |-> "pago", pol |-> p, cuota |-> i,
                   visto |-> poliza[p].cuotas[i].abono, recibo |-> r]
  <1>1. q \in Abiertas
    BY TipoDeAbono DEF Abiertas, AbrirPago, IInv
  <1>2. PagoOK(q, poliza)
    BY DEF PagoOK, AbrirPago, VivaPoliza
  <1>3. PeticionOK(q, vehiculo, poliza)
    BY <1>1, <1>2 DEF PeticionOK
  <1> QED
    BY <1>3, SoloLee DEF AbrirPago, Abrir

LEMMA PasoAbrirBorrado ==
    ASSUME IInv, NEW a \in Peticiones, NEW c \in Clientes, AbrirBorrado(a, c)
    PROVE  IInv'
  <1> DEFINE q == [op |-> "borrar", cli |-> c, vistas |-> {}]
  <1>1. q \in Abiertas
    BY DEF Abiertas
  <1>2. PeticionOK(q, vehiculo, poliza)
    BY <1>1 DEF PeticionOK
  <1> QED
    BY <1>2, SoloLee DEF AbrirBorrado, Abrir

LEMMA PasoComprobarPolizas ==
    ASSUME IInv, NEW a \in Peticiones, ComprobarPolizas(a)
    PROVE  IInv'
  <1> DEFINE vivas == {p \in Polizas : VivaPoliza(p)}
             q == [peticion[a] EXCEPT !.op = "borrarSinPolizas", !.vistas = vivas]
  <1>1. peticion[a] \in Abiertas \union {Libre} /\ peticion[a].op = "borrar"
    BY DEF IInv, ComprobarPolizas
  <1>2. peticion[a] \in [op : {"borrar", "borrarSinPolizas", "borrarSinNada"},
                         cli : Clientes, vistas : SUBSET Polizas]
    BY <1>1, TipoDePeticion
  <1>3. /\ q.op = "borrarSinPolizas" /\ q.cli = peticion[a].cli /\ q.vistas = vivas
        /\ q \in [op : {"borrar", "borrarSinPolizas", "borrarSinNada"},
                  cli : Clientes, vistas : SUBSET Polizas]
    BY <1>2
  <1>4. q \in Abiertas
    BY <1>3 DEF Abiertas
  <1>5. BorradoOK(q, vehiculo, poliza)
    BY <1>3 DEF BorradoOK, ComprobarPolizas, VivaPoliza
  <1>6. PeticionOK(q, vehiculo, poliza)
    BY <1>3, <1>4, <1>5 DEF PeticionOK
  <1>7. peticion' = [peticion EXCEPT ![a] = q] /\ UNCHANGED filas
    BY <1>1 DEF ComprobarPolizas, IInv
  <1> QED
    BY <1>6, <1>7, SoloLee

LEMMA PasoComprobarVehiculos ==
    ASSUME IInv, NEW a \in Peticiones, ComprobarVehiculos(a)
    PROVE  IInv'
  <1> DEFINE q == [peticion[a] EXCEPT !.op = "borrarSinNada"]
  <1>1. peticion[a] \in Abiertas \union {Libre} /\ peticion[a].op = "borrarSinPolizas"
    BY DEF IInv, ComprobarVehiculos
  <1>2. peticion[a] \in [op : {"borrar", "borrarSinPolizas", "borrarSinNada"},
                         cli : Clientes, vistas : SUBSET Polizas]
    BY <1>1, TipoDePeticion
  <1>3. /\ q.op = "borrarSinNada" /\ q.cli = peticion[a].cli
        /\ q.vistas = peticion[a].vistas
        /\ q \in [op : {"borrar", "borrarSinPolizas", "borrarSinNada"},
                  cli : Clientes, vistas : SUBSET Polizas]
    BY <1>2
  <1>4. q \in Abiertas
    BY <1>3 DEF Abiertas
  <1>5. BorradoOK(peticion[a], vehiculo, poliza)
    BY <1>1 DEF IInv, Peticion, PeticionOK
  <1>6. BorradoOK(q, vehiculo, poliza)
    <2> SUFFICES ASSUME NEW p \in q.vistas, poliza[p].fila = "viva"
                 PROVE  vehiculo[poliza[p].auto].dueno # q.cli
      BY <1>3, <1>5 DEF BorradoOK
    <2>1. p \in Polizas
      BY <1>2, <1>3
    <2>2. VivoVehiculo(poliza[p].auto) /\ poliza[p].auto \in Vehiculos
      BY <2>1 DEF IInv, FilasOK, VivaPoliza, FilasPoliza, SinFila, Borrada
    <2> QED
      BY <1>3, <2>2 DEF ComprobarVehiculos
  <1>7. PeticionOK(q, vehiculo, poliza)
    BY <1>3, <1>4, <1>6 DEF PeticionOK
  <1>8. peticion' = [peticion EXCEPT ![a] = q] /\ UNCHANGED filas
    BY <1>1 DEF ComprobarVehiculos, Avanzar, IInv
  <1> QED
    BY <1>7, <1>8, SoloLee

LEMMA PasoAbandonar ==
    ASSUME IInv, NEW a \in Peticiones, Abandonar(a)
    PROVE  IInv'
  BY SoloLee, LibreOK DEF Abandonar, Cerrar

-----------------------------------------------------------------------------
(* The steps that write.                                                    *)

LEMMA Escribe ==
    ASSUME IInv, NEW a \in Peticiones, Cerrar(a), FilasOK', Registradas', Planes', Evolucion
    PROVE  IInv'
  <1>1. peticion' \in [Peticiones -> Abiertas \union {Libre}]
    BY DEF IInv, Cerrar
  <1>2. Peticion'
    <2> SUFFICES ASSUME NEW b \in Peticiones
                 PROVE  PeticionOK(peticion'[b], vehiculo', poliza')
      BY DEF Peticion
    <2>1. CASE b = a
      BY <2>1, LibreOK DEF IInv, Cerrar
    <2>2. CASE b # a
      <3>1. PeticionOK(peticion[b], vehiculo, poliza) /\ peticion'[b] = peticion[b]
        BY <2>2 DEF IInv, Peticion, Cerrar
      <3> QED
        BY <3>1, PeticionEstable DEF IInv
    <2> QED
      BY <2>1, <2>2
  <1> QED
    BY <1>1, <1>2 DEF IInv

\* What the rows are, by their state.
LEMMA TipoDeFila ==
    ASSUME FilasOK
    PROVE  /\ \A p \in Polizas : VivaPoliza(p) => poliza[p] \in FilasPoliza
           /\ \A p \in Polizas : poliza[p].fila = "sin" => poliza[p] = SinFila
           /\ \A v \in Vehiculos : VivoVehiculo(v) => vehiculo[v] \in FilasVehiculo
  BY DEF FilasOK, VivaPoliza, VivoVehiculo, FilasPoliza, FilasVehiculo, SinFila, Borrada

LEMMA PasoConfirmarRegistro ==
    ASSUME IInv, NEW a \in Peticiones, ConfirmarRegistro(a)
    PROVE  IInv'
  <1> DEFINE c == peticion[a].cli
  <1>1. c \in Clientes /\ IdentificacionValida(c)
    BY TipoDePeticion DEF IInv, Peticion, PeticionOK, ConfirmarRegistro
  <1>2. cliente' = [cliente EXCEPT ![c] = "vivo"] /\ Cerrar(a) /\ UNCHANGED <<vehiculo, poliza>>
    BY DEF ConfirmarRegistro
  <1> HIDE DEF c
  <1>3. FilasOK'
    BY <1>1, <1>2 DEF IInv, FilasOK, VivoCliente, VivoVehiculo, VivaPoliza
  <1>4. Registradas'
    BY <1>1, <1>2 DEF IInv, FilasOK, Registradas
  <1>5. Planes'
    BY <1>2 DEF IInv, Planes, VivaPoliza
  <1>6. Evolucion
    BY <1>2 DEF Evolucion
  <1> QED
    BY <1>2, <1>3, <1>4, <1>5, <1>6, Escribe

LEMMA PasoConfirmarVehiculo ==
    ASSUME IInv, NEW a \in Peticiones, ConfirmarVehiculo(a)
    PROVE  IInv'
  <1> DEFINE c == peticion[a].cli
             v == peticion[a].auto
  <1>1. c \in Clientes /\ v \in Vehiculos
    BY TipoDePeticion DEF IInv, ConfirmarVehiculo
  <1>2. /\ vehiculo[v] = SinFila /\ VivoCliente(c)
        /\ vehiculo' = [vehiculo EXCEPT ![v] = [fila |-> "viva", dueno |-> c]]
        /\ Cerrar(a) /\ UNCHANGED <<cliente, poliza>>
    BY DEF ConfirmarVehiculo
  <1> HIDE DEF c, v
  <1>3. [fila |-> "viva", dueno |-> c] \in FilasVehiculo
    BY <1>1 DEF FilasVehiculo
  <1>4. vehiculo[v].fila # "viva"
    BY <1>2 DEF SinFila
  <1>5. FilasOK'
    <2>1. vehiculo' \in [Vehiculos -> FilasVehiculo \union {SinFila, Borrada}]
      BY <1>2, <1>3 DEF IInv, FilasOK
    <2>2. \A w \in Vehiculos : vehiculo'[w].fila = "viva" => cliente[vehiculo'[w].dueno] = "vivo"
      BY <1>1, <1>2 DEF IInv, FilasOK, VivoCliente, VivoVehiculo
    <2>3. ASSUME NEW p \in Polizas, VivaPoliza(p)
          PROVE  VivoCliente(poliza[p].titular) /\ vehiculo'[poliza[p].auto].fila = "viva"
      <3>1. VivoCliente(poliza[p].titular) /\ vehiculo[poliza[p].auto].fila = "viva"
        BY <2>3 DEF IInv, FilasOK, VivoVehiculo
      <3>2. poliza[p].auto \in Vehiculos
        BY <2>3, TipoDeFila DEF IInv, FilasPoliza
      <3> QED
        BY <1>2, <1>4, <3>1, <3>2 DEF IInv, FilasOK
    <2> QED
      BY <1>2, <2>1, <2>2, <2>3 DEF IInv, FilasOK, VivoCliente, VivoVehiculo, VivaPoliza
  <1>6. Registradas' /\ Planes'
    BY <1>2 DEF IInv, Registradas, Planes, VivaPoliza
  <1>7. Evolucion
    BY <1>2, <1>4 DEF IInv, FilasOK, Evolucion
  <1> QED
    BY <1>2, <1>5, <1>6, <1>7, Escribe

\* The plan of a new policy.
LEMMA PlanNuevo ==
    ASSUME NEW d \in Nat \ {0}
    PROVE  PlanCuotas(d) \in Seq(Cuota) /\ PlanDe(d, PlanCuotas(d))
  <1>1. NumCuotas(d) \in Nat /\ Periodo \in Nat
    BY NumCuotasCubre, CarteraAssumption
  <1>2. \A i \in 1 .. NumCuotas(d) : [vence |-> Periodo * (i - 1), abono |-> Pendiente] \in Cuota
    BY <1>1 DEF Cuota, Abonos
  <1>3. PlanCuotas(d) \in [1 .. NumCuotas(d) -> Cuota]
    BY <1>2 DEF PlanCuotas
  <1>4. PlanCuotas(d) \in Seq(Cuota)
    BY <1>1, <1>3, SeqDef
  <1>5. Len(PlanCuotas(d)) = NumCuotas(d)
    BY <1>1, <1>3, <1>4
  <1> QED
    BY <1>4, <1>5 DEF PlanDe, PlanCuotas

LEMMA PasoConfirmarPoliza ==
    ASSUME IInv, NEW a \in Peticiones, ConfirmarPoliza(a)
    PROVE  IInv'
  <1> DEFINE s == peticion[a].pol
             nueva == [fila |-> "viva", titular |-> peticion[a].cli, auto |-> peticion[a].auto,
                       dias |-> peticion[a].dias, cuotas |-> PlanCuotas(peticion[a].dias)]
  <1>1. /\ s \in Polizas /\ peticion[a].cli \in Clientes /\ peticion[a].auto \in Vehiculos
        /\ peticion[a].dias \in Nat \ {0}
    <2>1. peticion[a].op = "poliza"
      BY DEF ConfirmarPoliza
    <2>2. peticion[a].dias \in Int /\ peticion[a].dias > 0
      BY <2>1, TipoDePeticion DEF IInv, Peticion, PeticionOK
    <2> QED
      BY <2>1, <2>2, TipoDePeticion DEF IInv
  <1>2. /\ poliza[s] = SinFila
        /\ VivoCliente(nueva.titular) /\ VivoVehiculo(nueva.auto)
        /\ poliza' = [poliza EXCEPT ![s] = nueva]
        /\ Cerrar(a) /\ UNCHANGED <<cliente, vehiculo>>
    BY DEF ConfirmarPoliza
  <1>3. nueva \in FilasPoliza /\ PlanDe(nueva.dias, nueva.cuotas) /\ nueva.fila = "viva"
    BY <1>1, PlanNuevo DEF FilasPoliza
  <1> HIDE DEF s, nueva
  <1>4. poliza[s].fila = "sin"
    BY <1>2 DEF SinFila
  <1>5. \A p \in Polizas : poliza'[p] = IF p = s THEN nueva ELSE poliza[p]
    BY <1>1, <1>2 DEF IInv, FilasOK
  <1>6. FilasOK'
    <2>1. poliza' \in [Polizas -> FilasPoliza \union {SinFila, Borrada}]
      BY <1>2, <1>3 DEF IInv, FilasOK
    <2>2. \A p \in Polizas : poliza'[p].fila = "viva" =>
              cliente[poliza'[p].titular] = "vivo" /\ vehiculo[poliza'[p].auto].fila = "viva"
      BY <1>2, <1>5 DEF IInv, FilasOK, VivoCliente, VivoVehiculo, VivaPoliza
    <2> QED
      BY <1>2, <2>1, <2>2 DEF IInv, FilasOK, VivoCliente, VivoVehiculo, VivaPoliza
  <1>7. Registradas'
    BY <1>2 DEF IInv, Registradas
  <1>8. Planes'
    BY <1>3, <1>5 DEF IInv, Planes, VivaPoliza
  <1>9. Evolucion
    BY <1>2, <1>4, <1>5 DEF Evolucion
  <1> QED
    BY <1>2, <1>6, <1>7, <1>8, <1>9, Escribe

LEMMA SinNulos ==
    ASSUME NEW x \in Metodos \X Comprobantes
    PROVE  x = <<x[1], x[2]>> /\ x[1] # Nada /\ x[2] # Nada /\ x # Pendiente
  <1>1. \A m \in Metodos : m # Nada
    BY CarteraAssumption DEF Metodos
  <1>2. \A m \in Comprobantes : m # Nada
    BY CarteraAssumption DEF Comprobantes
  <1> QED
    BY <1>1, <1>2 DEF Pendiente

\* What a payment leaves on a row that is paid if it was seen paid: a paid row, and
\* the receipt that was sent unless the row has changed since it was seen paid.
LEMMA EscritoPagado ==
    ASSUME NEW q, NEW f \in Abonos, q.recibo \in Recibos, q.visto \in Abonos,
           q.visto # Pendiente => f # Pendiente
    PROVE  /\ Escrito(q, f) \in Metodos \X Comprobantes
           /\ q.visto \in {Pendiente, f} => Escrito(q, f) \in Recibos
  <1>1. /\ q.recibo = <<q.recibo[1], q.recibo[2]>>
        /\ q.recibo[1] # Nada /\ q.recibo[2] # Nada
    BY CarteraAssumption
  <1>2. q.recibo[1] \in Metodos /\ q.recibo[2] \in Comprobantes
    BY DEF Metodos, Comprobantes
  <1>3. CASE q.visto = Pendiente
    <2>1. Escrito(q, f) = q.recibo
      BY <1>1, <1>3 DEF Escrito, Pendiente
    <2> QED
      BY <1>1, <1>2, <2>1
  <1>4. CASE q.visto # Pendiente
    <2>1. f \in Metodos \X Comprobantes
      BY <1>4 DEF Abonos
    <2>2. Escrito(q, f) \in Metodos \X Comprobantes
      BY <1>2, <2>1 DEF Escrito
    <2>3. q.visto = f => Escrito(q, f) = <<q.recibo[1], q.recibo[2]>>
      BY DEF Escrito
    <2> QED
      BY <1>1, <1>4, <2>2, <2>3
  <1> QED
    BY <1>3, <1>4

\* The rows after a payment.
LEMMA FilaPagada ==
    ASSUME IInv, NEW a \in Peticiones, ConfirmarPago(a)
    PROVE  LET q == peticion[a]
               s == q.pol
               c == poliza[s].cuotas
               n == poliza'[s].cuotas
           IN /\ s \in Polizas /\ VivaPoliza(s) /\ poliza'[s] \in FilasPoliza
              /\ \A p \in Polizas \ {s} : poliza'[p] = poliza[p]
              /\ poliza'[s].titular = poliza[s].titular /\ poliza'[s].auto = poliza[s].auto
              /\ poliza'[s].dias = poliza[s].dias /\ Len(n) = Len(c)
              /\ q.cuota \in DOMAIN c /\ DOMAIN n = DOMAIN c
              /\ \A i \in DOMAIN c : n[i].vence = c[i].vence
              /\ \A i \in DOMAIN c \ {q.cuota} : n[i] = c[i]
              /\ n[q.cuota].abono = Escrito(q, c[q.cuota].abono)
              /\ n[q.cuota].abono \in Metodos \X Comprobantes
  <1> DEFINE q == peticion[a]
             s == q.pol
             c == poliza[s].cuotas
             i == q.cuota
             e == [c[i] EXCEPT !.abono = Escrito(q, c[i].abono)]
             n == [c EXCEPT ![i] = e]
  <1>1. /\ q \in Abiertas \union {Libre} /\ q.op = "pago" /\ VivaPoliza(s)
        /\ PagoOK(q, poliza)
    BY DEF IInv, Peticion, PeticionOK, ConfirmarPago
  <1>2. s \in Polizas /\ q.visto \in Abonos /\ q.recibo \in Recibos
    BY <1>1, TipoDePeticion
  <1>3. i \in DOMAIN c /\ (q.visto # Pendiente => c[i].abono # Pendiente)
    BY <1>1 DEF PagoOK, VivaPoliza
  <1>4. poliza[s] \in FilasPoliza
    BY <1>1, <1>2, TipoDeFila DEF IInv
  <1>5. c \in Seq(Cuota)
    BY <1>4 DEF FilasPoliza
  <1>6. c[i] \in Cuota
    BY <1>3, <1>5
  <1>7. Escrito(q, c[i].abono) \in Metodos \X Comprobantes
    <2>1. c[i].abono \in Abonos
      BY <1>6 DEF Cuota
    <2> QED
      BY <1>2, <1>3, <2>1, EscritoPagado
  <1>8. e \in Cuota /\ e.vence = c[i].vence /\ e.abono = Escrito(q, c[i].abono)
    BY <1>6, <1>7 DEF Cuota, Abonos
  <1>9. poliza' = [poliza EXCEPT ![s] = [poliza[s] EXCEPT !.cuotas = n]]
    BY <1>1, <1>2, <1>3 DEF ConfirmarPago, IInv, FilasOK
  <1> HIDE DEF e
  <1>10. n \in Seq(Cuota) /\ Len(n) = Len(c) /\ DOMAIN n = DOMAIN c
    BY <1>3, <1>5, <1>8
  <1>11. n[i] = e /\ \A j \in DOMAIN c \ {i} : n[j] = c[j]
    BY <1>3
  <1> HIDE DEF n
  <1>12. /\ poliza'[s] = [poliza[s] EXCEPT !.cuotas = n]
         /\ \A p \in Polizas \ {s} : poliza'[p] = poliza[p]
    BY <1>2, <1>9 DEF IInv, FilasOK
  <1>13. poliza'[s].cuotas = n /\ poliza'[s] \in FilasPoliza
    BY <1>4, <1>10, <1>12 DEF FilasPoliza
  <1>14. /\ poliza'[s].titular = poliza[s].titular /\ poliza'[s].auto = poliza[s].auto
         /\ poliza'[s].dias = poliza[s].dias
    BY <1>4, <1>12 DEF FilasPoliza
  <1> HIDE DEF c, i, s, q
  <1> QED
    BY <1>1, <1>2, <1>3, <1>7, <1>8, <1>10, <1>11, <1>12, <1>13, <1>14 DEF c, i, s, q

LEMMA PasoConfirmarPago ==
    ASSUME IInv, NEW a \in Peticiones, ConfirmarPago(a)
    PROVE  IInv'
  <1> DEFINE s == peticion[a].pol
  <1>1. Cerrar(a) /\ UNCHANGED <<cliente, vehiculo>>
    BY DEF ConfirmarPago
  <1>2. /\ s \in Polizas /\ VivaPoliza(s) /\ poliza'[s] \in FilasPoliza
        /\ \A p \in Polizas \ {s} : poliza'[p] = poliza[p]
        /\ poliza'[s].titular = poliza[s].titular /\ poliza'[s].auto = poliza[s].auto
        /\ poliza'[s].dias = poliza[s].dias
    BY FilaPagada
  <1>3. /\ Len(poliza'[s].cuotas) = Len(poliza[s].cuotas)
        /\ DOMAIN poliza'[s].cuotas = DOMAIN poliza[s].cuotas
        /\ \A i \in DOMAIN poliza[s].cuotas :
                poliza'[s].cuotas[i].vence = poliza[s].cuotas[i].vence
    BY FilaPagada
  <1>4. \A i \in DOMAIN poliza[s].cuotas :
            poliza[s].cuotas[i].abono # Pendiente => poliza'[s].cuotas[i].abono # Pendiente
    BY FilaPagada, SinNulos
  <1>5. poliza'[s].fila = "viva" /\ poliza[s].fila = "viva"
    BY <1>2 DEF VivaPoliza, FilasPoliza
  <1> HIDE DEF s
  <1>6. FilasOK'
    <2>1. DOMAIN poliza' = Polizas
      BY DEF ConfirmarPago, IInv, FilasOK
    <2>2. poliza' \in [Polizas -> FilasPoliza \union {SinFila, Borrada}]
      <3>1. \A p \in Polizas : poliza'[p] \in FilasPoliza \union {SinFila, Borrada}
        BY <1>2 DEF IInv, FilasOK
      <3>2. poliza' = [p \in Polizas |-> poliza'[p]]
        BY DEF ConfirmarPago, IInv, FilasOK
      <3> QED
        BY <3>1, <3>2
    <2>3. \A p \in Polizas : poliza'[p].fila = "viva" =>
              cliente[poliza'[p].titular] = "vivo" /\ vehiculo[poliza'[p].auto].fila = "viva"
      BY <1>2, <1>5 DEF IInv, FilasOK, VivoCliente, VivoVehiculo, VivaPoliza
    <2> QED
      BY <1>1, <2>2, <2>3 DEF IInv, FilasOK, VivoCliente, VivoVehiculo, VivaPoliza
  <1>7. Registradas'
    BY <1>1 DEF IInv, Registradas
  <1>8. Planes'
    <2> SUFFICES ASSUME NEW p \in Polizas, poliza'[p].fila = "viva"
                 PROVE  PlanDe(poliza'[p].dias, poliza'[p].cuotas)
      BY DEF Planes, VivaPoliza
    <2>1. CASE p # s
      BY <1>2, <2>1 DEF IInv, Planes, VivaPoliza
    <2>2. CASE p = s
      <3>1. PlanDe(poliza[s].dias, poliza[s].cuotas)
        BY <1>2, <1>5 DEF IInv, Planes, VivaPoliza
      <3>2. poliza[s].cuotas \in Seq(Cuota)
        BY <1>2, <1>5, TipoDeFila DEF IInv, FilasPoliza
      <3>3. DOMAIN poliza[s].cuotas = 1 .. Len(poliza[s].cuotas)
        BY <3>2
      <3> QED
        BY <1>2, <1>3, <2>2, <3>1, <3>3 DEF PlanDe
    <2> QED
      BY <2>1, <2>2
  <1>9. Evolucion
    BY <1>1, <1>2, <1>3, <1>4, <1>5 DEF Evolucion
  <1> QED
    BY <1>1, <1>6, <1>7, <1>8, <1>9, Escribe

LEMMA PasoBorrar ==
    ASSUME IInv, NEW a \in Peticiones, Borrar(a)
    PROVE  IInv'
  <1> DEFINE c == peticion[a].cli
  <1>1. /\ cliente' = [cliente EXCEPT ![c] = "borrado"]
        /\ vehiculo' = [v \in Vehiculos |-> IF v \in VehiculosDe(c) THEN Borrada ELSE vehiculo[v]]
        /\ poliza' = [p \in Polizas |-> IF p \in PolizasDe(c) THEN Borrada ELSE poliza[p]]
        /\ Cerrar(a) /\ VivoCliente(c)
    BY DEF Borrar
  <1> HIDE DEF c
  <1>2. FilasOK'
    <2>1. cliente' \in [Clientes -> {"sin", "vivo", "borrado"}]
      BY <1>1 DEF IInv, FilasOK
    <2>2. /\ vehiculo' \in [Vehiculos -> FilasVehiculo \union {SinFila, Borrada}]
          /\ poliza' \in [Polizas -> FilasPoliza \union {SinFila, Borrada}]
      BY <1>1 DEF IInv, FilasOK
    <2>3. ASSUME NEW v \in Vehiculos, vehiculo'[v].fila = "viva"
          PROVE  cliente'[vehiculo'[v].dueno] = "vivo"
      <3>1. v \notin VehiculosDe(c) /\ vehiculo'[v] = vehiculo[v]
        BY <1>1, <2>3 DEF Borrada
      <3>2. vehiculo[v].dueno # c /\ VivoCliente(vehiculo[v].dueno)
        BY <2>3, <3>1 DEF VehiculosDe, VivoVehiculo, IInv, FilasOK
      <3> QED
        BY <1>1, <3>1, <3>2 DEF VivoCliente, IInv, FilasOK
    <2>4. ASSUME NEW p \in Polizas, poliza'[p].fila = "viva"
          PROVE  /\ cliente'[poliza'[p].titular] = "vivo"
                 /\ vehiculo'[poliza'[p].auto].fila = "viva"
      <3>1. p \notin PolizasDe(c) /\ poliza'[p] = poliza[p]
        BY <1>1, <2>4 DEF Borrada
      <3>2. VivaPoliza(p)
        BY <2>4, <3>1 DEF VivaPoliza
      <3>3. poliza[p].titular # c /\ poliza[p].auto \notin VehiculosDe(c)
        BY <3>1, <3>2 DEF PolizasDe
      <3>4. /\ VivoCliente(poliza[p].titular) /\ VivoVehiculo(poliza[p].auto)
            /\ poliza[p].auto \in Vehiculos
        BY <3>2, TipoDeFila DEF IInv, FilasOK, FilasPoliza
      <3> QED
        BY <1>1, <3>1, <3>3, <3>4 DEF VivoCliente, VivoVehiculo, IInv, FilasOK
    <2> QED
      BY <2>1, <2>2, <2>3, <2>4 DEF FilasOK, VivoCliente, VivoVehiculo, VivaPoliza
  <1>3. Registradas'
    BY <1>1 DEF IInv, FilasOK, Registradas, VivoCliente
  <1>4. Planes'
    BY <1>1 DEF IInv, Planes, VivaPoliza, Borrada
  <1>5. Evolucion
    <2>1. \A p \in Polizas : poliza'[p] = poliza[p] \/ poliza'[p] = Borrada
      BY <1>1
    <2>2. \A v \in Vehiculos : vehiculo'[v] = vehiculo[v] \/ vehiculo'[v] = Borrada
      BY <1>1
    <2> QED
      BY <2>1, <2>2 DEF Evolucion, Borrada
  <1> QED
    BY <1>1, <1>2, <1>3, <1>4, <1>5, Escribe

-----------------------------------------------------------------------------
(* The invariant and what follows from it.                                  *)

LEMMA Inicio == Init => IInv
  <1> SUFFICES ASSUME Init PROVE IInv
    OBVIOUS
  <1>1. FilasOK
    BY DEF Init, FilasOK, VivoCliente, VivoVehiculo, VivaPoliza, SinFila
  <1>2. Registradas /\ Planes
    BY DEF Init, Registradas, Planes, VivaPoliza, SinFila
  <1>3. peticion \in [Peticiones -> Abiertas \union {Libre}] /\ Peticion
    BY LibreOK DEF Init, Peticion
  <1> QED
    BY <1>1, <1>2, <1>3 DEF IInv

LEMMA Paso == IInv /\ [Next]_vars => IInv'
  <1> SUFFICES ASSUME IInv, [Next]_vars PROVE IInv'
    OBVIOUS
  <1>1. CASE UNCHANGED vars
    BY <1>1 DEF IInv, FilasOK, Registradas, Planes, Peticion, vars, filas,
                VivoCliente, VivoVehiculo, VivaPoliza
  <1>2. ASSUME NEW a \in Peticiones, NEW c \in Clientes, AbrirRegistro(a, c) \/ AbrirBorrado(a, c)
        PROVE  IInv'
    BY <1>2, PasoAbrirRegistro, PasoAbrirBorrado
  <1>3. ASSUME NEW a \in Peticiones, NEW v \in Vehiculos, NEW c \in Clientes,
               AbrirVehiculo(a, v, c)
        PROVE  IInv'
    BY <1>3, PasoAbrirVehiculo
  <1>4. ASSUME NEW a \in Peticiones, NEW p \in Polizas, NEW c \in Clientes,
               NEW v \in Vehiculos, NEW d \in Duraciones, AbrirPoliza(a, p, c, v, d)
        PROVE  IInv'
    BY <1>4, PasoAbrirPoliza
  <1>5. ASSUME NEW a \in Peticiones, NEW p \in Polizas, NEW i \in 1 .. MaxCuotas,
               NEW r \in Recibos, AbrirPago(a, p, i, r)
        PROVE  IInv'
    BY <1>5, PasoAbrirPago
  <1>6. ASSUME NEW a \in Peticiones,
               \/ ConfirmarRegistro(a) \/ ConfirmarVehiculo(a) \/ ConfirmarPoliza(a)
               \/ ConfirmarPago(a)
        PROVE  IInv'
    BY <1>6, PasoConfirmarRegistro, PasoConfirmarVehiculo, PasoConfirmarPoliza,
       PasoConfirmarPago
  <1>7. ASSUME NEW a \in Peticiones,
               ComprobarPolizas(a) \/ ComprobarVehiculos(a) \/ Borrar(a) \/ Abandonar(a)
        PROVE  IInv'
    BY <1>7, PasoComprobarPolizas, PasoComprobarVehiculos, PasoBorrar, PasoAbandonar
  <1> QED
    BY <1>1, <1>2, <1>3, <1>4, <1>5, <1>6, <1>7 DEF Next

\* The inductive invariant holds in every behaviour of the portfolio.
THEOREM Invariante == Spec => []IInv
  BY Inicio, Paso, PTL DEF Spec

\* Types and references: no deletion, issue or registration, however interleaved,
\* leaves a vehicle without a living owner or a policy without its holder or vehicle.
THEOREM TypeSeguro == Spec => []TypeOK
  <1>1. IInv => TypeOK
    BY DEF IInv, FilasOK, TypeOK
  <1> QED
    BY <1>1, Invariante, PTL

\* One mistyped digit under the verifier never registers a second client.
THEOREM IdentificacionesSeguras == Spec => []IdentificacionesDistinguibles
  <1>1. IInv => IdentificacionesDistinguibles
    <2> SUFFICES ASSUME IInv, NEW c \in Clientes, NEW k \in Clientes,
                        cliente[c] # "sin", cliente[k] # "sin", UnDigitoDistinto(c, k)
                 PROVE  FALSE
      BY DEF IdentificacionesDistinguibles
    <2>1. c \in Numeros /\ k \in Numeros
      BY CarteraAssumption
    <2>2. IdentificacionValida(c) /\ IdentificacionValida(k)
      BY DEF IInv, Registradas
    <2> QED
      BY <2>1, <2>2, UnaErrataSeNota
  <1> QED
    BY <1>1, Invariante, PTL

\* The installments of every living policy fit its term and cover it.
THEOREM PlanSeguro == Spec => []PlanDePagos
  <1>1. IInv => PlanDePagos
    <2> SUFFICES ASSUME IInv, NEW p \in Polizas, VivaPoliza(p)
                 PROVE  LET c == poliza[p].cuotas
                            n == Len(c)
                        IN /\ \A i \in 1 .. n : c[i].vence >= 0 /\ c[i].vence < poliza[p].dias
                           /\ \A i \in 1 .. n - 1 : c[i + 1].vence = c[i].vence + Periodo
                           /\ n < MaxCuotas => 2 * (poliza[p].dias - c[n].vence) <= 3 * Periodo
      BY DEF PlanDePagos
    <2> DEFINE c == poliza[p].cuotas
               n == Len(c)
               d == poliza[p].dias
    <2>1. d \in Nat \ {0} /\ n = NumCuotas(d) /\ \A i \in 1 .. n : c[i].vence = Periodo * (i - 1)
      BY DEF IInv, Planes, PlanDe
    <2>2. Periodo \in Nat \ {0} /\ MaxCuotas \in Nat \ {0}
      BY CarteraAssumption
    <2>3. /\ n \in 1 .. MaxCuotas
          /\ Periodo * (n - 1) < d
          /\ n < MaxCuotas => 2 * (d - Periodo * (n - 1)) <= 3 * Periodo
      BY <2>1, NumCuotasCubre
    <2> HIDE DEF c, n, d
    <2>4. ASSUME NEW i \in 1 .. n
          PROVE  c[i].vence >= 0 /\ c[i].vence < d
      <3>1. i - 1 \in Nat /\ n - 1 \in Nat /\ i - 1 <= n - 1
        BY <2>3
      <3>2. Periodo * (i - 1) <= Periodo * (n - 1)
        BY <2>2, <3>1, Monotona
      <3>3. Periodo * (i - 1) \in Nat /\ Periodo * (n - 1) \in Nat
        BY <2>2, <3>1
      <3> QED
        BY <2>1, <2>3, <3>2, <3>3
    <2>5. ASSUME NEW i \in 1 .. n - 1
          PROVE  c[i + 1].vence = c[i].vence + Periodo
      <3>1. i \in 1 .. n /\ i + 1 \in 1 .. n /\ i \in Nat
        BY <2>3
      <3>2. Periodo * i = Periodo * (i - 1) + Periodo
        BY <2>2, <3>1
      <3> QED
        BY <2>1, <3>1, <3>2
    <2>6. n < MaxCuotas => 2 * (d - c[n].vence) <= 3 * Periodo
      BY <2>1, <2>3
    <2> QED
      BY <2>4, <2>5, <2>6 DEF c, n, d
  <1> QED
    BY <1>1, Invariante, PTL

\* The body of ReciboDeUnPago.
PasoDeRecibo ==
    \A p \in Polizas : VivaPoliza(p) /\ VivaPoliza(p)' =>
        \A i \in DOMAIN poliza[p].cuotas :
            LET antes == poliza[p].cuotas[i].abono
                despues == poliza'[p].cuotas[i].abono
            IN antes \in Recibos \union {Pendiente} /\ despues \notin Recibos \union {Pendiente}
               => \E a \in Peticiones :
                    /\ peticion[a].op = "pago" /\ peticion'[a] = Libre
                    /\ peticion[a].pol = p /\ peticion[a].cuota = i
                    /\ peticion[a].visto \notin {Pendiente, antes}

\* The body of PerdidaSoloPorCarrera.
PasoDePerdida ==
    \A p \in Polizas : VivaPoliza(p) /\ ~ VivaPoliza(p)' =>
        \E a \in Peticiones :
            /\ peticion[a].op = "borrarSinNada" /\ peticion'[a] = Libre
            /\ p \notin peticion[a].vistas

\* Only three actions write policies, and each of them once.
LEMMA QuienEscribePolizas ==
    ASSUME IInv, [Next]_vars
    PROVE  \/ poliza' = poliza
           \/ \E a \in Peticiones : ConfirmarPoliza(a)
           \/ \E a \in Peticiones : ConfirmarPago(a)
           \/ \E a \in Peticiones : Borrar(a)
  BY DEF Next, vars, filas, AbrirRegistro, AbrirVehiculo, AbrirPoliza, AbrirPago, AbrirBorrado,
         ConfirmarRegistro, ConfirmarVehiculo, ComprobarPolizas, ComprobarVehiculos, Abandonar

\* A new policy takes the place of no living one, and leaves the others.
LEMMA NuevaNoReemplaza ==
    ASSUME IInv, NEW a \in Peticiones, ConfirmarPoliza(a), NEW p \in Polizas, VivaPoliza(p)
    PROVE  poliza'[p] = poliza[p]
  <1>1. poliza[peticion[a].pol] = SinFila /\ SinFila.fila # "viva"
    BY DEF ConfirmarPoliza, SinFila
  <1>2. p # peticion[a].pol
    BY <1>1 DEF VivaPoliza
  <1> QED
    BY <1>2 DEF ConfirmarPoliza, IInv, FilasOK

LEMMA PagoNoMezcla ==
    ASSUME IInv, NEW a \in Peticiones, ConfirmarPago(a)
    PROVE  PasoDeRecibo /\ ~ \E p \in Polizas : VivaPoliza(p) /\ ~ VivaPoliza(p)'
  <1> DEFINE q == peticion[a]
             s == q.pol
             c == poliza[s].cuotas
  <1>1. /\ s \in Polizas /\ VivaPoliza(s) /\ poliza'[s] \in FilasPoliza
        /\ \A p \in Polizas \ {s} : poliza'[p] = poliza[p]
        /\ q.cuota \in DOMAIN c
    BY FilaPagada
  <1>2. /\ \A i \in DOMAIN c \ {q.cuota} : poliza'[s].cuotas[i] = c[i]
        /\ poliza'[s].cuotas[q.cuota].abono = Escrito(q, c[q.cuota].abono)
    BY FilaPagada
  <1>3. peticion'[a] = Libre /\ q.op = "pago"
    BY DEF ConfirmarPago, Cerrar, IInv
  <1>4. ~ \E p \in Polizas : VivaPoliza(p) /\ ~ VivaPoliza(p)'
    BY <1>1 DEF VivaPoliza, FilasPoliza
  <1>5. q.visto \in Abonos /\ q.recibo \in Recibos
    BY <1>3, TipoDePeticion DEF IInv
  <1>6. /\ c[q.cuota].abono \in Abonos
        /\ q.visto # Pendiente => c[q.cuota].abono # Pendiente
    <2>1. PagoOK(q, poliza)
      BY <1>3 DEF IInv, Peticion, PeticionOK
    <2> QED
      BY <1>1, <2>1, TipoDeAbono DEF IInv, PagoOK, VivaPoliza
  <1>7. q.visto \in {Pendiente, c[q.cuota].abono} =>
            poliza'[s].cuotas[q.cuota].abono \in Recibos
    BY <1>2, <1>5, <1>6, EscritoPagado
  <1>8. PasoDeRecibo
    <2> SUFFICES ASSUME NEW p \in Polizas, NEW i \in DOMAIN poliza[p].cuotas,
                        poliza[p].cuotas[i].abono \in Recibos \union {Pendiente},
                        poliza'[p].cuotas[i].abono \notin Recibos \union {Pendiente}
                 PROVE  /\ q.pol = p /\ q.cuota = i
                        /\ q.visto \notin {Pendiente, poliza[p].cuotas[i].abono}
      BY <1>3 DEF PasoDeRecibo
    <2>1. p = s
      BY <1>1
    <2>2. i = q.cuota
      BY <1>2, <2>1
    <2> QED
      BY <1>7, <2>1, <2>2
  <1> QED
    BY <1>4, <1>8

LEMMA BorrarNoMezcla ==
    ASSUME IInv, NEW a \in Peticiones, Borrar(a)
    PROVE  PasoDeRecibo /\ PasoDePerdida
  <1> DEFINE q == peticion[a]
  <1>1. /\ q.op = "borrarSinNada" /\ peticion'[a] = Libre
        /\ poliza' = [p \in Polizas |-> IF p \in PolizasDe(q.cli) THEN Borrada ELSE poliza[p]]
    BY DEF Borrar, Cerrar, IInv
  <1>2. BorradoOK(q, vehiculo, poliza)
    BY <1>1 DEF IInv, Peticion, PeticionOK
  <1>3. PasoDeRecibo
    BY <1>1 DEF PasoDeRecibo, VivaPoliza, Borrada
  <1>4. PasoDePerdida
    <2> SUFFICES ASSUME NEW p \in Polizas, VivaPoliza(p), ~ VivaPoliza(p)'
                 PROVE  p \notin q.vistas
      BY <1>1 DEF PasoDePerdida
    <2>1. p \in PolizasDe(q.cli)
      BY <1>1 DEF VivaPoliza
    <2>2. poliza[p].titular = q.cli \/ vehiculo[poliza[p].auto].dueno = q.cli
      BY <2>1 DEF PolizasDe, VehiculosDe
    <2> QED
      BY <1>1, <1>2, <2>2 DEF BorradoOK, VivaPoliza
  <1> QED
    BY <1>3, <1>4

LEMMA CadaPaso ==
    ASSUME IInv, [Next]_vars
    PROVE  PasoDeRecibo /\ PasoDePerdida
  <1>1. CASE poliza' = poliza
    BY <1>1 DEF PasoDeRecibo, PasoDePerdida, VivaPoliza
  <1>2. ASSUME NEW a \in Peticiones, ConfirmarPoliza(a)
        PROVE  PasoDeRecibo /\ PasoDePerdida
    <2>1. \A p \in Polizas : VivaPoliza(p) => poliza'[p] = poliza[p]
      BY <1>2, NuevaNoReemplaza
    <2> QED
      BY <2>1 DEF PasoDeRecibo, PasoDePerdida, VivaPoliza
  <1>3. ASSUME NEW a \in Peticiones, ConfirmarPago(a)
        PROVE  PasoDeRecibo /\ PasoDePerdida
    BY <1>3, PagoNoMezcla DEF PasoDePerdida
  <1>4. ASSUME NEW a \in Peticiones, Borrar(a)
        PROVE  PasoDeRecibo /\ PasoDePerdida
    BY <1>4, BorrarNoMezcla
  <1> QED
    BY <1>1, <1>2, <1>3, <1>4, QuienEscribePolizas

\* A payment mixes the columns of two only when it corrects an installment already paid and
\* meets another payment of it.
THEOREM ReciboSeguro == Spec => ReciboDeUnPago
  <1>1. IInv /\ [Next]_vars => [PasoDeRecibo]_vars
    BY CadaPaso
  <1>2. Spec => [][PasoDeRecibo]_vars
    BY <1>1, Invariante, PTL DEF Spec
  <1> QED
    BY <1>2 DEF ReciboDeUnPago, PasoDeRecibo

\* A policy is lost only to a deletion whose checks were over when it was committed.
THEOREM PerdidaAcotada == Spec => PerdidaSoloPorCarrera
  <1>1. IInv /\ [Next]_vars => [PasoDePerdida]_vars
    BY CadaPaso
  <1>2. Spec => [][PasoDePerdida]_vars
    BY <1>1, Invariante, PTL DEF Spec
  <1> QED
    BY <1>2 DEF PerdidaSoloPorCarrera, PasoDePerdida
-----------------------------------------------------------------------------
(* What never changes in a policy.                                          *)

\* Policy p keeps its holder, its vehicle, its term and its plan; what was paid is not
\* pending again.
Firme(p) ==
    VivaPoliza(p) /\ VivaPoliza(p)' =>
        LET c == poliza[p].cuotas
            n == poliza'[p].cuotas
        IN /\ poliza'[p].titular = poliza[p].titular /\ poliza'[p].auto = poliza[p].auto
           /\ poliza'[p].dias = poliza[p].dias /\ DOMAIN n = DOMAIN c
           /\ \A i \in DOMAIN c :
                /\ n[i].vence = c[i].vence
                /\ c[i].abono # Pendiente => n[i].abono # Pendiente

\* However payments, issues and deletions interleave, no step changes what a living
\* policy insures, whom, how long and when it is paid for, or makes a paid
\* installment pending.
THEOREM PolizaFirme == Spec => [][\A p \in Polizas : Firme(p)]_vars
  <1>1. ASSUME NEW p \in Polizas, poliza'[p] = poliza[p]
        PROVE  Firme(p)
    BY <1>1 DEF Firme, VivaPoliza
  <1>2. ASSUME IInv, NEW a \in Peticiones, ConfirmarPoliza(a), NEW p \in Polizas
        PROVE  Firme(p)
    <2>1. poliza[peticion[a].pol] = SinFila
      BY <1>2 DEF ConfirmarPoliza
    <2>2. CASE p = peticion[a].pol
      BY <2>1, <2>2 DEF Firme, VivaPoliza, SinFila
    <2>3. CASE p # peticion[a].pol
      <3>1. poliza'[p] = poliza[p]
        BY <1>2, <2>3 DEF ConfirmarPoliza, IInv, FilasOK
      <3> QED
        BY <1>1, <3>1
    <2> QED
      BY <2>2, <2>3
  <1>3. ASSUME IInv, NEW a \in Peticiones, ConfirmarPago(a), NEW p \in Polizas
        PROVE  Firme(p)
    <2> DEFINE s == peticion[a].pol
               i == peticion[a].cuota
               c == poliza[s].cuotas
               n == poliza'[s].cuotas
    <2>1. CASE p # s
      <3>1. poliza'[p] = poliza[p]
        BY <1>3, <2>1, FilaPagada
      <3> QED
        BY <1>1, <3>1
    <2>2. CASE p = s
      <3>1. /\ VivaPoliza(s) /\ poliza'[s] \in FilasPoliza
            /\ poliza'[s].titular = poliza[s].titular /\ poliza'[s].auto = poliza[s].auto
            /\ poliza'[s].dias = poliza[s].dias /\ DOMAIN n = DOMAIN c
            /\ \A j \in DOMAIN c : n[j].vence = c[j].vence
        BY <1>3, FilaPagada
      <3>2. \A j \in DOMAIN c \ {i} : n[j] = c[j]
        BY <1>3, FilaPagada
      <3>3. n[i].abono # Pendiente
        <4>1. n[i].abono \in Metodos \X Comprobantes
          BY <1>3, FilaPagada
        <4> QED
          BY <4>1, SinNulos
      <3>4. \A j \in DOMAIN c : c[j].abono # Pendiente => n[j].abono # Pendiente
        BY <3>2, <3>3
      <3>5. poliza'[s].fila = "viva"
        BY <3>1 DEF FilasPoliza
      <3> HIDE DEF s, i
      <3> QED
        BY <2>2, <3>1, <3>4, <3>5 DEF Firme, VivaPoliza
    <2> QED
      BY <2>1, <2>2
  <1>4. ASSUME IInv, NEW a \in Peticiones, Borrar(a), NEW p \in Polizas
        PROVE  Firme(p)
    <2>1. poliza'[p] \in {Borrada, poliza[p]}
      BY <1>4 DEF Borrar
    <2>2. CASE poliza'[p] = Borrada
      BY <2>2 DEF Firme, VivaPoliza, Borrada
    <2> QED
      BY <1>1, <2>1, <2>2
  <1>5. IInv /\ [Next]_vars => [\A p \in Polizas : Firme(p)]_vars
    BY <1>1, <1>2, <1>3, <1>4, QuienEscribePolizas
  <1> QED
    BY <1>5, Invariante, PTL DEF Spec
=============================================================================

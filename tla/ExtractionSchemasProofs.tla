---------------------- MODULE ExtractionSchemasProofs ----------------------
(***************************************************************************)
(* What ExtractionSchemas keeps for any rows, requests, rules and files.   *)
(*                                                                         *)
(* An activation is right because, in a code that no race has unsettled,   *)
(* the rows it has locked and those it still has to lock are all the rows  *)
(* of the code but its own (Cubre), and because two open activations never *)
(* disagree about a version that one of them read as active (Acuerdo).     *)
(* The last section is what no step changes in a version.                  *)
(***************************************************************************)
EXTENDS ExtractionSchemas, FiniteSetTheorems, TLAPS

EsDe(r, c) == esquema[r] # Ninguno /\ esquema[r].codigo = c

Abierta(a) == activacion[a] # Ninguno
Codigo(a) == esquema[activacion[a].fila].codigo

\* The rows a request has locked or still has to lock are others of its code.
Toca(a) ==
    /\ esquema[activacion[a].fila] # Ninguno
    /\ \A r \in Filas : (cerrojo[r] = a \/ r \in activacion[a].faltan) =>
            EsDe(r, Codigo(a)) /\ r # activacion[a].fila
    /\ activacion[a].fase = "leida" => \A r \in Filas : cerrojo[r] # a

\* They are all the others.
Cubre(a) ==
    activacion[a].fase = "desactivando" =>
        \A r \in Filas : EsDe(r, Codigo(a)) /\ r # activacion[a].fila =>
            cerrojo[r] = a \/ r \in activacion[a].faltan

\* A version read as active is so, and every open request of the code is about it.
Acuerdo(a) ==
    activacion[a].activo =>
        /\ esquema[activacion[a].fila].activo
        /\ \A b \in Activaciones : Abierta(b) /\ Codigo(b) = Codigo(a) =>
                activacion[b].fila = activacion[a].fila

Sola(a) == \A b \in Activaciones : Abierta(b) /\ Codigo(b) = Codigo(a) => b = a

Peticion(a) ==
    /\ ~ Abierta(a) => \A r \in Filas : cerrojo[r] # a
    /\ Abierta(a) =>
        /\ Toca(a)
        /\ activacion[a].sola => Sola(a)
        /\ activacion[a].sola \/ Codigo(a) \in ordenados => Cubre(a) /\ Acuerdo(a)

\* Exactly one row of the code is active.
Unica(c) == \E r \in Filas : \A s \in Filas : (EsDe(s, c) /\ esquema[s].activo) <=> s = r

TiposDeFilas ==
    /\ esquema \in [Filas -> Fila \union {Ninguno}]
    /\ cerrojo \in [Filas -> Activaciones \union {Ninguno}]
    /\ activacion \in [Activaciones -> Activacion \union {Ninguno}]
    /\ alta \in [Altas -> Alta \union {Ninguno}]
    /\ ordenados \subseteq Codigos

TipoDeDocumento ==
    documento # Ninguno =>
        /\ documento.archivo \in Archivos
        /\ documento.fase # "pendiente" => documento.reglas \in Plantillas \union {<<>>}

\* The document was stored, and its result is that of the extraction.
Leido ==
    /\ documento # Ninguno => Guardable(documento.archivo)
    /\ EnFase("completado") \/ EnFase("error") =>
            /\ documento.resultado = Extraer(documento.archivo, documento.reglas)
            /\ EnFase("error") <=> documento.resultado = Fallo

Versiones ==
    /\ \A a \in Activaciones : Peticion(a)
    /\ \A c \in ordenados : Unica(c)

IInv == TiposDeFilas /\ TipoDeDocumento /\ Leido /\ Versiones

-----------------------------------------------------------------------------
(* The actions that leave the versions alone.                               *)

LEMMA VersionesQuietas ==
    ASSUME Versiones, UNCHANGED <<esquema, cerrojo, activacion, ordenados>>
    PROVE  Versiones'
  BY DEF Versiones, Peticion, Unica, Toca, Cubre, Acuerdo, Sola, Codigo, Abierta, EsDe

LEMMA DocumentoQuieto ==
    ASSUME TipoDeDocumento, Leido, UNCHANGED documento
    PROVE  TipoDeDocumento' /\ Leido'
  BY DEF TipoDeDocumento, Leido, EnFase

LEMMA PasoLeerVersion ==
    ASSUME IInv, NEW k \in Altas, NEW c \in Codigos, NEW g \in Plantillas, LeerVersion(k, c, g)
    PROVE  IInv'
  <1>1. PICK v \in 0 .. Cardinality(Filas) :
            alta' = [alta EXCEPT ![k] = [codigo |-> c, version |-> v + 1, campos |-> g]]
    BY DEF LeerVersion
  <1>2. v + 1 \in Nat \ {0}
    OBVIOUS
  <1>3. alta' \in [Altas -> Alta \union {Ninguno}]
    BY <1>1, <1>2 DEF IInv, TiposDeFilas, Alta
  <1>4. UNCHANGED <<esquema, cerrojo, activacion, documento, ordenados>>
    BY DEF LeerVersion
  <1> QED
    BY <1>3, <1>4, VersionesQuietas, DocumentoQuieto DEF IInv, TiposDeFilas

LEMMA PasoGuardar ==
    ASSUME IInv, NEW f \in Archivos, Guardar(f)
    PROVE  IInv'
  <1>1. documento' = [fase |-> "pendiente", archivo |-> f] /\ Guardable(f)
    BY DEF Guardar
  <1>2. TipoDeDocumento' /\ Leido'
    BY <1>1 DEF TipoDeDocumento, Leido, EnFase
  <1>3. UNCHANGED <<esquema, cerrojo, activacion, alta, ordenados>>
    BY DEF Guardar
  <1> QED
    BY <1>2, <1>3, VersionesQuietas DEF IInv, TiposDeFilas

LEMMA PasoProcesar ==
    ASSUME IInv, Procesar
    PROVE  IInv'
  <1> DEFINE listas == IF \E c \in Codigos : Activas(c) # {}
                       THEN {esquema[r].campos : r \in UNION {Activas(c) : c \in Codigos}}
                       ELSE {<<>>}
             f == documento.archivo
  <1>1. PICK g \in listas :
            documento' = [fase |-> IF Extraer(f, g) = Fallo THEN "error" ELSE "completado",
                          archivo |-> f, reglas |-> g, resultado |-> Extraer(f, g)]
    BY DEF Procesar
  <1>2. f \in Archivos /\ Guardable(f)
    BY DEF Procesar, EnFase, IInv, TipoDeDocumento, Leido
  <1>3. g \in Plantillas \union {<<>>}
    <2>1. \A r \in UNION {Activas(c) : c \in Codigos} : esquema[r].campos \in Plantillas
      BY DEF Activas, Existentes, IInv, TiposDeFilas, Fila
    <2> QED
      BY <2>1
  <1>4. /\ documento'.fase = (IF Extraer(f, g) = Fallo THEN "error" ELSE "completado")
        /\ documento'.archivo = f /\ documento'.reglas = g
        /\ documento'.resultado = Extraer(f, g)
    BY <1>1
  <1> HIDE DEF f
  <1>5. TipoDeDocumento'
    BY <1>2, <1>3, <1>4 DEF TipoDeDocumento
  <1>6. Leido'
    BY <1>2, <1>4 DEF Leido, EnFase
  <1>7. UNCHANGED <<esquema, cerrojo, activacion, alta, ordenados>>
    BY DEF Procesar
  <1> QED
    BY <1>5, <1>6, <1>7, VersionesQuietas DEF IInv, TiposDeFilas

-----------------------------------------------------------------------------
(* The actions on versions.                                                 *)

\* An open request is about a row, of a code.
LEMMA TipoAbierta ==
    ASSUME IInv, NEW a \in Activaciones, Abierta(a)
    PROVE  /\ activacion[a] \in Activacion /\ activacion[a].fila \in Filas
           /\ activacion[a].faltan \subseteq Filas
           /\ esquema[activacion[a].fila] \in Fila /\ Codigo(a) \in Codigos
           /\ Toca(a) /\ a # Ninguno
  <1>1. activacion[a] \in Activacion
    BY DEF IInv, TiposDeFilas, Abierta
  <1>2. activacion[a].fila \in Filas /\ activacion[a].faltan \subseteq Filas
    BY <1>1 DEF Activacion
  <1>3. Toca(a)
    BY DEF IInv, Versiones, Peticion
  <1>4. esquema[activacion[a].fila] \in Fila
    BY <1>2, <1>3 DEF IInv, TiposDeFilas, Toca
  <1> QED
    BY <1>1, <1>2, <1>3, <1>4, EsquemasAssumption DEF Codigo, Fila

LEMMA PasoConfirmarAlta ==
    ASSUME IInv, NEW k \in Altas, ConfirmarAlta(k)
    PROVE  IInv'
  <1> DEFINE c == alta[k].codigo
             n == CHOOSE r \in Libres : TRUE
             fila == [codigo |-> c, version |-> alta[k].version,
                      activo |-> FALSE, campos |-> alta[k].campos]
  <1>1. n \in Filas /\ esquema[n] = Ninguno
    BY DEF ConfirmarAlta, Libres
  <1>2. alta[k] \in Alta /\ fila \in Fila /\ fila # Ninguno
    <2>1. alta[k] \in Alta
      BY DEF ConfirmarAlta, IInv, TiposDeFilas
    <2>2. fila \in Fila
      BY <2>1 DEF Alta, Fila
    <2> QED
      BY <2>1, <2>2, EsquemasAssumption
  <1>3. fila.codigo = c /\ ~ fila.activo
    OBVIOUS
  <1>4. /\ esquema' = [esquema EXCEPT ![n] = fila]
        /\ alta' = [alta EXCEPT ![k] = Ninguno]
        /\ activacion' = [a \in Activaciones |->
                IF a \in AbiertasDe(c) THEN [activacion[a] EXCEPT !.sola = FALSE]
                ELSE activacion[a]]
        /\ ordenados' = IF AbiertasDe(c) = {} THEN ordenados ELSE ordenados \ {c}
        /\ UNCHANGED <<cerrojo, documento>>
    BY DEF ConfirmarAlta
  <1> HIDE DEF n, fila, c
  <1>5. \A r \in Filas : esquema'[r] = IF r = n THEN fila ELSE esquema[r]
    BY <1>1, <1>4 DEF IInv, TiposDeFilas
  <1>6. ASSUME NEW a \in Activaciones, Abierta(a)
        PROVE  /\ activacion'[a] \in Activacion /\ activacion'[a] # Ninguno
               /\ activacion'[a].fila = activacion[a].fila
               /\ activacion'[a].fase = activacion[a].fase
               /\ activacion'[a].faltan = activacion[a].faltan
               /\ activacion'[a].activo = activacion[a].activo
               /\ activacion'[a].sola => activacion[a].sola /\ Codigo(a) # c
               /\ Codigo(a) = c => c \notin ordenados'
               /\ activacion[a].fila # n /\ Codigo(a)' = Codigo(a)
    <2>1. activacion[a] \in Activacion
      BY <1>6, TipoAbierta
    <2>2. a \in AbiertasDe(c) <=> Codigo(a) = c
      BY <1>6 DEF AbiertasDe, Abierta, Codigo
    <2>3. activacion'[a] = IF Codigo(a) = c THEN [activacion[a] EXCEPT !.sola = FALSE]
                           ELSE activacion[a]
      BY <1>4, <2>2
    <2>4. /\ activacion'[a] \in Activacion
          /\ activacion'[a].fila = activacion[a].fila
          /\ activacion'[a].fase = activacion[a].fase
          /\ activacion'[a].faltan = activacion[a].faltan
          /\ activacion'[a].activo = activacion[a].activo
          /\ activacion'[a].sola => activacion[a].sola /\ Codigo(a) # c
      BY <2>1, <2>3 DEF Activacion
    <2>5. activacion'[a] # Ninguno
      BY <2>4, EsquemasAssumption
    <2>6. Codigo(a) = c => c \notin ordenados'
      BY <1>4, <2>2
    <2>7. activacion[a].fila # n
      BY <1>1, <1>6, TipoAbierta DEF Toca
    <2>8. Codigo(a)' = Codigo(a)
      BY <1>5, <1>6, <2>4, <2>7, TipoAbierta DEF Codigo
    <2> QED
      BY <2>4, <2>5, <2>6, <2>7, <2>8
  <1>7. \A a \in Activaciones : Abierta(a)' <=> Abierta(a)
    <2>1. \A a \in Activaciones : ~ Abierta(a) => activacion'[a] = Ninguno
      BY <1>4 DEF Abierta, AbiertasDe
    <2> QED
      BY <1>6, <2>1 DEF Abierta
  <1>8. TiposDeFilas'
    <2>1. esquema' \in [Filas -> Fila \union {Ninguno}]
      BY <1>2, <1>4 DEF IInv, TiposDeFilas
    <2>2. activacion' \in [Activaciones -> Activacion \union {Ninguno}]
      <3>1. \A a \in Activaciones : activacion'[a] \in Activacion \union {Ninguno}
        BY <1>6, <1>7 DEF Abierta
      <3>2. activacion' = [a \in Activaciones |-> activacion'[a]]
        BY <1>4
      <3> QED
        BY <3>1, <3>2
    <2>3. alta' \in [Altas -> Alta \union {Ninguno}] /\ ordenados' \subseteq Codigos
      BY <1>4 DEF IInv, TiposDeFilas
    <2> QED
      BY <1>4, <2>1, <2>2, <2>3 DEF IInv, TiposDeFilas
  <1>9. \A r \in Filas, d \in Codigos : EsDe(r, d)' <=> (IF r = n THEN d = c ELSE EsDe(r, d))
    BY <1>2, <1>3, <1>5 DEF EsDe
  <1>10. ASSUME NEW a \in Activaciones
         PROVE  Peticion(a)'
    <2>1. CASE ~ Abierta(a)
      BY <1>4, <1>7, <2>1 DEF Peticion, IInv, Versiones
    <2>2. CASE Abierta(a)
      <3>1. Codigo(a) \in Codigos /\ Toca(a) /\ activacion[a].fila \in Filas
            /\ activacion[a].faltan \subseteq Filas
        BY <2>2, TipoAbierta
      <3>2. Toca(a)'
        <4>1. esquema'[activacion[a].fila] # Ninguno
          BY <1>5, <1>6, <2>2, <3>1 DEF Toca
        <4>2. \A r \in Filas : EsDe(r, Codigo(a)) => EsDe(r, Codigo(a))' /\ r # n
          BY <1>1, <1>5 , <1>6, <2>2 DEF EsDe
        <4> QED
          BY <1>4, <1>6, <2>2, <3>1, <4>1, <4>2 DEF Toca, EsDe
      <3>3. activacion'[a].sola => Sola(a)'
        BY <1>6, <1>7, <2>2 DEF IInv, Versiones, Peticion, Sola
      <3>4. ASSUME activacion'[a].sola \/ Codigo(a)' \in ordenados'
            PROVE  Cubre(a)' /\ Acuerdo(a)'
        <4>1. Codigo(a) # c /\ Codigo(a)' = Codigo(a)
          BY <1>6, <2>2, <3>4
        <4>2. Cubre(a) /\ Acuerdo(a)
          BY <1>4, <1>6, <2>2, <3>4 DEF IInv, Versiones, Peticion
        <4>3. \A r \in Filas : EsDe(r, Codigo(a))' => EsDe(r, Codigo(a))
          BY <1>9, <3>1, <4>1 DEF EsDe
        <4>4. Cubre(a)'
          BY <1>4, <1>6, <2>2, <4>1, <4>2, <4>3 DEF Cubre, EsDe
        <4>5. Acuerdo(a)'
          BY <1>5, <1>6, <1>7, <2>2, <3>1, <4>1, <4>2 DEF Acuerdo
        <4> QED
          BY <4>4, <4>5
      <3> QED
        BY <1>7, <2>2, <3>2, <3>3, <3>4 DEF Peticion
    <2> QED
      BY <2>1, <2>2
  <1>11. ASSUME NEW d \in ordenados'
         PROVE  Unica(d)'
    <2>1. d \in ordenados /\ d \in Codigos
      BY <1>4 DEF IInv, TiposDeFilas
    <2>2. PICK r \in Filas : \A s \in Filas : (EsDe(s, d) /\ esquema[s].activo) <=> s = r
      BY <2>1 DEF IInv, Versiones, Unica
    <2>3. ~ EsDe(n, d)
      BY <1>1 DEF EsDe
    <2>4. \A s \in Filas : (EsDe(s, d)' /\ esquema'[s].activo) <=> (EsDe(s, d) /\ esquema[s].activo)
      BY <1>3, <1>5, <1>9, <2>1, <2>3
    <2> QED
      BY <2>2, <2>4 DEF Unica
  <1> QED
    BY <1>4, <1>8, <1>10, <1>11, DocumentoQuieto DEF IInv, Versiones

LEMMA PasoLeerEsquema ==
    ASSUME IInv, NEW a \in Activaciones, NEW r \in Filas, LeerEsquema(a, r)
    PROVE  IInv'
  <1> DEFINE c == esquema[r].codigo
             otras == AbiertasDe(c)
             q == [fase |-> "leida", fila |-> r, activo |-> esquema[r].activo,
                   faltan |-> {}, sola |-> otras = {}]
  <1>1. /\ ~ Abierta(a) /\ esquema[r] # Ninguno
        /\ activacion' = [b \in Activaciones |->
                IF b = a THEN q
                ELSE IF b \in otras THEN [activacion[b] EXCEPT !.sola = FALSE]
                ELSE activacion[b]]
        /\ UNCHANGED <<esquema, cerrojo, alta, documento>>
    BY DEF LeerEsquema, Abierta
  <1>2. ordenados' \subseteq ordenados
    BY DEF LeerEsquema
  <1>3. c \in ordenados' => \A b \in otras :
            activacion[b].fila # r => ~ activacion[b].activo /\ ~ esquema[r].activo
    BY DEF LeerEsquema
  <1>4. esquema[r] \in Fila
    BY <1>1 DEF IInv, TiposDeFilas
  <1>5. q \in Activacion /\ q # Ninguno
    <2>1. q \in Activacion
      BY <1>4 DEF Activacion, Fila
    <2> QED
      BY <2>1, EsquemasAssumption
  <1>6. /\ q.fase = "leida" /\ q.fila = r /\ q.faltan = {}
        /\ (q.activo <=> esquema[r].activo) /\ (q.sola => otras = {})
    OBVIOUS
  <1>7. \A b \in Activaciones : b \in otras <=> Abierta(b) /\ Codigo(b) = c
    BY DEF AbiertasDe, Abierta, Codigo
  <1> HIDE DEF q, otras
  <1>8. activacion'[a] = q
    BY <1>1
  <1>9. ASSUME NEW b \in Activaciones, Abierta(b)
        PROVE  /\ b # a /\ activacion'[b] \in Activacion /\ activacion'[b] # Ninguno
               /\ activacion'[b].fila = activacion[b].fila
               /\ activacion'[b].fase = activacion[b].fase
               /\ activacion'[b].faltan = activacion[b].faltan
               /\ activacion'[b].activo = activacion[b].activo
               /\ activacion'[b].sola => activacion[b].sola /\ Codigo(b) # c
               /\ Codigo(b)' = Codigo(b)
    <2>1. activacion[b] \in Activacion
      BY <1>9, TipoAbierta
    <2>2. activacion'[b] = IF Codigo(b) = c THEN [activacion[b] EXCEPT !.sola = FALSE]
                           ELSE activacion[b]
      BY <1>1, <1>7, <1>9
    <2>3. /\ activacion'[b] \in Activacion
          /\ activacion'[b].fila = activacion[b].fila
          /\ activacion'[b].fase = activacion[b].fase
          /\ activacion'[b].faltan = activacion[b].faltan
          /\ activacion'[b].activo = activacion[b].activo
          /\ activacion'[b].sola => activacion[b].sola /\ Codigo(b) # c
      BY <2>1, <2>2 DEF Activacion
    <2> QED
      BY <1>1, <1>9, <2>3, EsquemasAssumption DEF Codigo
  <1>10. \A b \in Activaciones : Abierta(b)' <=> Abierta(b) \/ b = a
    <2>1. \A b \in Activaciones : ~ Abierta(b) /\ b # a => activacion'[b] = Ninguno
      BY <1>1, <1>7 DEF Abierta
    <2> QED
      BY <1>5, <1>8, <1>9, <2>1 DEF Abierta
  <1>11. Codigo(a)' = c
    BY <1>1, <1>6, <1>8 DEF Codigo
  <1>12. TiposDeFilas'
    <2>1. \A b \in Activaciones : activacion'[b] \in Activacion \union {Ninguno}
      BY <1>5, <1>8, <1>9, <1>10 DEF Abierta
    <2>2. activacion' = [b \in Activaciones |-> activacion'[b]]
      BY <1>1
    <2>3. activacion' \in [Activaciones -> Activacion \union {Ninguno}]
      BY <2>1, <2>2
    <2> QED
      BY <1>1, <1>2, <2>3 DEF IInv, TiposDeFilas
  <1>13. Peticion(a)'
    <2>1. \A s \in Filas : cerrojo'[s] # a
      BY <1>1 DEF IInv, Versiones, Peticion
    <2>2. Toca(a)' /\ Cubre(a)'
      BY <1>1, <1>6, <1>8, <2>1 DEF Toca, Cubre
    <2>3. activacion'[a].sola => Sola(a)'
      BY <1>6, <1>7, <1>8, <1>9, <1>10, <1>11 DEF Sola
    <2>4. ASSUME activacion'[a].sola \/ c \in ordenados'
          PROVE  Acuerdo(a)'
      <3>1. ASSUME esquema[r].activo, NEW b \in Activaciones, Abierta(b)', Codigo(b)' = c
            PROVE  activacion'[b].fila = r
        <4>1. CASE b = a
          BY <1>6, <1>8, <4>1
        <4>2. CASE b # a
          <5>1. Abierta(b) /\ Codigo(b) = c /\ activacion'[b].fila = activacion[b].fila
            BY <1>9, <1>10, <3>1, <4>2
          <5>2. b \in otras /\ c \in ordenados'
            BY <1>6, <1>7, <1>8, <2>4, <5>1
          <5> QED
            BY <1>3, <3>1, <5>1, <5>2
        <4> QED
          BY <4>1, <4>2
      <3>2. (activacion'[a].activo <=> esquema[r].activo) /\ activacion'[a].fila = r
        BY <1>6, <1>8
      <3> QED
        BY <1>1, <1>11, <3>1, <3>2 DEF Acuerdo
    <2> QED
      BY <1>10, <1>11, <2>2, <2>3, <2>4 DEF Peticion
  <1>14. ASSUME NEW b \in Activaciones, b # a
         PROVE  Peticion(b)'
    <2>1. CASE ~ Abierta(b)
      BY <1>1, <1>10, <1>14, <2>1 DEF Peticion, IInv, Versiones
    <2>2. CASE Abierta(b)
      <3>1. Toca(b)'
        <4>1. Toca(b) /\ Codigo(b)' = Codigo(b)
          BY <1>9, <2>2, TipoAbierta
        <4>2. /\ activacion'[b].fila = activacion[b].fila
              /\ activacion'[b].fase = activacion[b].fase
              /\ activacion'[b].faltan = activacion[b].faltan
          BY <1>9, <2>2
        <4> QED
          BY <1>1, <4>1, <4>2 DEF Toca, EsDe
      <3>2. activacion'[b].sola => Sola(b)'
        BY <1>9, <1>10, <1>11, <2>2 DEF IInv, Versiones, Peticion, Sola
      <3>3. ASSUME activacion'[b].sola \/ Codigo(b)' \in ordenados'
            PROVE  Cubre(b)' /\ Acuerdo(b)'
        <4>1. Cubre(b) /\ Acuerdo(b)
          BY <1>2, <1>9, <2>2, <3>3 DEF IInv, Versiones, Peticion
        <4>2. Cubre(b)'
          BY <1>1, <1>9, <2>2, <4>1 DEF Cubre, EsDe
        <4>3. Codigo(b) = c /\ activacion[b].activo => activacion[b].fila = r
          BY <1>3, <1>7, <1>9, <2>2, <3>3
        <4>4. /\ activacion'[b].fila = activacion[b].fila
              /\ activacion'[b].activo = activacion[b].activo /\ Codigo(b)' = Codigo(b)
          BY <1>9, <2>2
        <4>5. ASSUME activacion[b].activo, NEW x \in Activaciones, Abierta(x)',
                     Codigo(x)' = Codigo(b)
              PROVE  activacion'[x].fila = activacion[b].fila
          <5>1. CASE x = a
            BY <1>6, <1>8, <1>11, <4>3, <4>5, <5>1
          <5>2. CASE x # a
            <6>1. /\ Abierta(x) /\ Codigo(x) = Codigo(b)
                  /\ activacion'[x].fila = activacion[x].fila
              BY <1>9, <1>10, <4>5, <5>2
            <6> QED
              BY <4>1, <4>5, <6>1 DEF Acuerdo
          <5> QED
            BY <5>1, <5>2
        <4>6. Acuerdo(b)'
          BY <1>1, <4>1, <4>4, <4>5 DEF Acuerdo
        <4> QED
          BY <4>2, <4>6
      <3> QED
        BY <1>10, <2>2, <3>1, <3>2, <3>3 DEF Peticion
    <2> QED
      BY <2>1, <2>2
  <1>15. \A d \in ordenados' : Unica(d)'
    BY <1>1, <1>2 DEF IInv, Versiones, Unica, EsDe
  <1> QED
    BY <1>1, <1>12, <1>13, <1>14, <1>15, DocumentoQuieto DEF IInv, Versiones

\* A request that goes on changes nothing of the others but the locks it takes.
LEMMA SoloUna ==
    ASSUME IInv, NEW a \in Activaciones, Abierta(a), NEW q \in Activacion,
           activacion' = [activacion EXCEPT ![a] = q],
           q.fila = activacion[a].fila,
           q.activo <=> activacion[a].activo,
           q.sola <=> activacion[a].sola,
           cerrojo' \in [Filas -> Activaciones \union {Ninguno}],
           \A r \in Filas : cerrojo'[r] = cerrojo[r] \/ (cerrojo[r] = Ninguno /\ cerrojo'[r] = a),
           UNCHANGED <<esquema, alta, documento, ordenados>>,
           Toca(a)', Cubre(a) => Cubre(a)'
    PROVE  IInv'
  <1>1. activacion'[a] = q /\ \A b \in Activaciones : b # a => activacion'[b] = activacion[b]
    BY DEF IInv, TiposDeFilas
  <1>2. q # Ninguno
    BY EsquemasAssumption
  <1>3. \A b \in Activaciones : /\ activacion'[b] # Ninguno <=> activacion[b] # Ninguno
                                 /\ activacion'[b].fila = activacion[b].fila
    BY <1>1, <1>2 DEF Abierta
  <1>4. TiposDeFilas'
    BY DEF IInv, TiposDeFilas
  <1>5. ASSUME NEW b \in Activaciones
        PROVE  /\ Abierta(b)' <=> Abierta(b)
               /\ Codigo(b)' = Codigo(b)
               /\ Sola(b) => Sola(b)'
               /\ Acuerdo(b) => Acuerdo(b)'
    <2>1. esquema' = esquema
      OBVIOUS
    <2>2. (Abierta(b)' <=> Abierta(b)) /\ Codigo(b)' = Codigo(b)
      BY <1>3, <2>1 DEF Abierta, Codigo
    <2>3. Sola(b) => Sola(b)'
      BY <1>3, <2>1 DEF Sola, Abierta, Codigo
    <2>4. activacion'[b].activo <=> activacion[b].activo
      BY <1>1
    <2>5. Acuerdo(b) => Acuerdo(b)'
      BY <1>3, <2>1, <2>4 DEF Acuerdo, Abierta, Codigo
    <2> QED
      BY <2>2, <2>3, <2>5
  <1>6. ASSUME NEW b \in Activaciones
        PROVE  Peticion(b)'
    <2>1. CASE b = a
      BY <1>3, <1>5, <2>1 DEF IInv, Versiones, Peticion
    <2>2. CASE b # a
      <3>1. activacion'[b] = activacion[b] /\ \A r \in Filas : cerrojo'[r] = b <=> cerrojo[r] = b
        BY <1>1, <2>2, EsquemasAssumption
      <3>2. Abierta(b) => (Toca(b) => Toca(b)') /\ (Cubre(b) => Cubre(b)')
        BY <3>1 DEF Toca, Cubre, EsDe, Codigo
      <3> QED
        BY <1>3, <1>5, <3>1, <3>2 DEF IInv, Versiones, Peticion
    <2> QED
      BY <2>1, <2>2
  <1>7. \A d \in ordenados' : Unica(d)'
    BY DEF IInv, Versiones, Unica, EsDe
  <1> QED
    BY <1>4, <1>6, <1>7, DocumentoQuieto DEF IInv, Versiones

LEMMA PasoEmpezar ==
    ASSUME IInv, NEW a \in Activaciones, EmpezarDesactivacion(a)
    PROVE  IInv'
  <1> DEFINE otras == Existentes(Codigo(a)) \ {activacion[a].fila}
             q == [activacion[a] EXCEPT !.fase = "desactivando", !.faltan = otras]
  <1>1. Abierta(a) /\ activacion[a].fase = "leida"
    BY DEF EmpezarDesactivacion, Abierta
  <1>2. activacion[a] \in Activacion /\ Toca(a) /\ activacion[a].fila \in Filas
    BY <1>1, TipoAbierta
  <1>3. otras \subseteq Filas /\ \A r \in Filas :
            r \in otras <=> EsDe(r, Codigo(a)) /\ r # activacion[a].fila
    BY DEF Existentes, EsDe
  <1>4. activacion' = [activacion EXCEPT ![a] = q]
    BY <1>1, <1>2 DEF EmpezarDesactivacion, Codigo, IInv, TiposDeFilas
  <1>5. UNCHANGED <<esquema, cerrojo, alta, documento, ordenados>>
    BY DEF EmpezarDesactivacion
  <1> HIDE DEF otras
  <1>6. /\ q \in Activacion /\ q.fila = activacion[a].fila
        /\ q.activo = activacion[a].activo /\ q.sola = activacion[a].sola
        /\ q.fase = "desactivando" /\ q.faltan = otras
    BY <1>2, <1>3 DEF Activacion
  <1> HIDE DEF q
  <1>7. activacion'[a] = q
    BY <1>4 DEF IInv, TiposDeFilas
  <1>8. Codigo(a)' = Codigo(a)
    BY <1>5, <1>6, <1>7 DEF Codigo
  <1>9. Toca(a)'
    BY <1>1, <1>2, <1>3, <1>5, <1>6, <1>7, <1>8 DEF Toca, EsDe
  <1>10. Cubre(a)'
    BY <1>3, <1>5, <1>6, <1>7, <1>8 DEF Cubre, EsDe
  <1>11. /\ cerrojo' \in [Filas -> Activaciones \union {Ninguno}]
         /\ \A r \in Filas : cerrojo'[r] = cerrojo[r]
    BY <1>5 DEF IInv, TiposDeFilas
  <1> QED
    BY <1>1, <1>4, <1>5, <1>6, <1>9, <1>10, <1>11, SoloUna

LEMMA PasoDesactivar ==
    ASSUME IInv, NEW a \in Activaciones, NEW r \in Filas, Desactivar(a, r)
    PROVE  IInv'
  <1> DEFINE q == [activacion[a] EXCEPT !.faltan = @ \ {r}]
  <1>1. /\ Abierta(a) /\ activacion[a].fase = "desactivando"
        /\ r \in activacion[a].faltan /\ cerrojo[r] = Ninguno
        /\ cerrojo' = [cerrojo EXCEPT ![r] = a]
        /\ UNCHANGED <<esquema, alta, documento, ordenados>>
    BY DEF Desactivar, Abierta
  <1>2. activacion[a] \in Activacion /\ Toca(a)
    BY <1>1, TipoAbierta
  <1>3. activacion' = [activacion EXCEPT ![a] = q]
    BY DEF Desactivar
  <1>4. /\ q \in Activacion /\ q.fila = activacion[a].fila
        /\ q.activo = activacion[a].activo /\ q.sola = activacion[a].sola
        /\ q.fase = "desactivando" /\ q.faltan = activacion[a].faltan \ {r}
    BY <1>1, <1>2 DEF Activacion
  <1> HIDE DEF q
  <1>5. activacion'[a] = q
    BY <1>3 DEF IInv, TiposDeFilas
  <1>6. Codigo(a)' = Codigo(a)
    BY <1>1, <1>4, <1>5 DEF Codigo
  <1>7. /\ cerrojo' \in [Filas -> Activaciones \union {Ninguno}]
        /\ \A s \in Filas : cerrojo'[s] = IF s = r THEN a ELSE cerrojo[s]
    BY <1>1 DEF IInv, TiposDeFilas
  <1>8. Toca(a)'
    BY <1>1, <1>2, <1>4, <1>5, <1>6, <1>7 DEF Toca, EsDe
  <1>9. Cubre(a) => Cubre(a)'
    BY <1>1, <1>4, <1>5, <1>6, <1>7 DEF Cubre, EsDe
  <1> QED
    BY <1>1, <1>3, <1>4, <1>7, <1>8, <1>9, SoloUna

\* A request that ends frees its locks and leaves those of the others.
LEMMA Suelta ==
    ASSUME IInv, NEW a \in Activaciones,
           cerrojo' = Soltar(a), activacion' = [activacion EXCEPT ![a] = Ninguno]
    PROVE  /\ cerrojo' \in [Filas -> Activaciones \union {Ninguno}]
           /\ activacion' \in [Activaciones -> Activacion \union {Ninguno}]
           /\ \A r \in Filas : cerrojo'[r] # a
           /\ \A b \in Activaciones \ {a}, r \in Filas : cerrojo'[r] = b <=> cerrojo[r] = b
           /\ activacion'[a] = Ninguno
           /\ \A b \in Activaciones \ {a} : activacion'[b] = activacion[b]
  <1>1. Ninguno \notin Activaciones
    BY EsquemasAssumption
  <1>2. \A r \in Filas : cerrojo'[r] = IF cerrojo[r] = a THEN Ninguno ELSE cerrojo[r]
    BY DEF Soltar
  <1>3. cerrojo' \in [Filas -> Activaciones \union {Ninguno}]
    BY DEF Soltar, IInv, TiposDeFilas
  <1>4. /\ activacion' \in [Activaciones -> Activacion \union {Ninguno}]
        /\ activacion'[a] = Ninguno
        /\ \A b \in Activaciones \ {a} : activacion'[b] = activacion[b]
    BY DEF IInv, TiposDeFilas
  <1> QED
    BY <1>1, <1>2, <1>3, <1>4

LEMMA PasoAbortar ==
    ASSUME IInv, NEW a \in Activaciones, Abortar(a)
    PROVE  IInv'
  <1>1. /\ cerrojo' = Soltar(a) /\ activacion' = [activacion EXCEPT ![a] = Ninguno]
        /\ UNCHANGED <<esquema, alta, documento, ordenados>>
    BY DEF Abortar
  <1>2. /\ cerrojo' \in [Filas -> Activaciones \union {Ninguno}]
        /\ activacion' \in [Activaciones -> Activacion \union {Ninguno}]
        /\ \A r \in Filas : cerrojo'[r] # a
        /\ \A b \in Activaciones \ {a}, r \in Filas : cerrojo'[r] = b <=> cerrojo[r] = b
        /\ activacion'[a] = Ninguno
        /\ \A b \in Activaciones \ {a} : activacion'[b] = activacion[b]
    BY <1>1, Suelta
  <1>3. TiposDeFilas'
    BY <1>1, <1>2 DEF IInv, TiposDeFilas
  <1>4. ASSUME NEW b \in Activaciones
        PROVE  Peticion(b)'
    <2>1. CASE b = a
      BY <1>2, <2>1 DEF Peticion, Abierta
    <2>2. CASE b # a
      <3>1. activacion'[b] = activacion[b] /\ \A r \in Filas : cerrojo'[r] = b <=> cerrojo[r] = b
        BY <1>2, <2>2
      <3>2. (Abierta(b)' <=> Abierta(b)) /\ Codigo(b)' = Codigo(b)
        BY <1>1, <3>1 DEF Abierta, Codigo
      <3>3. (Toca(b) => Toca(b)') /\ (Cubre(b) => Cubre(b)')
        BY <1>1, <3>1, <3>2 DEF Toca, Cubre, EsDe
      <3>4. (Sola(b) => Sola(b)') /\ (Acuerdo(b) => Acuerdo(b)')
        BY <1>1, <1>2, <3>1, <3>2 DEF Sola, Acuerdo, Abierta, Codigo
      <3> QED
        BY <1>1, <3>1, <3>2, <3>3, <3>4 DEF IInv, Versiones, Peticion
    <2> QED
      BY <2>1, <2>2
  <1>5. \A d \in ordenados' : Unica(d)'
    BY <1>1 DEF IInv, Versiones, Unica, EsDe
  <1> QED
    BY <1>1, <1>3, <1>4, <1>5, DocumentoQuieto DEF IInv, Versiones

\* What an activation commits: the state of no row of another code, and, in a code
\* that no race has unsettled or when it ran alone, its row active and no other.
\* What no activation changes of a row.
MismaVersion(r) ==
    /\ esquema'[r].codigo = esquema[r].codigo /\ esquema'[r].version = esquema[r].version
    /\ esquema'[r].campos = esquema[r].campos

LEMMA LoConfirmado ==
    ASSUME IInv, NEW a \in Activaciones, ConfirmarActivacion(a)
    PROVE  /\ Abierta(a) /\ esquema' \in [Filas -> Fila \union {Ninguno}]
           /\ \A r \in Filas : /\ esquema'[r] # Ninguno <=> esquema[r] # Ninguno
                               /\ esquema[r] # Ninguno => MismaVersion(r)
                               /\ ~ EsDe(r, Codigo(a)) => esquema'[r] = esquema[r]
           /\ activacion[a].sola \/ Codigo(a) \in ordenados =>
                \A r \in Filas : EsDe(r, Codigo(a)) =>
                    (esquema'[r].activo <=> r = activacion[a].fila)
  <1> DEFINE q == activacion[a]
             escritas == {r \in Filas : cerrojo[r] = a}
  <1>1. /\ Abierta(a) /\ q.fase = "desactivando" /\ q.faltan = {}
        /\ esquema' = [r \in Filas |->
                IF r \in escritas THEN [esquema[r] EXCEPT !.activo = FALSE]
                ELSE IF r = q.fila /\ ~ q.activo THEN [esquema[r] EXCEPT !.activo = TRUE]
                ELSE esquema[r]]
    BY DEF ConfirmarActivacion, Abierta
  <1>2. Toca(a) /\ q.fila \in Filas /\ esquema[q.fila] \in Fila
    BY <1>1, TipoAbierta
  <1>3. \A r \in Filas : r \in escritas => EsDe(r, Codigo(a)) /\ r # q.fila
    BY <1>2 DEF Toca
  <1>4. EsDe(q.fila, Codigo(a))
    BY <1>2 DEF Toca, EsDe, Codigo
  <1>5. \A r \in Filas : esquema[r] # Ninguno => esquema[r] \in Fila
    BY DEF IInv, TiposDeFilas
  <1>6. activacion[a].sola \/ Codigo(a) \in ordenados =>
            /\ \A r \in Filas : EsDe(r, Codigo(a)) /\ r # q.fila => r \in escritas
            /\ q.activo => esquema[q.fila].activo
    <2>1. activacion[a].sola \/ Codigo(a) \in ordenados => Cubre(a) /\ Acuerdo(a)
      BY <1>1 DEF IInv, Versiones, Peticion
    <2> QED
      BY <1>1, <2>1 DEF Cubre, Acuerdo
  <1> HIDE DEF escritas, q
  <1>7. ASSUME NEW r \in Filas, EsDe(r, Codigo(a))
        PROVE  /\ esquema'[r] \in Fila /\ MismaVersion(r)
               /\ esquema'[r].activo <=> (r \notin escritas /\
                        (esquema[r].activo \/ (r = q.fila /\ ~ q.activo)))
    <2>1. esquema[r] \in Fila
      BY <1>5, <1>7 DEF EsDe
    <2>2. CASE r \in escritas
      BY <1>1, <2>1, <2>2 DEF Fila, MismaVersion
    <2>3. CASE r \notin escritas /\ r = q.fila /\ ~ q.activo
      BY <1>1, <2>1, <2>3 DEF Fila, MismaVersion
    <2>4. CASE r \notin escritas /\ ~ (r = q.fila /\ ~ q.activo)
      BY <1>1, <2>1, <2>4 DEF Fila, MismaVersion
    <2> QED
      BY <2>2, <2>3, <2>4
  <1>8. ASSUME NEW r \in Filas, ~ EsDe(r, Codigo(a))
        PROVE  esquema'[r] = esquema[r]
    BY <1>1, <1>3, <1>4, <1>8
  <1>9. Ninguno \notin Fila
    BY EsquemasAssumption
  <1>10. esquema' \in [Filas -> Fila \union {Ninguno}]
    <2>1. \A r \in Filas : esquema'[r] \in Fila \union {Ninguno}
      BY <1>7, <1>8 DEF IInv, TiposDeFilas
    <2>2. esquema' = [r \in Filas |-> esquema'[r]]
      BY <1>1
    <2> QED
      BY <2>1, <2>2
  <1>11. \A r \in Filas : /\ esquema'[r] # Ninguno <=> esquema[r] # Ninguno
                          /\ esquema[r] # Ninguno => MismaVersion(r)
    BY <1>7, <1>8, <1>9 DEF EsDe, MismaVersion
  <1>12. ASSUME activacion[a].sola \/ Codigo(a) \in ordenados, NEW r \in Filas,
                EsDe(r, Codigo(a))
         PROVE  esquema'[r].activo <=> r = q.fila
    BY <1>3, <1>6, <1>7, <1>12
  <1> QED
    BY <1>1, <1>8, <1>10, <1>11, <1>12 DEF q

LEMMA PasoConfirmarActivacion ==
    ASSUME IInv, NEW a \in Activaciones, ConfirmarActivacion(a)
    PROVE  IInv'
  <1> DEFINE c == Codigo(a)
             fila == activacion[a].fila
  <1>1. /\ cerrojo' = Soltar(a) /\ activacion' = [activacion EXCEPT ![a] = Ninguno]
        /\ ordenados' = IF activacion[a].sola THEN ordenados \union {c} ELSE ordenados
        /\ UNCHANGED <<alta, documento>>
    BY DEF ConfirmarActivacion, Codigo
  <1>2. /\ cerrojo' \in [Filas -> Activaciones \union {Ninguno}]
        /\ activacion' \in [Activaciones -> Activacion \union {Ninguno}]
        /\ \A r \in Filas : cerrojo'[r] # a
        /\ \A b \in Activaciones \ {a}, r \in Filas : cerrojo'[r] = b <=> cerrojo[r] = b
        /\ activacion'[a] = Ninguno
        /\ \A b \in Activaciones \ {a} : activacion'[b] = activacion[b]
    BY <1>1, Suelta
  <1>3. /\ Abierta(a) /\ esquema' \in [Filas -> Fila \union {Ninguno}]
        /\ \A r \in Filas : /\ esquema'[r] # Ninguno <=> esquema[r] # Ninguno
                            /\ esquema[r] # Ninguno => esquema'[r].codigo = esquema[r].codigo
                            /\ ~ EsDe(r, c) => esquema'[r] = esquema[r]
        /\ activacion[a].sola \/ c \in ordenados =>
                \A r \in Filas : EsDe(r, c) => (esquema'[r].activo <=> r = fila)
    BY LoConfirmado DEF MismaVersion
  <1>4. fila \in Filas /\ c \in Codigos /\ EsDe(fila, c)
    BY <1>3, TipoAbierta DEF Toca, EsDe, Codigo
  <1>5. activacion[a].sola => Sola(a)
    BY <1>3 DEF IInv, Versiones, Peticion
  <1>6. c \in ordenados => Acuerdo(a)
    BY <1>3 DEF IInv, Versiones, Peticion
  <1>7. \A r \in Filas, d \in Codigos : EsDe(r, d)' <=> EsDe(r, d)
    BY <1>3 DEF EsDe
  <1>8. TiposDeFilas'
    BY <1>1, <1>2, <1>3, <1>4 DEF IInv, TiposDeFilas
  <1>9. ASSUME NEW b \in Activaciones
        PROVE  Peticion(b)'
    <2>1. CASE b = a
      BY <1>2, <2>1 DEF Peticion, Abierta
    <2>2. CASE b # a /\ ~ Abierta(b)
      BY <1>2, <2>2 DEF Peticion, Abierta, IInv, Versiones
    <2>3. CASE b # a /\ Abierta(b)
      <3> DEFINE g == activacion[b].fila
      <3>1. activacion'[b] = activacion[b] /\ \A r \in Filas : cerrojo'[r] = b <=> cerrojo[r] = b
        BY <1>2, <2>3
      <3>2. g \in Filas /\ Codigo(b) \in Codigos /\ Toca(b) /\ EsDe(g, Codigo(b))
        BY <2>3, TipoAbierta DEF Toca, EsDe, Codigo
      <3>3. Abierta(b)' /\ Codigo(b)' = Codigo(b)
        <4>1. esquema'[g].codigo = esquema[g].codigo
          BY <1>3, <3>2 DEF EsDe
        <4> QED
          BY <2>3, <3>1, <4>1 DEF Abierta, Codigo
      <3>4. Toca(b)'
        BY <1>3, <1>7, <3>1, <3>2, <3>3 DEF Toca
      <3>5. \A x \in Activaciones : Abierta(x)' =>
                /\ x # a /\ Abierta(x) /\ Codigo(x)' = Codigo(x)
                /\ activacion'[x].fila = activacion[x].fila
        <4>1. SUFFICES ASSUME NEW x \in Activaciones, activacion'[x] # Ninguno
                       PROVE  /\ x # a /\ Abierta(x) /\ Codigo(x)' = Codigo(x)
                              /\ activacion'[x].fila = activacion[x].fila
          BY DEF Abierta
        <4>2. x # a /\ Abierta(x) /\ activacion'[x] = activacion[x]
          BY <1>2, <4>1 DEF Abierta
        <4>3. activacion[x].fila \in Filas /\ esquema[activacion[x].fila] # Ninguno
          BY <4>2, TipoAbierta DEF Toca
        <4>4. Codigo(x)' = Codigo(x)
          BY <1>3, <4>2, <4>3 DEF Codigo
        <4> QED
          BY <4>2, <4>4
      <3>6. activacion'[b].sola => Sola(b)'
        <4>1. activacion[b].sola => Sola(b)
          BY <2>3 DEF IInv, Versiones, Peticion
        <4> QED
          BY <3>1, <3>3, <3>5, <4>1 DEF Sola
      <3>7. ASSUME activacion'[b].sola \/ Codigo(b)' \in ordenados'
            PROVE  Cubre(b)' /\ Acuerdo(b)'
        <4>1. Codigo(b) = c => c \in ordenados /\ ~ activacion[b].sola
          <5>1. ASSUME Codigo(b) = c
                PROVE  ~ activacion[a].sola /\ ~ activacion[b].sola
            BY <1>3, <1>5, <2>3, <5>1 DEF IInv, Versiones, Peticion, Sola
          <5> QED
            BY <1>1, <3>1, <3>3, <3>7, <5>1
        <4>2. Cubre(b) /\ Acuerdo(b)
          <5>1. activacion[b].sola \/ Codigo(b) \in ordenados
            BY <1>1, <3>1, <3>3, <3>7, <4>1
          <5> QED
            BY <2>3, <5>1 DEF IInv, Versiones, Peticion
        <4>3. Cubre(b)'
          BY <1>7, <3>1, <3>2, <3>3, <4>2 DEF Cubre
        <4>4. activacion[b].activo => esquema'[g].activo
          <5>1. CASE Codigo(b) = c
            <6>1. ASSUME activacion[b].activo
                  PROVE  fila = g
              BY <1>3, <4>2, <5>1, <6>1 DEF Acuerdo
            <6> QED
              BY <1>3, <1>4, <4>1, <5>1, <6>1
          <5>2. CASE Codigo(b) # c
            <6>1. ~ EsDe(g, c)
              BY <3>2, <5>2 DEF EsDe
            <6> QED
              BY <1>3, <3>2, <4>2, <6>1 DEF Acuerdo
          <5> QED
            BY <5>1, <5>2
        <4>5. Acuerdo(b)'
          BY <3>1, <3>3, <3>5, <4>2, <4>4 DEF Acuerdo
        <4> QED
          BY <4>3, <4>5
      <3> QED
        BY <3>3, <3>4, <3>6, <3>7 DEF Peticion
    <2> QED
      BY <2>1, <2>2, <2>3
  <1>10. ASSUME NEW d \in ordenados'
         PROVE  Unica(d)'
    <2>1. d \in Codigos
      BY <1>1, <1>4 DEF IInv, TiposDeFilas
    <2>2. CASE d = c
      <3>1. \A r \in Filas : EsDe(r, c) => (esquema'[r].activo <=> r = fila)
        BY <1>1, <1>3, <2>2
      <3>2. \A s \in Filas : (EsDe(s, d)' /\ esquema'[s].activo) <=> s = fila
        BY <1>4, <1>7, <2>1, <2>2, <3>1
      <3> QED
        BY <1>4, <3>2 DEF Unica
    <2>3. CASE d # c
      <3>1. d \in ordenados
        BY <1>1, <2>3
      <3>2. PICK r \in Filas : \A s \in Filas : (EsDe(s, d) /\ esquema[s].activo) <=> s = r
        BY <3>1 DEF IInv, Versiones, Unica
      <3>3. \A s \in Filas : EsDe(s, d) => ~ EsDe(s, c) /\ esquema'[s] = esquema[s]
        BY <1>3, <2>3 DEF EsDe
      <3>4. \A s \in Filas : (EsDe(s, d)' /\ esquema'[s].activo) <=> s = r
        BY <1>7, <2>1, <3>2, <3>3
      <3> QED
        BY <3>4 DEF Unica
    <2> QED
      BY <2>2, <2>3
  <1> QED
    BY <1>1, <1>8, <1>9, <1>10, DocumentoQuieto DEF IInv, Versiones

-----------------------------------------------------------------------------
(* The invariant and what follows from it.                                  *)

LEMMA Inicio == Init => IInv
  <1> SUFFICES ASSUME Init PROVE IInv
    OBVIOUS
  <1>1. TiposDeFilas /\ TipoDeDocumento /\ Leido
    BY DEF Init, TiposDeFilas, TipoDeDocumento, Leido, EnFase
  <1>2. Versiones
    BY EsquemasAssumption DEF Init, Versiones, Peticion, Abierta
  <1> QED
    BY <1>1, <1>2 DEF IInv

LEMMA Paso == IInv /\ [Next]_vars => IInv'
  <1> SUFFICES ASSUME IInv, [Next]_vars PROVE IInv'
    OBVIOUS
  <1>1. CASE UNCHANGED vars
    BY <1>1, VersionesQuietas, DocumentoQuieto DEF vars, IInv, TiposDeFilas
  <1>2. ASSUME NEW k \in Altas, NEW c \in Codigos, NEW g \in Plantillas, LeerVersion(k, c, g)
        PROVE  IInv'
    BY <1>2, PasoLeerVersion
  <1>3. ASSUME NEW k \in Altas, ConfirmarAlta(k)
        PROVE  IInv'
    BY <1>3, PasoConfirmarAlta
  <1>4. ASSUME NEW a \in Activaciones, NEW r \in Filas, LeerEsquema(a, r) \/ Desactivar(a, r)
        PROVE  IInv'
    BY <1>4, PasoLeerEsquema, PasoDesactivar
  <1>5. ASSUME NEW a \in Activaciones,
               EmpezarDesactivacion(a) \/ ConfirmarActivacion(a) \/ Abortar(a)
        PROVE  IInv'
    BY <1>5, PasoEmpezar, PasoConfirmarActivacion, PasoAbortar
  <1>6. ASSUME NEW f \in Archivos, Guardar(f)
        PROVE  IInv'
    BY <1>6, PasoGuardar
  <1> QED
    BY <1>1, <1>2, <1>3, <1>4, <1>5, <1>6, PasoProcesar DEF Next

\* The inductive invariant holds in every behaviour.
THEOREM Invariante == Spec => []IInv
  BY Inicio, Paso, PTL DEF Spec

\* Rows, locks, requests and the document keep their types.
THEOREM TypeSeguro == Spec => []TypeOK
  <1>1. IInv => TypeOK
    BY DEF IInv, TiposDeFilas, TipoDeDocumento, TypeOK
  <1> QED
    BY <1>1, Invariante, PTL

\* A code that no race has unsettled since an activation ran alone has exactly one
\* active version, however many requests activate its versions or abort.
THEOREM ActivacionSegura == Spec => []ActivacionUnica
  <1>1. IInv => ActivacionUnica
    <2> SUFFICES ASSUME IInv, NEW c \in ordenados
                 PROVE  Cardinality(Activas(c)) = 1
      BY DEF ActivacionUnica
    <2>1. PICK r \in Filas : \A s \in Filas : (EsDe(s, c) /\ esquema[s].activo) <=> s = r
      BY DEF IInv, Versiones, Unica
    <2>2. Activas(c) = {r}
      BY <2>1 DEF Activas, Existentes, EsDe
    <2> QED
      BY <2>2, FS_Singleton
  <1> QED
    BY <1>1, Invariante, PTL

\* What the upload lets through: a PDF or an image that opens, no longer than gate 2
\* reads.
LEMMA GuardadoAbre ==
    ASSUME NEW f \in Archivos, Guardable(f)
    PROVE  /\ f.ext = f.mime
           /\ ~ Legible(f) => f.mime = "pdf" /\ \E i \in DOMAIN f.hojas : ~ f.hojas[i].dibujable
           /\ f.mime = "pdf" =>
                /\ Len(f.hojas) \in Nat /\ Len(f.hojas) <= MaxPaginas
                /\ DOMAIN f.hojas = 1 .. Len(f.hojas) /\ DOMAIN f.hojas = Rasterizadas(f)
           /\ f.tamano # 0 /\ ~ (f.tamano > MaxTamano)
           /\ EsImagen(f) => DimensionesValidas(f)
  <1>1. /\ f.tamano \in Nat /\ f.mime \in {"pdf", "imagen", "otro"}
        /\ Len(f.hojas) \in Nat /\ DOMAIN f.hojas = 1 .. Len(f.hojas)
        /\ MaxTamano \in Nat
    BY EsquemasAssumption, ExtraccionAssumption
  <1>2. /\ f.tamano >= 4 /\ f.mime # "otro" /\ f.firma = f.mime /\ f.ext = f.mime
        /\ f.tamano <= MaxTamano
        /\ f.mime = "pdf" => ~ f.danado /\ Len(f.hojas) <= MaxPaginas
        /\ f.mime = "imagen" => DimensionesValidas(f)
    BY DEF Guardable, FirmaValida
  <1>3. EsImagen(f) => f.mime = "imagen"
    BY <1>2 DEF EsImagen, FirmaValida
  <1>4. f.mime = "pdf" => DOMAIN f.hojas = Rasterizadas(f)
    BY <1>1, <1>2 DEF Menor, Rasterizadas
  <1>5. ~ Legible(f) => f.mime = "pdf" /\ \E i \in DOMAIN f.hojas : ~ f.hojas[i].dibujable
    BY <1>1, <1>2, <1>4 DEF Legible, DimensionesValidas
  <1> QED
    BY <1>1, <1>2, <1>3, <1>4, <1>5

\* A report names its gate and its text, or is the failure of a rule.
LEMMA InformeDe ==
    ASSUME NEW metodo \in {"pdfplumber", "tesseract_200dpi"}, NEW texto, NEW reglas
    PROVE  LET r == Informe(metodo, texto, reglas)
           IN /\ r # Fallo => r.metodo = metodo /\ r.texto = texto
              /\ r = Fallo => \E i \in DOMAIN reglas : Rompe(reglas[i], texto)
  <1>1. CASE \E i \in DOMAIN reglas : Rompe(reglas[i], texto)
    BY <1>1 DEF Informe
  <1>2. CASE ~ \E i \in DOMAIN reglas : Rompe(reglas[i], texto)
    <2> DEFINE a == AplicarEsquema(texto, reglas)
    <2>1. Informe(metodo, texto, reglas) =
            [metodo |-> metodo, texto |-> texto, confianza |-> a.confianza,
             campos |-> a.campos]
      BY <1>2 DEF Informe
    <2> HIDE DEF a
    <2> QED
      BY <2>1 DEF Fallo
  <1> QED
    BY <1>1, <1>2

\* A rule breaks only by its group.
LEMMA RompePorGrupo ==
    ASSUME NEW r, NEW texto, Rompe(r, texto)
    PROVE  GrupoInseguro(r)
  BY DEF Rompe, Acierta, GrupoInseguro

\* Where gate 1 reads as many pages as are stored, the extraction of a stored file reads
\* all the pages of a PDF, and fails by a rule or by a page that is not drawn.
LEMMA ExtraidoDe ==
    ASSUME MaxPaginas <= PaginasDigitales,
           NEW f \in Archivos, Guardable(f), NEW reglas
    PROVE  LET r == Extraer(f, reglas)
           IN /\ r # Fallo /\ f.mime = "pdf" => PaginasLeidas(f, r)
              /\ r = Fallo => \/ \E i \in DOMAIN reglas : GrupoInseguro(reglas[i])
                              \/ SinDibujo(f)
  <1> DEFINE u == Compuerta1(f)
             d == Compuerta2(f)
             r == Extraer(f, reglas)
  <1>1. f.ext = f.mime
    BY GuardadoAbre
  <1>2. CASE f.ext = "pdf" /\ Cardinality(u) > UmbralDigital
    <2>1. r = Informe("pdfplumber", u, reglas)
      BY <1>2 DEF Extraer
    <2>2. u # {}
      BY <1>2, FS_EmptySet, ExtraccionAssumption
    <2>3. DOMAIN f.hojas = 1 .. Menor(Len(f.hojas), PaginasDigitales)
      BY <1>1, <1>2, GuardadoAbre, ExtraccionAssumption DEF Menor
    <2>4. u = UNION {f.hojas[i].digital : i \in DOMAIN f.hojas}
      BY <2>2, <2>3 DEF Compuerta1
    <2>5. \A i \in DOMAIN f.hojas : f.hojas[i].digital \subseteq u
      BY <2>4
    <2> HIDE DEF u, r
    <2>6. /\ r # Fallo => r.metodo = "pdfplumber" /\ r.texto = u
          /\ r = Fallo => \E i \in DOMAIN reglas : Rompe(reglas[i], u)
      BY <2>1, InformeDe
    <2>7. r # Fallo => PaginasLeidas(f, r)
      BY <2>5, <2>6 DEF PaginasLeidas
    <2> QED
      BY <2>6, <2>7, RompePorGrupo DEF r
  <1>3. CASE ~ (f.ext = "pdf" /\ Cardinality(u) > UmbralDigital) /\ Legible(f)
    <2>1. r = Informe("tesseract_200dpi", d, reglas)
      BY <1>3 DEF Extraer
    <2>2. f.mime = "pdf" => \A i \in DOMAIN f.hojas : f.hojas[i].ocr \subseteq d
      BY GuardadoAbre DEF Compuerta2
    <2> HIDE DEF d, r
    <2>3. /\ r # Fallo => r.metodo = "tesseract_200dpi" /\ r.texto = d
          /\ r = Fallo => \E i \in DOMAIN reglas : Rompe(reglas[i], d)
      BY <2>1, InformeDe
    <2>4. r # Fallo /\ f.mime = "pdf" => PaginasLeidas(f, r)
      BY <2>2, <2>3 DEF PaginasLeidas
    <2> QED
      BY <2>3, <2>4, RompePorGrupo DEF r
  <1>4. CASE ~ (f.ext = "pdf" /\ Cardinality(u) > UmbralDigital) /\ ~ Legible(f)
    <2>1. r = Fallo
      BY <1>4 DEF Extraer
    <2>2. /\ f.mime = "pdf" /\ \E i \in DOMAIN f.hojas : ~ f.hojas[i].dibujable
      BY <1>4, GuardadoAbre DEF Legible
    <2>3. ~ (Cardinality(u) > UmbralDigital)
      BY <1>1, <1>4, <2>2
    <2> QED
      BY <2>1, <2>2, <2>3 DEF SinDibujo
  <1> QED
    BY <1>2, <1>3, <1>4

\* As long as gate 1 reads as many pages as the upload accepts: every page of a stored
\* PDF is read, a stored file fails only by a rule's group or by a page that is not drawn
\* where OCR is needed, and a probe of the same rules on a stored file answers the same.
THEOREM LecturaSegura == MaxPaginas <= PaginasDigitales => (Spec => []AceptadoEsLegible)
  <1> SUFFICES ASSUME MaxPaginas <= PaginasDigitales
               PROVE  Spec => []AceptadoEsLegible
    OBVIOUS
  <1>1. IInv => AceptadoEsLegible
    <2> SUFFICES ASSUME IInv, EnFase("completado") \/ EnFase("error")
                 PROVE  AceptadoEsLegible
      BY DEF AceptadoEsLegible
    <2> DEFINE f == documento.archivo
               g == documento.reglas
    <2>1. /\ f \in Archivos /\ Guardable(f) /\ documento.resultado = Extraer(f, g)
          /\ EnFase("error") <=> documento.resultado = Fallo
      BY DEF IInv, TipoDeDocumento, Leido, EnFase
    <2>2. EnFase("completado") <=> ~ EnFase("error")
      BY DEF EnFase
    <2>3. EnFase("completado") /\ f.mime = "pdf" => PaginasLeidas(f, documento.resultado)
      BY <2>1, <2>2, ExtraidoDe
    <2>4. EnFase("error") => \/ \E i \in DOMAIN g : GrupoInseguro(g[i])
                             \/ SinDibujo(f)
      BY <2>1, ExtraidoDe
    <2>5. Probar(f, g) = documento.resultado
      BY <2>1, GuardadoAbre DEF Probar
    <2> QED
      BY <2>3, <2>4, <2>5 DEF AceptadoEsLegible
  <1> QED
    BY <1>1, Invariante, PTL

-----------------------------------------------------------------------------
(* The versions of a code, as the rows (filas) and the open requests to     *)
(* create (pets) give them.  autor[r] is the request that created row r.    *)

MismoCodigo(u, v) == u.codigo = v.codigo

\* Lists of rules are those that the endpoint accepts, and below every version, of a
\* row or still to be written, there is a row of the one before.
Seguidas(filas, pets) ==
    /\ \A r \in Filas : filas[r] # Ninguno => PlantillaValida(filas[r].campos)
    /\ \A k \in Altas : pets[k] # Ninguno => PlantillaValida(pets[k].campos)
    /\ \A r \in Filas : filas[r] # Ninguno /\ filas[r].version > 1 =>
            \E s \in Filas : /\ filas[s] # Ninguno /\ MismoCodigo(filas[s], filas[r])
                             /\ filas[s].version = filas[r].version - 1
    /\ \A k \in Altas : pets[k] # Ninguno /\ pets[k].version > 1 =>
            \E s \in Filas : /\ filas[s] # Ninguno /\ MismoCodigo(filas[s], pets[k])
                             /\ filas[s].version = pets[k].version - 1

\* A request creates no two rows of one version: the next it reads is above what it wrote.
Autores(autor, filas, pets) ==
    /\ \A r \in Filas : filas[r] # Ninguno => autor[r] \in Altas
    /\ \A r, s \in Filas :
            /\ filas[r] # Ninguno /\ filas[s] # Ninguno /\ MismoCodigo(filas[r], filas[s])
            /\ filas[r].version = filas[s].version /\ autor[r] = autor[s]
            => r = s
    /\ \A r \in Filas, k \in Altas :
            /\ filas[r] # Ninguno /\ pets[k] # Ninguno /\ MismoCodigo(filas[r], pets[k])
            /\ autor[r] = k
            => filas[r].version < pets[k].version

ReglasDelDocumento ==
    documento # Ninguno /\ documento.fase # "pendiente" =>
        documento.reglas = <<>> \/ PlantillaValida(documento.reglas)

Numeradas(filas, pets) ==
    /\ Seguidas(filas, pets)
    /\ \E autor \in [Filas -> Altas \union {Ninguno}] : Autores(autor, filas, pets)

InvVersiones == IInv /\ Numeradas(esquema, alta) /\ ReglasDelDocumento

LEMMA SinCambioDeVersion ==
    ASSUME Numeradas(esquema, alta), UNCHANGED alta,
           \A r \in Filas : /\ esquema'[r] # Ninguno <=> esquema[r] # Ninguno
                            /\ esquema[r] # Ninguno => MismaVersion(r)
    PROVE  Numeradas(esquema, alta)'
  <1>1. Seguidas(esquema, alta)'
    BY DEF Numeradas, Seguidas, MismaVersion, MismoCodigo
  <1>2. PICK autor \in [Filas -> Altas \union {Ninguno}] : Autores(autor, esquema, alta)
    BY DEF Numeradas
  <1>3. Autores(autor, esquema', alta')
    BY <1>2 DEF Autores, MismaVersion, MismoCodigo
  <1> QED
    BY <1>1, <1>3 DEF Numeradas

LEMMA VersionLeida ==
    ASSUME IInv, Numeradas(esquema, alta),
           NEW k \in Altas, NEW c \in Codigos, NEW g \in Plantillas, LeerVersion(k, c, g)
    PROVE  Numeradas(esquema, alta)'
  <1>1. PICK v \in 0 .. Cardinality(Filas) :
            /\ EsMaxima(c, v)
            /\ alta' = [alta EXCEPT ![k] = [codigo |-> c, version |-> v + 1, campos |-> g]]
    BY DEF LeerVersion
  <1> DEFINE n == [codigo |-> c, version |-> v + 1, campos |-> g]
  <1>2. n.codigo = c /\ n.version = v + 1 /\ n.campos = g /\ v \in Nat
    OBVIOUS
  <1>3. \A j \in Altas : alta'[j] = IF j = k THEN n ELSE alta[j]
    BY <1>1 DEF IInv, TiposDeFilas
  <1> HIDE DEF n
  <1>4. PlantillaValida(g) /\ UNCHANGED esquema
    BY DEF LeerVersion
  <1>5. \A r \in Filas : esquema[r] # Ninguno => esquema[r].version \in Nat
    BY DEF IInv, TiposDeFilas, Fila
  <1>6. \A r \in Filas : esquema[r] # Ninguno /\ esquema[r].codigo = c => esquema[r].version <= v
    BY <1>1 DEF EsMaxima, Existentes
  <1>7. v > 0 => \E s \in Filas :
            esquema[s] # Ninguno /\ esquema[s].codigo = c /\ esquema[s].version = v
    BY <1>1, <1>2 DEF EsMaxima, Existentes
  <1>8. Seguidas(esquema, alta)'
    <2>1. Seguidas(esquema, alta)
      BY DEF Numeradas
    <2>2. n.version > 1 => \E s \in Filas : /\ esquema[s] # Ninguno /\ MismoCodigo(esquema[s], n)
                                            /\ esquema[s].version = n.version - 1
      BY <1>2, <1>7 DEF MismoCodigo
    <2> QED
      BY <1>2, <1>3, <1>4, <2>1, <2>2 DEF Seguidas
  <1>9. PICK autor \in [Filas -> Altas \union {Ninguno}] : Autores(autor, esquema, alta)
    BY DEF Numeradas
  <1>10. \A r \in Filas : esquema[r] # Ninguno /\ MismoCodigo(esquema[r], n) =>
            esquema[r].version < n.version
    BY <1>2, <1>5, <1>6 DEF MismoCodigo
  <1>11. Autores(autor, esquema', alta')
    BY <1>3, <1>4, <1>9, <1>10 DEF Autores
  <1> QED
    BY <1>8, <1>11 DEF Numeradas

LEMMA VersionEscrita ==
    ASSUME IInv, Numeradas(esquema, alta), NEW k \in Altas, ConfirmarAlta(k)
    PROVE  Numeradas(esquema, alta)'
  <1> DEFINE n == CHOOSE r \in Libres : TRUE
             p == alta[k]
             fila == [codigo |-> p.codigo, version |-> p.version,
                      activo |-> FALSE, campos |-> p.campos]
  <1>1. n \in Filas /\ esquema[n] = Ninguno
    BY DEF ConfirmarAlta, Libres
  <1>2. p \in Alta /\ fila \in Fila /\ fila # Ninguno /\ p # Ninguno
    <2>1. p \in Alta /\ p # Ninguno
      BY DEF ConfirmarAlta, IInv, TiposDeFilas
    <2>2. fila \in Fila
      BY <2>1 DEF Alta, Fila
    <2> QED
      BY <2>1, <2>2, EsquemasAssumption
  <1>3. fila.codigo = p.codigo /\ fila.version = p.version /\ fila.campos = p.campos
    OBVIOUS
  <1>4. esquema' = [esquema EXCEPT ![n] = fila] /\ alta' = [alta EXCEPT ![k] = Ninguno]
    BY DEF ConfirmarAlta
  <1> HIDE DEF n, fila
  <1>5. /\ \A r \in Filas : esquema'[r] = IF r = n THEN fila ELSE esquema[r]
        /\ \A j \in Altas : alta'[j] = IF j = k THEN Ninguno ELSE alta[j]
    BY <1>1, <1>4 DEF IInv, TiposDeFilas
  <1>6. Seguidas(esquema, alta)'
    <2>1. Seguidas(esquema, alta)
      BY DEF Numeradas
    <2>2. \A s \in Filas : esquema[s] # Ninguno => s # n /\ esquema'[s] = esquema[s]
      BY <1>1, <1>5
    <2>3. /\ PlantillaValida(fila.campos)
          /\ fila.version > 1 =>
                \E s \in Filas : /\ esquema[s] # Ninguno /\ MismoCodigo(esquema[s], fila)
                                 /\ esquema[s].version = fila.version - 1
      BY <1>2, <1>3, <2>1 DEF Seguidas, MismoCodigo
    <2> QED
      BY <1>1, <1>5, <2>1, <2>2, <2>3 DEF Seguidas
  <1>7. PICK autor \in [Filas -> Altas \union {Ninguno}] : Autores(autor, esquema, alta)
    BY DEF Numeradas
  <1> DEFINE nuevo == [autor EXCEPT ![n] = k]
  <1>8. /\ nuevo \in [Filas -> Altas \union {Ninguno}]
        /\ \A r \in Filas : nuevo[r] = IF r = n THEN k ELSE autor[r]
    BY <1>1
  <1> HIDE DEF nuevo
  <1>9. ASSUME NEW r \in Filas, esquema[r] # Ninguno, MismoCodigo(esquema[r], fila), autor[r] = k
        PROVE  esquema[r].version # fila.version
    <2>1. esquema[r].version < p.version
      BY <1>2, <1>3, <1>7, <1>9 DEF Autores, MismoCodigo
    <2>2. esquema[r].version \in Nat /\ p.version \in Nat
      BY <1>2, <1>9 DEF IInv, TiposDeFilas, Fila, Alta
    <2> QED
      BY <1>3, <2>1, <2>2
  <1>10. Autores(nuevo, esquema', alta')
    <2>1. \A r \in Filas : esquema'[r] # Ninguno => nuevo[r] \in Altas
      BY <1>5, <1>7, <1>8 DEF Autores
    <2>2. ASSUME NEW r \in Filas, NEW s \in Filas, esquema'[r] # Ninguno, esquema'[s] # Ninguno,
                 MismoCodigo(esquema'[r], esquema'[s]),
                 esquema'[r].version = esquema'[s].version, nuevo[r] = nuevo[s]
          PROVE  r = s
      <3>1. CASE r = n /\ s # n
        BY <1>5, <1>8, <1>9, <2>2, <3>1 DEF MismoCodigo
      <3>2. CASE r # n /\ s = n
        BY <1>5, <1>8, <1>9, <2>2, <3>2 DEF MismoCodigo
      <3>3. CASE r # n /\ s # n
        BY <1>5, <1>7, <1>8, <2>2, <3>3 DEF Autores
      <3> QED
        BY <3>1, <3>2, <3>3
    <2>3. ASSUME NEW r \in Filas, NEW j \in Altas, esquema'[r] # Ninguno, alta'[j] # Ninguno,
                 MismoCodigo(esquema'[r], alta'[j]), nuevo[r] = j
          PROVE  esquema'[r].version < alta'[j].version
      <3>1. j # k /\ alta'[j] = alta[j] /\ r # n
        BY <1>5, <1>8, <2>3
      <3> QED
        BY <1>5, <1>7, <1>8, <2>3, <3>1 DEF Autores
    <2> QED
      BY <2>1, <2>2, <2>3 DEF Autores
  <1> QED
    BY <1>6, <1>8, <1>10 DEF Numeradas

LEMMA PasoVersiones == InvVersiones /\ [Next]_vars => InvVersiones'
  <1> SUFFICES ASSUME InvVersiones, [Next]_vars PROVE InvVersiones'
    OBVIOUS
  <1>0. IInv /\ IInv' /\ Numeradas(esquema, alta) /\ ReglasDelDocumento
    BY Paso DEF InvVersiones
  <1>1. ASSUME UNCHANGED <<esquema, alta>>
        PROVE  Numeradas(esquema, alta)'
    BY <1>0, <1>1
  <1>2. ASSUME UNCHANGED documento
        PROVE  ReglasDelDocumento'
    BY <1>0, <1>2 DEF ReglasDelDocumento
  <1>3. CASE UNCHANGED vars
    BY <1>0, <1>1, <1>2, <1>3 DEF vars, InvVersiones
  <1>4. ASSUME NEW k \in Altas, NEW c \in Codigos, NEW g \in Plantillas, LeerVersion(k, c, g)
        PROVE  InvVersiones'
    <2>1. UNCHANGED documento
      BY <1>4 DEF LeerVersion
    <2> QED
      BY <1>0, <1>2, <1>4, <2>1, VersionLeida DEF InvVersiones
  <1>5. ASSUME NEW k \in Altas, ConfirmarAlta(k)
        PROVE  InvVersiones'
    <2>1. UNCHANGED documento
      BY <1>5 DEF ConfirmarAlta
    <2> QED
      BY <1>0, <1>2, <1>5, <2>1, VersionEscrita DEF InvVersiones
  <1>6. ASSUME NEW a \in Activaciones, NEW r \in Filas, LeerEsquema(a, r) \/ Desactivar(a, r)
        PROVE  InvVersiones'
    BY <1>0, <1>1, <1>2, <1>6 DEF LeerEsquema, Desactivar, InvVersiones
  <1>7. ASSUME NEW a \in Activaciones, EmpezarDesactivacion(a) \/ Abortar(a)
        PROVE  InvVersiones'
    BY <1>0, <1>1, <1>2, <1>7 DEF EmpezarDesactivacion, Abortar, InvVersiones
  <1>8. ASSUME NEW a \in Activaciones, ConfirmarActivacion(a)
        PROVE  InvVersiones'
    <2>1. UNCHANGED <<alta, documento>>
      BY <1>8 DEF ConfirmarActivacion
    <2>2. Numeradas(esquema, alta)'
      BY <1>0, <1>8, <2>1, LoConfirmado, SinCambioDeVersion
    <2> QED
      BY <1>0, <1>2, <2>1, <2>2 DEF InvVersiones
  <1>9. ASSUME NEW f \in Archivos, Guardar(f)
        PROVE  InvVersiones'
    BY <1>0, <1>1, <1>9 DEF Guardar, ReglasDelDocumento, InvVersiones
  <1>10. CASE Procesar
    <2>1. UNCHANGED <<esquema, alta>>
      BY <1>10 DEF Procesar
    <2>2. documento'.reglas = <<>> \/ \E r \in Filas : /\ esquema[r] # Ninguno
                                                      /\ documento'.reglas = esquema[r].campos
      <3> DEFINE listas == IF \E c \in Codigos : Activas(c) # {}
                           THEN {esquema[r].campos : r \in UNION {Activas(c) : c \in Codigos}}
                           ELSE {<<>>}
      <3>1. documento'.reglas \in listas
        BY <1>10 DEF Procesar
      <3> QED
        BY <3>1 DEF Activas, Existentes
    <2>3. ReglasDelDocumento'
      BY <1>0, <2>2 DEF ReglasDelDocumento, Numeradas, Seguidas
    <2> QED
      BY <1>0, <1>1, <2>1, <2>3 DEF InvVersiones
  <1> QED
    BY <1>3, <1>4, <1>5, <1>6, <1>7, <1>8, <1>9, <1>10 DEF Next

LEMMA InvarianteDeVersiones == Spec => []InvVersiones
  <1>1. Init => InvVersiones
    <2> SUFFICES ASSUME Init PROVE InvVersiones
      OBVIOUS
    <2> DEFINE nadie == [r \in Filas |-> Ninguno]
    <2>1. nadie \in [Filas -> Altas \union {Ninguno}] /\ Autores(nadie, esquema, alta)
      BY DEF Init, Autores
    <2>2. Seguidas(esquema, alta) /\ ReglasDelDocumento
      BY DEF Init, Seguidas, ReglasDelDocumento
    <2> QED
      BY <2>1, <2>2, Inicio DEF InvVersiones, Numeradas
  <1> QED
    BY <1>1, PasoVersiones, PTL DEF Spec

\* The versions of a code have no gaps, and no more rows share a number than requests
\* to create can be open at a time.
THEOREM VersionesSeguras == Spec => []VersionesSeguidas
  <1>1. InvVersiones => VersionesSeguidas
    <2> SUFFICES ASSUME InvVersiones, NEW c \in Codigos, NEW r \in Filas, r \in Existentes(c)
                 PROVE  /\ esquema[r].version > 1 =>
                            \E s \in Existentes(c) : esquema[s].version = esquema[r].version - 1
                        /\ Cardinality({s \in Existentes(c) :
                                esquema[s].version = esquema[r].version}) <= Cardinality(Altas)
      BY DEF VersionesSeguidas
    <2> DEFINE iguales == {s \in Existentes(c) : esquema[s].version = esquema[r].version}
    <2>1. esquema[r].version > 1 =>
            \E s \in Existentes(c) : esquema[s].version = esquema[r].version - 1
      BY DEF InvVersiones, Numeradas, Seguidas, Existentes, MismoCodigo
    <2>2. PICK autor \in [Filas -> Altas \union {Ninguno}] : Autores(autor, esquema, alta)
      BY DEF InvVersiones, Numeradas
    <2> DEFINE f == [s \in iguales |-> autor[s]]
    <2>3. f \in Injection(iguales, Altas)
      <3>1. \A s \in iguales : autor[s] \in Altas
        BY <2>2 DEF Autores, Existentes
      <3>2. \A s, u \in iguales : autor[s] = autor[u] => s = u
        BY <2>2 DEF Autores, Existentes, MismoCodigo
      <3> QED
        BY <3>1, <3>2 DEF Injection, IsInjective
    <2>4. Cardinality(iguales) <= Cardinality(Altas)
      <3> HIDE DEF f, iguales
      <3> QED
        BY <2>3, FS_Injection, EsquemasAssumption
    <2> QED
      BY <2>1, <2>4
  <1> QED
    BY <1>1, InvarianteDeVersiones, PTL

\* Two sets that a one-to-one function relates have as many elements.
LEMMA TantosComo ==
    ASSUME NEW S, NEW T, IsFiniteSet(S), NEW f \in [S -> T],
           \A x, y \in S : f[x] = f[y] => x = y, \A z \in T : \E x \in S : f[x] = z
    PROVE  Cardinality(T) = Cardinality(S)
  <1>1. f \in Injection(S, T) /\ f \in Surjection(S, T)
    BY DEF Injection, IsInjective, Surjection
  <1>2. f \in Bijection(S, T)
    BY <1>1 DEF Bijection
  <1> QED
    BY <1>2, FS_Bijection DEF ExistsBijection

\* Of rules with a name each, as many fields have a value as rules match.
LEMMA ConfianzaDe ==
    ASSUME NEW texto, NEW g \in Plantillas, PlantillaValida(g)
    PROVE  LET a == AplicarEsquema(texto, g)
           IN /\ DOMAIN a.campos # {}
              /\ a.confianza = RedondeoPar(
                    10000 * Cardinality({n \in DOMAIN a.campos : a.campos[n] # Nulo}),
                    Cardinality(DOMAIN a.campos))
  <1> DEFINE nombres == {g[i].nombre : i \in DOMAIN g}
             ultima(n) == CHOOSE i \in DOMAIN g :
                g[i].nombre = n /\ \A j \in DOMAIN g : g[j].nombre = n => j <= i
             aciertos == {i \in DOMAIN g : Acierta(g[i], texto)}
             campos == [n \in nombres |->
                LET r == g[ultima(n)] IN IF Acierta(r, texto) THEN Valor(r) ELSE Nulo]
             leidos == {n \in nombres : campos[n] # Nulo}
  <1>1. Len(g) \in Nat \ {0} /\ DOMAIN g = 1 .. Len(g)
    BY EsquemasAssumption, ExtraccionAssumption DEF PlantillaValida
  <1>2. \A i \in DOMAIN g : Nulo # g[i].marca /\ Nulo # g[i].captura
    BY EsquemasAssumption
  <1>3. \A i, j \in DOMAIN g : g[i].nombre = g[j].nombre => i = j
    BY DEF PlantillaValida
  <1>4. ASSUME NEW i \in DOMAIN g
        PROVE  ultima(g[i].nombre) = i
    <2>1. i <= i
      BY <1>1
    <2>2. \A j \in DOMAIN g : g[j].nombre = g[i].nombre => j = i
      BY <1>3
    <2> QED
      BY <2>1, <2>2
  <1>5. \A i \in DOMAIN g : campos[g[i].nombre] # Nulo <=> Acierta(g[i], texto)
    BY <1>2, <1>4 DEF Valor
  <1>6. IsFiniteSet(DOMAIN g) /\ Cardinality(DOMAIN g) = Len(g)
    BY <1>1, FS_Interval
  <1>7. Cardinality(nombres) = Len(g)
    <2> DEFINE f == [i \in DOMAIN g |-> g[i].nombre]
    <2>1. /\ f \in [DOMAIN g -> nombres] /\ \A x, y \in DOMAIN g : f[x] = f[y] => x = y
          /\ \A z \in nombres : \E x \in DOMAIN g : f[x] = z
      BY <1>3
    <2> HIDE DEF f, nombres
    <2> QED
      BY <1>6, <2>1, TantosComo
  <1>8. Cardinality(leidos) = Cardinality(aciertos)
    <2> DEFINE f == [i \in aciertos |-> g[i].nombre]
    <2>1. IsFiniteSet(aciertos)
      BY <1>6, FS_Subset
    <2>2. \A i \in aciertos : g[i].nombre \in leidos
      BY <1>5
    <2>3. ASSUME NEW n \in leidos
          PROVE  \E i \in aciertos : g[i].nombre = n
      <3>1. PICK i \in DOMAIN g : n = g[i].nombre
        OBVIOUS
      <3>2. campos[n] # Nulo
        OBVIOUS
      <3> HIDE DEF campos
      <3> QED
        BY <1>5, <3>1, <3>2
    <2>4. \A x, y \in aciertos : g[x].nombre = g[y].nombre => x = y
      BY <1>3
    <2> HIDE DEF leidos, aciertos
    <2>5. /\ f \in [aciertos -> leidos] /\ \A x, y \in aciertos : f[x] = f[y] => x = y
          /\ \A z \in leidos : \E x \in aciertos : f[x] = z
      BY <2>2, <2>3, <2>4
    <2> HIDE DEF f
    <2> QED
      BY <2>1, <2>5, TantosComo
  <1>9. g # <<>> /\ nombres # {}
    BY <1>1
  <1> DEFINE a == AplicarEsquema(texto, g)
  <1>10. a.campos = campos /\ a.confianza = RedondeoPar(10000 * Cardinality(aciertos), Len(g))
    BY <1>9 DEF AplicarEsquema
  <1>11. DOMAIN campos = nombres
    OBVIOUS
  <1> HIDE DEF a, campos, aciertos
  <1> QED
    BY <1>7, <1>8, <1>9, <1>10, <1>11 DEF a

\* The confidence stored is the share of the fields that have a value.
THEOREM ConfianzaSegura == Spec => []ConfianzaCoherente
  <1>1. InvVersiones => ConfianzaCoherente
    <2> SUFFICES ASSUME InvVersiones, EnFase("completado")
                 PROVE  ConfianzaCoherente
      BY DEF ConfianzaCoherente
    <2> DEFINE g == documento.reglas
               x == documento.resultado
    <2>1. x = Extraer(documento.archivo, g) /\ x # Fallo
      BY DEF InvVersiones, IInv, Leido, EnFase
    <2>2. PICK texto : x.campos = AplicarEsquema(texto, g).campos
                       /\ x.confianza = AplicarEsquema(texto, g).confianza
      <3> DEFINE u == Compuerta1(documento.archivo)
                 d == Compuerta2(documento.archivo)
      <3>1. x = Informe("pdfplumber", u, g) \/ x = Informe("tesseract_200dpi", d, g)
        BY <2>1 DEF Extraer
      <3> HIDE DEF u, d, x, g
      <3> QED
        BY <2>1, <3>1 DEF Informe
    <2>3. g = <<>> \/ (g \in Plantillas /\ PlantillaValida(g))
      BY EsquemasAssumption
         DEF InvVersiones, ReglasDelDocumento, IInv, TipoDeDocumento, EnFase, PlantillaValida
    <2> HIDE DEF g, x
    <2>4. CASE g = <<>>
      <3>1. AplicarEsquema(texto, <<>>).confianza = 0
            /\ DOMAIN AplicarEsquema(texto, <<>>).campos = {}
        BY DEF AplicarEsquema
      <3> QED
        BY <2>2, <2>4, <3>1 DEF ConfianzaCoherente, x
    <2>5. CASE g \in Plantillas /\ PlantillaValida(g)
      BY <2>2, <2>5, ConfianzaDe DEF ConfianzaCoherente, x
    <2> QED
      BY <2>3, <2>4, <2>5
  <1> QED
    BY <1>1, InvarianteDeVersiones, PTL
-----------------------------------------------------------------------------
(* A version never changes.                                                 *)

Firme(r) == esquema[r] # Ninguno => esquema'[r] # Ninguno /\ MismaVersion(r)

\* Whatever requests are open, a committed version keeps its code, its number and its
\* rules, and is not deleted: an activation writes nothing but what is active.  So the
\* rules an extraction began with are still those of their version when it ends.
THEOREM ReglasFijas == Spec => [][\A r \in Filas : Firme(r)]_vars
  <1>1. ASSUME esquema' = esquema
        PROVE  \A r \in Filas : Firme(r)
    BY <1>1 DEF Firme, MismaVersion
  <1>2. ASSUME IInv, NEW k \in Altas, ConfirmarAlta(k)
        PROVE  \A r \in Filas : Firme(r)
    <2> DEFINE n == CHOOSE r \in Libres : TRUE
    <2>1. n \in Libres
      BY <1>2 DEF ConfirmarAlta
    <2>2. n \in Filas /\ esquema[n] = Ninguno
      BY <2>1 DEF Libres
    <2>3. \A r \in Filas \ {n} : esquema'[r] = esquema[r]
      BY <1>2 DEF ConfirmarAlta, IInv, TiposDeFilas
    <2> HIDE DEF n
    <2> QED
      BY <2>2, <2>3 DEF Firme, MismaVersion
  <1>3. ASSUME IInv, NEW a \in Activaciones, ConfirmarActivacion(a)
        PROVE  \A r \in Filas : Firme(r)
    BY <1>3, LoConfirmado DEF Firme
  <1>4. IInv /\ [Next]_vars => [\A r \in Filas : Firme(r)]_vars
    <2> SUFFICES ASSUME IInv, Next
                 PROVE  \A r \in Filas : Firme(r)
      OBVIOUS
    <2>1. \/ esquema' = esquema
          \/ \E k \in Altas : ConfirmarAlta(k)
          \/ \E a \in Activaciones : ConfirmarActivacion(a)
      BY DEF Next, LeerVersion, LeerEsquema, Desactivar, EmpezarDesactivacion, Abortar,
             Guardar, Procesar
    <2> QED
      BY <1>1, <1>2, <1>3, <2>1
  <1> QED
    BY <1>4, Invariante, PTL DEF Spec
=============================================================================

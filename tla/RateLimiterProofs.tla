------------------------- MODULE RateLimiterProofs -------------------------
(***************************************************************************)
(* What RateLimiter keeps for any limits, windows and traffic: its types,  *)
(* who may end a lock, how long one can last, and how far a limit can be   *)
(* passed. The inductive invariant relates the age of a request to the     *)
(* lock of its account: one that is open under a lock was let in no later  *)
(* than the lock was set; and each limit to the requests that have passed  *)
(* it and are still asleep.                                                *)
(***************************************************************************)
EXTENDS RateLimiter, FiniteSetTheorems, TLAPS

LEMMA EdadMaximaCubre ==
    /\ EdadMaxima \in Nat
    /\ DuracionBloqueo \in Nat \ {0} /\ DuracionBloqueo <= EdadMaxima
  <1>1. \E n \in Duraciones : \A m \in Duraciones : m <= n
    BY LimitesAssumption
  <1>2. EdadMaxima \in Duraciones /\ \A m \in Duraciones : m <= EdadMaxima
    BY <1>1 DEF EdadMaxima
  <1>3. Duraciones \subseteq Nat /\ DuracionBloqueo \in Duraciones
    BY LimitesAssumption DEF Duraciones
  <1> QED
    BY <1>2, <1>3, LimitesAssumption

LEMMA EdadesCrecen ==
    ASSUME NEW e \in Edades
    PROVE  /\ Crecer(e) \in Edades /\ 0 \in Edades
           /\ Crecer(e) = e + 1 \/ (Crecer(e) = e /\ e >= DuracionBloqueo)
  BY EdadMaximaCubre DEF Edades, Crecer

Historias == [Claves -> [Edades -> Nat]]

\* A note keeps the histories histories, under whatever key.
LEMMA AnotarTipo ==
    ASSUME NEW h \in Historias, NEW k, NEW e
    PROVE  Anotar(h, k, e) \in Historias
  <1>1. k \in Claves => h[k] \in [Edades -> Nat]
    BY DEF Historias
  <1>2. k \in Claves => [d \in Edades |-> IF e <= d /\ d < Ventana[k[1]] /\ h[k][d] < Tope(k[1])
                                          THEN h[k][d] + 1 ELSE h[k][d]] \in [Edades -> Nat]
    BY <1>1
  <1> QED
    BY <1>2 DEF Anotar, Historias

LEMMA RegistrarTipo ==
    ASSUME NEW h \in Historias, NEW f, NEW i, NEW u, NEW e
    PROVE  RecordIp(h, f, i, e) \in Historias /\ Registrar(h, f, i, u, e) \in Historias
  BY AnotarTipo DEF Registrar, RecordIp, RecordIdentity

\* A request open under a lock was let in before it was set.
Anterior ==
    \A p \in Peticiones : Abierta(p) /\ bloqueo[peticion[p].id] > 0 =>
        peticion[p].edad + bloqueo[peticion[p].id] >= DuracionBloqueo

Bloqueos == TypeOK /\ Anterior

LEMMA LibreNoAbierta == Libre \notin Abiertas
  BY DEF Libre, Abiertas, Fases

\* What an open request is.
LEMMA TipoAbierta ==
    ASSUME TypeOK, NEW p \in Peticiones, Abierta(p)
    PROVE  /\ peticion[p] \in Abiertas
           /\ peticion[p].id \in Identidades /\ peticion[p].edad \in Edades
           /\ peticion[p].edad \in Nat
           /\ bloqueo[peticion[p].id] \in 0 .. DuracionBloqueo
  <1>1. peticion[p] \in Abiertas
    BY DEF TypeOK, Abierta
  <1>2. peticion[p].id \in Identidades /\ peticion[p].edad \in Edades
    BY <1>1 DEF Abiertas
  <1> QED
    BY <1>1, <1>2, EdadMaximaCubre DEF TypeOK, Edades

-----------------------------------------------------------------------------
(* One lemma per action.                                                    *)

LEMMA PasoConsultar ==
    ASSUME Bloqueos, NEW p \in Peticiones, NEW f \in Flujos, NEW i \in Ips, NEW u \in Identidades,
           ConsultarTodo(p, f, i, u)
    PROVE  Bloqueos'
  <1> DEFINE h == Anotar(historia, Rafaga(i), 0)
             fase == IF Duerme(h, i) THEN "dormida" ELSE "verificando"
             q == [fase |-> fase, flujo |-> f, ip |-> i, id |-> u, edad |-> 0]
  <1>1. historia' \in Historias
    <2>1. h \in Historias
      BY AnotarTipo DEF Bloqueos, TypeOK, Historias
    <2> QED
      BY <2>1, RegistrarTipo DEF ConsultarTodo
  <1>2. q \in Abiertas /\ q.id = u
    BY EdadesCrecen, EdadMaximaCubre DEF Abiertas, Fases, Edades
  <1>3. peticion' = [peticion EXCEPT ![p] = q] /\ bloqueo' = bloqueo /\ bloqueo[u] = 0
    <2>1. ~ (bloqueo[u] > 0) /\ bloqueo[u] \in Nat
      BY EdadMaximaCubre DEF ConsultarTodo, Admite, IsAccountLocked, Bloqueos, TypeOK
    <2> QED
      BY <2>1 DEF ConsultarTodo
  <1> HIDE DEF q
  <1>4. TypeOK'
    BY <1>1, <1>2, <1>3 DEF Bloqueos, TypeOK, Historias
  <1>5. Anterior'
    BY <1>2, <1>3 DEF Bloqueos, TypeOK, Anterior, Abierta
  <1> QED
    BY <1>4, <1>5 DEF Bloqueos

LEMMA PasoDespertar ==
    ASSUME Bloqueos, NEW p \in Peticiones, Despertar(p)
    PROVE  Bloqueos'
  <1>1. historia' \in Historias
    BY RegistrarTipo DEF Despertar, Bloqueos, TypeOK, Historias
  <1>2. peticion[p] \in Abiertas
    BY TipoAbierta DEF Despertar, Bloqueos
  <1> DEFINE q == [peticion[p] EXCEPT !.fase = "verificando"]
  <1>3. q \in Abiertas /\ q.id = peticion[p].id /\ q.edad = peticion[p].edad
    BY <1>2 DEF Abiertas, Fases
  <1>4. peticion' = [peticion EXCEPT ![p] = q] /\ bloqueo' = bloqueo /\ Abierta(p)
    BY DEF Despertar
  <1> HIDE DEF q
  <1>5. TypeOK'
    BY <1>1, <1>3, <1>4 DEF Bloqueos, TypeOK, Historias
  <1>6. Anterior'
    BY <1>3, <1>4 DEF Bloqueos, TypeOK, Anterior, Abierta
  <1> QED
    BY <1>5, <1>6 DEF Bloqueos

\* A request that closes leaves the others as they were, and a lock set now is as long
\* as a lock can be.
LEMMA Cierra ==
    ASSUME Bloqueos, NEW p \in Peticiones, peticion' = [peticion EXCEPT ![p] = Libre],
           historia' \in Historias, NEW u \in Identidades,
           \E n \in {0, bloqueo[u], DuracionBloqueo} : bloqueo' = [bloqueo EXCEPT ![u] = n]
    PROVE  Bloqueos'
  <1>1. bloqueo' \in [Identidades -> 0 .. DuracionBloqueo]
    BY EdadMaximaCubre DEF Bloqueos, TypeOK
  <1>2. TypeOK'
    BY <1>1 DEF Bloqueos, TypeOK, Historias
  <1>3. Anterior'
    <2> SUFFICES ASSUME NEW r \in Peticiones, peticion'[r] # Libre,
                        bloqueo'[peticion'[r].id] > 0
                 PROVE  peticion'[r].edad + bloqueo'[peticion'[r].id] >= DuracionBloqueo
      BY DEF Anterior, Abierta
    <2>1. r # p /\ peticion'[r] = peticion[r] /\ Abierta(r)
      BY DEF Bloqueos, TypeOK, Abierta
    <2>2. peticion[r].id \in Identidades /\ peticion[r].edad \in Nat
      BY <2>1, TipoAbierta DEF Bloqueos
    <2>3. bloqueo'[peticion[r].id] \in {bloqueo[peticion[r].id], DuracionBloqueo}
      BY <2>1, <2>2 DEF Bloqueos, TypeOK
    <2>4. CASE bloqueo'[peticion[r].id] = bloqueo[peticion[r].id]
      BY <2>1, <2>4 DEF Bloqueos, Anterior
    <2>5. CASE bloqueo'[peticion[r].id] = DuracionBloqueo
      BY <2>1, <2>2, <2>5, EdadMaximaCubre
    <2> QED
      BY <2>3, <2>4, <2>5
  <1> QED
    BY <1>2, <1>3 DEF Bloqueos

LEMMA PasoFallar ==
    ASSUME Bloqueos, NEW p \in Peticiones, Fallar(p)
    PROVE  Bloqueos'
  <1>1. peticion[p].id \in Identidades
    BY TipoAbierta DEF Fallar, Verificada, Bloqueos
  <1>2. historia' \in Historias
    BY AnotarTipo DEF Fallar, Bloqueos, TypeOK, Historias
  <1> QED
    BY <1>1, <1>2, Cierra DEF Fallar

LEMMA PasoAcertar ==
    ASSUME Bloqueos, NEW p \in Peticiones, Acertar(p)
    PROVE  Bloqueos'
  <1>1. peticion[p].id \in Identidades
    BY TipoAbierta DEF Acertar, Verificada, Bloqueos
  <1>2. historia' \in Historias
    BY DEF Acertar, Bloqueos, TypeOK, Historias, Vacia
  <1> QED
    BY <1>1, <1>2, Cierra DEF Acertar

LEMMA PasoAbandonar ==
    ASSUME Bloqueos, NEW p \in Peticiones, Abandonar(p)
    PROVE  Bloqueos'
  <1>1. peticion[p].id \in Identidades
    BY TipoAbierta DEF Abandonar, Verificada, Bloqueos
  <1>2. historia' \in Historias
    BY DEF Abandonar, Bloqueos, TypeOK, Historias
  <1>3. bloqueo' = [bloqueo EXCEPT ![peticion[p].id] = bloqueo[peticion[p].id]]
    BY DEF Abandonar, Bloqueos, TypeOK
  <1> QED
    BY <1>1, <1>2, <1>3, Cierra DEF Abandonar

\* The steps that touch no request and set no lock.
LEMMA SinCerrar ==
    ASSUME Bloqueos, historia' \in Historias, UNCHANGED peticion,
           \/ UNCHANGED bloqueo
           \/ \E u \in Identidades : bloqueo' = [bloqueo EXCEPT ![u] = 0]
    PROVE  Bloqueos'
  <1>1. /\ bloqueo' \in [Identidades -> 0 .. DuracionBloqueo]
        /\ \A u \in Identidades : bloqueo'[u] \in {0, bloqueo[u]}
    BY EdadMaximaCubre DEF Bloqueos, TypeOK
  <1>2. TypeOK'
    BY <1>1 DEF Bloqueos, TypeOK, Historias
  <1>3. Anterior'
    <2> SUFFICES ASSUME NEW r \in Peticiones, Abierta(r), bloqueo'[peticion[r].id] > 0
                 PROVE  peticion[r].edad + bloqueo'[peticion[r].id] >= DuracionBloqueo
      BY DEF Anterior, Abierta
    <2>1. bloqueo'[peticion[r].id] = bloqueo[peticion[r].id]
      BY <1>1, TipoAbierta DEF Bloqueos
    <2> QED
      BY <2>1 DEF Bloqueos, Anterior
  <1> QED
    BY <1>2, <1>3 DEF Bloqueos

LEMMA PasoReiniciar ==
    ASSUME Bloqueos, Reiniciar
    PROVE  Bloqueos'
  <1>1. TypeOK'
    BY EdadMaximaCubre DEF Reiniciar, TypeOK, Vacia
  <1>2. Anterior'
    BY DEF Reiniciar, Anterior, Abierta
  <1> QED
    BY <1>1, <1>2 DEF Bloqueos

LEMMA PasoLatir ==
    ASSUME Bloqueos, Latir
    PROVE  Bloqueos'
  <1>1. historia' \in Historias
    <2>1. ASSUME NEW k \in Claves, NEW e \in Edades
          PROVE  (IF e = 0 \/ e >= Ventana[k[1]] THEN 0 ELSE historia[k][e - 1]) \in Nat
      <3>1. e # 0 => e - 1 \in Edades
        BY EdadMaximaCubre DEF Edades
      <3> QED
        BY <3>1 DEF Bloqueos, TypeOK
    <2> QED
      BY <2>1 DEF Latir, Historias
  <1>2. /\ bloqueo' \in [Identidades -> 0 .. DuracionBloqueo]
        /\ \A u \in Identidades : bloqueo[u] = 0 \/ bloqueo'[u] = bloqueo[u] - 1
        /\ \A u \in Identidades : bloqueo[u] = 0 => bloqueo'[u] = 0
    BY EdadMaximaCubre DEF Latir, Bloqueos, TypeOK
  <1>3. ASSUME NEW p \in Peticiones, Abierta(p)
        PROVE  /\ peticion'[p] \in Abiertas /\ peticion'[p].id = peticion[p].id
               /\ peticion'[p].edad = Crecer(peticion[p].edad)
    <2>1. peticion[p] \in Abiertas /\ Crecer(peticion[p].edad) \in Edades
      BY <1>3, TipoAbierta, EdadesCrecen DEF Bloqueos
    <2>2. peticion'[p] = [peticion[p] EXCEPT !.edad = Crecer(peticion[p].edad)]
      BY <1>3 DEF Latir
    <2> QED
      BY <2>1, <2>2 DEF Abiertas
  <1>4. \A p \in Peticiones : ~ Abierta(p) => peticion'[p] = Libre
    BY DEF Latir
  <1>5. peticion' \in [Peticiones -> Abiertas \union {Libre}]
    <2>1. \A p \in Peticiones : peticion'[p] \in Abiertas \union {Libre}
      BY <1>3, <1>4
    <2>2. peticion' = [p \in Peticiones |-> peticion'[p]]
      BY DEF Latir
    <2> QED
      BY <2>1, <2>2
  <1>6. TypeOK'
    BY <1>1, <1>2, <1>5 DEF TypeOK, Historias
  <1>7. Anterior'
    <2> SUFFICES ASSUME NEW p \in Peticiones, peticion'[p] # Libre,
                        bloqueo'[peticion'[p].id] > 0
                 PROVE  peticion'[p].edad + bloqueo'[peticion'[p].id] >= DuracionBloqueo
      BY DEF Anterior, Abierta
    <2> DEFINE u == peticion[p].id
               e == peticion[p].edad
    <2>1. Abierta(p)
      BY <1>4
    <2>2. peticion'[p].id = u /\ peticion'[p].edad = Crecer(e)
      BY <1>3, <2>1
    <2>3. /\ u \in Identidades /\ e \in Edades /\ e \in Nat
          /\ bloqueo[u] \in 0 .. DuracionBloqueo
      BY <2>1, TipoAbierta DEF Bloqueos
    <2>4. bloqueo[u] > 0 => e + bloqueo[u] >= DuracionBloqueo
      BY <2>1 DEF Bloqueos, Anterior
    <2>5. bloqueo[u] > 0 /\ bloqueo'[u] = bloqueo[u] - 1
      BY <1>2, <2>2, <2>3
    <2>6. Crecer(e) = e + 1 \/ (Crecer(e) = e /\ e >= DuracionBloqueo)
      BY <2>3, EdadesCrecen
    <2> HIDE DEF u, e
    <2> QED
      BY <2>2, <2>3, <2>4, <2>5, <2>6, EdadMaximaCubre
  <1> QED
    BY <1>6, <1>7 DEF Bloqueos

LEMMA InicioDeBloqueos == Init => Bloqueos
  <1>1. Init => TypeOK
    BY EdadMaximaCubre DEF Init, TypeOK, Vacia
  <1>2. Init => Anterior
    BY DEF Init, Anterior, Abierta
  <1> QED
    BY <1>1, <1>2 DEF Bloqueos

LEMMA PasoDeBloqueos == Bloqueos /\ [Next]_vars => Bloqueos'
  <1> SUFFICES ASSUME Bloqueos, [Next]_vars PROVE Bloqueos'
    OBVIOUS
  <1>1. CASE UNCHANGED vars
    BY <1>1 DEF vars, Bloqueos, TypeOK, Anterior, Abierta
  <1>2. ASSUME NEW p \in Peticiones, NEW f \in Flujos, NEW i \in Ips, NEW u \in Identidades,
               ConsultarTodo(p, f, i, u)
        PROVE  Bloqueos'
    BY <1>2, PasoConsultar
  <1>3. ASSUME NEW p \in Peticiones, Despertar(p) \/ Fallar(p) \/ Acertar(p) \/ Abandonar(p)
        PROVE  Bloqueos'
    BY <1>3, PasoDespertar, PasoFallar, PasoAcertar, PasoAbandonar
  <1>4. ASSUME NEW i \in Ips, Refrescar(i)
        PROVE  Bloqueos'
    <2>1. historia' \in Historias
      BY <1>4, RegistrarTipo DEF Refrescar, Bloqueos, TypeOK, Historias
    <2> QED
      BY <1>4, <2>1, SinCerrar DEF Refrescar
  <1>5. ASSUME NEW k \in Claves, Desalojar(k)
        PROVE  Bloqueos'
    <2>1. historia' \in Historias
      BY <1>5 DEF Desalojar, Bloqueos, TypeOK, Historias, Vacia
    <2> QED
      BY <1>5, <2>1, SinCerrar DEF Desalojar
  <1>6. ASSUME NEW u \in Identidades, DesalojarBloqueo(u)
        PROVE  Bloqueos'
    <2>1. historia' \in Historias
      BY <1>6 DEF DesalojarBloqueo, Bloqueos, TypeOK, Historias
    <2> QED
      BY <1>6, <2>1, SinCerrar DEF DesalojarBloqueo
  <1> QED
    BY <1>1, <1>2, <1>3, <1>4, <1>5, <1>6, PasoReiniciar, PasoLatir DEF Next

-----------------------------------------------------------------------------
(* The counts of the limits.                                                *)

\* What a key is.
LEMMA Clave ==
    /\ \A k \in Claves : /\ k[1] \in Clases
                         /\ Ventana[k[1]] \in Nat \ {0} /\ Maximo[k[1]] \in Nat
                         /\ Ventana[k[1]] - 1 \in Edades
    /\ \A f \in Flujos, i \in Ips : ClaveIp(f, i) \in Claves
    /\ \A f \in Flujos, u \in Identidades : ClaveId(f, u) \in Claves
    /\ \A i \in Ips : ClaveIp("refresh", i) \in Claves /\ Rafaga(i) \in Claves
    /\ \A u \in Identidades : Fallos(u) \in Claves
  <1>1. \A k \in Claves : k[1] \in Clases
    BY DEF Claves
  <1>2. ASSUME NEW c \in Clases
        PROVE  Ventana[c] \in Nat \ {0} /\ Maximo[c] \in Nat /\ Ventana[c] - 1 \in Edades
    <2>1. \E n \in Duraciones : \A m \in Duraciones : m <= n
      BY LimitesAssumption
    <2>2. \A m \in Duraciones : m <= EdadMaxima
      BY <2>1 DEF EdadMaxima
    <2>3. Ventana[c] <= EdadMaxima
      BY <2>2 DEF Duraciones
    <2> QED
      BY <2>3, LimitesAssumption, EdadMaximaCubre DEF Edades
  <1>3. ASSUME NEW c \in Clases, c[1] \in {"ip", "burst"}, NEW i \in Ips
        PROVE  <<c, i>> \in Claves
    <2>1. c \in {k \in Clases : k[1] \in {"ip", "burst"}}
      BY <1>3
    <2> QED
      BY <2>1 DEF Claves
  <1>4. ASSUME NEW c \in Clases, c[1] \in {"id", "failures"}, NEW u \in Identidades
        PROVE  <<c, u>> \in Claves
    <2>1. c \in {k \in Clases : k[1] \in {"id", "failures"}}
      BY <1>4
    <2> QED
      BY <2>1 DEF Claves
  <1>5. /\ \A f \in Flujos : <<"ip", f>> \in Clases /\ <<"id", f>> \in Clases
        /\ <<"ip", "refresh">> \in Clases
        /\ <<"burst">> \in Clases /\ <<"failures">> \in Clases
    BY DEF Clases
  <1>6. /\ \A f, i : ClaveIp(f, i) = <<<<"ip", f>>, i>> /\ <<"ip", f>>[1] = "ip"
        /\ \A f, u : ClaveId(f, u) = <<<<"id", f>>, u>> /\ <<"id", f>>[1] = "id"
        /\ \A i : Rafaga(i) = <<<<"burst">>, i>> /\ <<"burst">>[1] = "burst"
        /\ \A u : Fallos(u) = <<<<"failures">>, u>> /\ <<"failures">>[1] = "failures"
    BY DEF ClaveIp, ClaveId, Rafaga, Fallos
  <1> QED
    BY <1>1, <1>2, <1>3, <1>4, <1>5, <1>6

LEMMA Topes ==
    /\ \A c \in Clases : Tope(c) \in Nat
    /\ Cardinality(Peticiones) \in Nat \ {0}
  <1>1. Cardinality(Peticiones) \in Nat \ {0}
    BY LimitesAssumption, FS_CardinalityType, FS_EmptySet
  <1> QED
    BY <1>1, LimitesAssumption DEF Tope

\* A history counts at an age all that it counts at a lower one.
Acumula(h) ==
    \A k \in Claves, d \in Edades :
        d # 0 /\ d < Ventana[k[1]] => h[k][d - 1] <= h[k][d]

\* What a note does to the counts.
LEMMA AnotarCuenta ==
    ASSUME NEW h \in Historias, NEW k \in Claves, NEW e \in Edades, NEW j \in Claves
    PROVE  /\ Cuenta(h, j) \in Nat
           /\ Cuenta(Anotar(h, k, e), j) <= Cuenta(h, j) + 1
           /\ j # k => Cuenta(Anotar(h, k, e), j) = Cuenta(h, j)
  <1> DEFINE v == Ventana[j[1]] - 1
  <1>1. v \in Edades
    BY Clave
  <1> HIDE DEF v
  <1>2. h[j][v] \in Nat
    BY <1>1 DEF Historias
  <1>3. j # k => Anotar(h, k, e)[j] = h[j]
    BY DEF Anotar, Historias
  <1>4. j = k => Anotar(h, k, e)[j][v] \in {h[j][v], h[j][v] + 1}
    BY <1>1 DEF Anotar, Historias
  <1> QED
    BY <1>2, <1>3, <1>4 DEF Cuenta, v

LEMMA AnotarAcumula ==
    ASSUME NEW h \in Historias, Acumula(h), NEW k \in Claves, NEW e \in Edades
    PROVE  Acumula(Anotar(h, k, e))
  <1> SUFFICES ASSUME NEW j \in Claves, NEW d \in Edades, d # 0, d < Ventana[j[1]]
               PROVE  Anotar(h, k, e)[j][d - 1] <= Anotar(h, k, e)[j][d]
    BY DEF Acumula
  <1>1. d - 1 \in Edades /\ d \in Nat /\ e \in Nat /\ Ventana[j[1]] \in Nat
    BY Clave, EdadMaximaCubre DEF Edades
  <1>2. h[j][d - 1] <= h[j][d] /\ h[j][d - 1] \in Nat /\ h[j][d] \in Nat
    BY <1>1 DEF Acumula, Historias
  <1>3. CASE j # k
    BY <1>2, <1>3 DEF Anotar, Historias
  <1>4. CASE j = k
    <2> DEFINE T == Tope(k[1])
               crece(a) == e <= a /\ a < Ventana[k[1]] /\ h[k][a] < T
    <2>1. T \in Nat
      BY Clave, Topes
    <2>2. \A a \in Edades : Anotar(h, k, e)[k][a] = IF crece(a) THEN h[k][a] + 1 ELSE h[k][a]
      BY DEF Anotar, Historias
    <2>3. crece(d - 1) => crece(d) \/ h[k][d - 1] + 1 <= h[k][d]
      BY <1>1, <1>2, <1>4, <2>1
    <2> HIDE DEF T, crece
    <2> QED
      BY <1>1, <1>2, <1>4, <2>2, <2>3
  <1> QED
    BY <1>3, <1>4

\* A record notes the address and the identity: no key twice.
LEMMA RegistrarCuenta ==
    ASSUME NEW h \in Historias, NEW f \in Flujos, NEW i \in Ips, NEW u \in Identidades,
           NEW e \in Edades
    PROVE  /\ Acumula(h) => Acumula(Registrar(h, f, i, u, e))
           /\ \A j \in Claves :
                /\ Cuenta(Registrar(h, f, i, u, e), j) \in Nat
                /\ Cuenta(Registrar(h, f, i, u, e), j) <= Cuenta(h, j) + 1
                /\ j \notin {ClaveIp(f, i), ClaveId(f, u)} =>
                        Cuenta(Registrar(h, f, i, u, e), j) = Cuenta(h, j)
  <1> DEFINE a == ClaveIp(f, i)
             b == ClaveId(f, u)
             g == Anotar(h, a, e)
  <1>1. a \in Claves /\ b \in Claves /\ a # b
    BY Clave DEF ClaveIp, ClaveId
  <1>2. g \in Historias /\ Anotar(g, b, e) \in Historias
    BY AnotarTipo
  <1>3. Registrar(h, f, i, u, e) = Anotar(g, b, e)
    BY DEF Registrar, RecordIp, RecordIdentity
  <1> HIDE DEF a, b, g
  <1>4. Acumula(h) => Acumula(Anotar(g, b, e))
    BY <1>1, <1>2, AnotarAcumula DEF g
  <1>5. ASSUME NEW j \in Claves
        PROVE  /\ Cuenta(Anotar(g, b, e), j) \in Nat
               /\ Cuenta(Anotar(g, b, e), j) <= Cuenta(h, j) + 1
               /\ j \notin {a, b} => Cuenta(Anotar(g, b, e), j) = Cuenta(h, j)
    <2>1. Cuenta(Anotar(g, b, e), j) \in Nat
      BY <1>1, <1>2, AnotarCuenta
    <2>2. /\ Cuenta(g, j) \in Nat
          /\ Cuenta(Anotar(g, b, e), j) <= Cuenta(g, j) + 1
          /\ j # b => Cuenta(Anotar(g, b, e), j) = Cuenta(g, j)
      BY <1>1, <1>2, AnotarCuenta
    <2>3. /\ Cuenta(h, j) \in Nat
          /\ Cuenta(g, j) <= Cuenta(h, j) + 1
          /\ j # a => Cuenta(g, j) = Cuenta(h, j)
      BY <1>1, AnotarCuenta DEF g
    <2> QED
      BY <1>1, <2>1, <2>2, <2>3
  <1> QED
    BY <1>3, <1>4, <1>5 DEF a, b

\* Keys with a limit: of the requests that sleep, and of the refreshes.
DeFlujo(k) == k \in Claves /\ k[1][1] \in {"ip", "id"} /\ k[1][2] \in Flujos
DeRefresco(k) == \E i \in Ips : k = ClaveIp("refresh", i)

Cupo(k) ==
    /\ DeFlujo(k) => Cuenta(historia, k) + Cardinality(SinRegistrar(k))
                        <= Maximo[k[1]] + Cardinality(Peticiones) - 1
    /\ DeRefresco(k) => Cuenta(historia, k) <= Maximo[k[1]]

Cupos == Acumula(historia) /\ \A k \in Claves : Cupo(k)

\* The inductive invariant.
IInv == Bloqueos /\ Cupos

LEMMA PendientesFinitas ==
    ASSUME NEW k
    PROVE  /\ SinRegistrar(k) \subseteq Peticiones /\ IsFiniteSet(SinRegistrar(k))
           /\ Cardinality(SinRegistrar(k)) \in 0 .. Cardinality(Peticiones)
           /\ IsFiniteSet(SinRegistrar(k)')
           /\ Cardinality(SinRegistrar(k)') \in 0 .. Cardinality(Peticiones)
  <1>1. SinRegistrar(k) \subseteq Peticiones /\ SinRegistrar(k)' \subseteq Peticiones
    BY DEF SinRegistrar
  <1> QED
    BY <1>1, LimitesAssumption, FS_Subset, FS_CardinalityType, Topes

LEMMA CuentasNat ==
    ASSUME IInv, historia' \in Historias, NEW k \in Claves
    PROVE  Cuenta(historia, k) \in Nat /\ Cuenta(historia', k) \in Nat /\ Maximo[k[1]] \in Nat
  <1>1. 0 \in Edades /\ historia \in Historias
    BY EdadMaximaCubre DEF Edades, IInv, Bloqueos, TypeOK, Historias
  <1> QED
    BY <1>1, Clave, AnotarCuenta

\* Every request asleep after the step slept before it, for the same keys.
Persiste(r) ==
    peticion'[r] # Libre /\ peticion'[r].fase = "dormida" =>
        /\ Abierta(r) /\ peticion[r].fase = "dormida"
        /\ peticion'[r].flujo = peticion[r].flujo
        /\ peticion'[r].ip = peticion[r].ip /\ peticion'[r].id = peticion[r].id

LEMMA PendientesSiguen ==
    ASSUME NEW k, \A r \in Peticiones : Persiste(r)
    PROVE  SinRegistrar(k)' \subseteq SinRegistrar(k)
  BY DEF SinRegistrar, Persiste, Abierta

\* A key that counts no more, with no more requests to record in it.
LEMMA CupoSigue ==
    ASSUME IInv, historia' \in Historias, NEW k \in Claves,
           SinRegistrar(k)' \subseteq SinRegistrar(k),
           Cuenta(historia', k) <= Cuenta(historia, k)
    PROVE  Cupo(k)'
  <1>1. Cardinality(SinRegistrar(k)') <= Cardinality(SinRegistrar(k))
    BY PendientesFinitas, FS_Subset
  <1>2. Cuenta(historia', k) \in Nat /\ Cuenta(historia, k) \in Nat /\ Maximo[k[1]] \in Nat
    BY CuentasNat
  <1>3. Cupo(k)
    BY DEF IInv, Cupos
  <1>4. /\ Cardinality(SinRegistrar(k)) \in Nat /\ Cardinality(SinRegistrar(k)') \in Nat
        /\ Cardinality(Peticiones) \in Nat
    BY PendientesFinitas, Topes
  <1> QED
    BY <1>1, <1>2, <1>3, <1>4 DEF Cupo

\* A step that wakes nobody up keeps the limits if the keys that have one count no more.
LEMMA CuposSiguen ==
    ASSUME IInv, historia' \in Historias, Acumula(historia'),
           \A r \in Peticiones : Persiste(r),
           \A k \in Claves : DeFlujo(k) \/ DeRefresco(k) =>
                                Cuenta(historia', k) <= Cuenta(historia, k)
    PROVE  Cupos'
  <1>1. ASSUME NEW k \in Claves PROVE Cupo(k)'
    <2>1. CASE DeFlujo(k) \/ DeRefresco(k)
      BY <2>1, PendientesSiguen, CupoSigue
    <2>2. CASE ~ (DeFlujo(k) \/ DeRefresco(k))
      BY <2>2 DEF Cupo
    <2> QED
      BY <2>1, <2>2
  <1> QED
    BY <1>1 DEF Cupos, Acumula

\* The keys that have a limit are not those of bursts or failures.
LEMMA ClavesDistintas ==
    /\ \A i \in Ips : ~ DeFlujo(Rafaga(i)) /\ ~ DeRefresco(Rafaga(i))
    /\ \A u \in Identidades : ~ DeFlujo(Fallos(u)) /\ ~ DeRefresco(Fallos(u))
    /\ \A i \in Ips : ~ DeFlujo(ClaveIp("refresh", i))
    /\ \A f \in Flujos, i \in Ips : ~ DeRefresco(ClaveIp(f, i))
    /\ \A f \in Flujos, u \in Identidades : ~ DeRefresco(ClaveId(f, u))
  BY LimitesAssumption DEF DeFlujo, DeRefresco, Rafaga, Fallos, ClaveIp, ClaveId

\* Forgetting a key, or all of them.
LEMMA VaciarCuenta ==
    ASSUME NEW h \in Historias, NEW j \in Claves
    PROVE  LET g == [h EXCEPT ![j] = Vacia]
           IN /\ g \in Historias
              /\ Acumula(h) => Acumula(g)
              /\ \A k \in Claves : Cuenta(g, k) <= Cuenta(h, k)
  <1> DEFINE g == [h EXCEPT ![j] = Vacia]
  <1>1. g \in Historias
    BY DEF Historias, Vacia
  <1>2. ASSUME NEW k \in Claves, NEW d \in Edades
        PROVE  g[k][d] = IF k = j THEN 0 ELSE h[k][d]
    BY DEF Historias, Vacia
  <1> HIDE DEF g
  <1>3. ASSUME Acumula(h) PROVE Acumula(g)
    <2> SUFFICES ASSUME NEW k \in Claves, NEW d \in Edades, d # 0, d < Ventana[k[1]]
                 PROVE  g[k][d - 1] <= g[k][d]
      BY DEF Acumula
    <2>1. d - 1 \in Edades
      BY EdadMaximaCubre DEF Edades
    <2>2. h[k][d - 1] <= h[k][d]
      BY <1>3 DEF Acumula
    <2> QED
      BY <1>2, <2>1, <2>2
  <1>4. ASSUME NEW k \in Claves PROVE Cuenta(g, k) <= Cuenta(h, k)
    <2>1. Ventana[k[1]] - 1 \in Edades
      BY Clave
    <2>2. h[k][Ventana[k[1]] - 1] \in Nat
      BY <2>1 DEF Historias
    <2> QED
      BY <1>2, <2>1, <2>2 DEF Cuenta
  <1> QED
    BY <1>1, <1>3, <1>4 DEF g

-----------------------------------------------------------------------------
(* One lemma per action.                                                    *)

\* The request that passes the checks is recorded at once, or sleeps: with the ones
\* that may still be recorded the count is below the limit by one.
LEMMA CuposConsultar ==
    ASSUME IInv, NEW p \in Peticiones, NEW f \in Flujos, NEW i \in Ips, NEW u \in Identidades,
           ConsultarTodo(p, f, i, u)
    PROVE  Cupos'
  <1> DEFINE h == Anotar(historia, Rafaga(i), 0)
             suyas == {ClaveIp(f, i), ClaveId(f, u)}
             N == Cardinality(Peticiones)
  <1>1. 0 \in Edades /\ historia \in Historias /\ Acumula(historia) /\ Rafaga(i) \in Claves
    BY EdadMaximaCubre, Clave DEF Edades, IInv, Bloqueos, Cupos, TypeOK, Historias
  <1>2. h \in Historias /\ Acumula(h)
    BY <1>1, AnotarTipo, AnotarAcumula
  <1>3. \A k \in Claves : k # Rafaga(i) => Cuenta(h, k) = Cuenta(historia, k)
    BY <1>1, AnotarCuenta
  <1>4. suyas \subseteq Claves /\ Rafaga(i) \notin suyas
    BY Clave DEF Rafaga, ClaveIp, ClaveId
  <1>5. \A k \in suyas : Cuenta(historia, k) < Maximo[k[1]]
    BY DEF ConsultarTodo, Admite, CheckIp, CheckIdentity, ClaveIp, ClaveId
  <1>6. /\ peticion[p] = Libre
        /\ historia' = IF Duerme(h, i) THEN h ELSE Registrar(h, f, i, u, 0)
        /\ peticion' = [peticion EXCEPT ![p] =
                [fase |-> IF Duerme(h, i) THEN "dormida" ELSE "verificando",
                 flujo |-> f, ip |-> i, id |-> u, edad |-> 0]]
    BY DEF ConsultarTodo
  <1> HIDE DEF h
  <1>7. historia' \in Historias /\ Acumula(historia')
    BY <1>1, <1>2, <1>6, RegistrarTipo, RegistrarCuenta
  <1>8. peticion \in [Peticiones -> Abiertas \union {Libre}]
    BY DEF IInv, Bloqueos, TypeOK
  <1>9. ASSUME NEW k \in Claves PROVE Cupo(k)'
    <2>1. CASE k = Rafaga(i)
      BY <2>1, ClavesDistintas DEF Cupo
    <2>2. CASE k \notin suyas \union {Rafaga(i)}
      <3>1. Cuenta(historia', k) = Cuenta(historia, k)
        BY <1>1, <1>2, <1>3, <1>6, <2>2, RegistrarCuenta
      <3>2. SinRegistrar(k)' \subseteq SinRegistrar(k)
        BY <1>6, <1>8, <2>2 DEF SinRegistrar, Abierta
      <3> QED
        BY <1>7, <3>1, <3>2, CupoSigue, CuentasNat
    <2>3. CASE k \in suyas
      <3>1. Cuenta(historia, k) < Maximo[k[1]] /\ Cuenta(h, k) = Cuenta(historia, k)
        BY <1>3, <1>4, <1>5, <2>3
      <3>2. ~ DeRefresco(k)
        BY <2>3, ClavesDistintas
      <3>3. /\ Cuenta(historia, k) \in Nat /\ Cuenta(historia', k) \in Nat
            /\ Maximo[k[1]] \in Nat /\ N \in Nat \ {0}
            /\ Cardinality(SinRegistrar(k)') \in 0 .. N
        BY <1>7, CuentasNat, Topes, PendientesFinitas
      <3>4. Cuenta(historia', k) + Cardinality(SinRegistrar(k)') <= Maximo[k[1]] + N - 1
        <4>1. CASE Duerme(h, i)
          <5>1. Cuenta(historia', k) = Cuenta(historia, k)
            BY <1>6, <3>1, <4>1
          <5> QED
            BY <3>1, <3>3, <5>1
        <4>2. CASE ~ Duerme(h, i)
          <5>1. Cuenta(historia', k) <= Cuenta(historia, k) + 1
            BY <1>1, <1>2, <1>6, <3>1, <4>2, RegistrarCuenta
          <5>2. SinRegistrar(k)' \subseteq Peticiones \ {p}
            BY <1>6, <1>8, <4>2 DEF SinRegistrar
          <5>3. Cardinality(SinRegistrar(k)') <= N - 1
            <6>1. Cardinality(Peticiones \ {p}) = N - 1 /\ IsFiniteSet(Peticiones \ {p})
              BY LimitesAssumption, FS_RemoveElement
            <6> QED
              BY <5>2, <6>1, FS_Subset
          <5> QED
            BY <3>1, <3>3, <5>1, <5>3
        <4> QED
          BY <4>1, <4>2
      <3>5. Cuenta(historia, k)' = Cuenta(historia', k)
        BY DEF Cuenta
      <3> HIDE DEF N
      <3> QED
        BY <3>2, <3>4, <3>5 DEF Cupo, N
    <2> QED
      BY <2>1, <2>2, <2>3
  <1> QED
    BY <1>7, <1>9 DEF Cupos, Acumula

\* A request that wakes up is no longer waiting for the record it makes.
LEMMA CuposDespertar ==
    ASSUME IInv, NEW p \in Peticiones, Despertar(p)
    PROVE  Cupos'
  <1> DEFINE q == peticion[p]
             suyas == {ClaveIp(q.flujo, q.ip), ClaveId(q.flujo, q.id)}
  <1>1. historia \in Historias /\ Acumula(historia) /\ q \in Abiertas /\ Abierta(p)
    BY TipoAbierta DEF Despertar, IInv, Bloqueos, Cupos, TypeOK, Historias
  <1>2. q.flujo \in Flujos /\ q.ip \in Ips /\ q.id \in Identidades /\ q.edad \in Edades
    BY <1>1 DEF Abiertas
  <1>3. /\ q.fase = "dormida"
        /\ historia' = Registrar(historia, q.flujo, q.ip, q.id, q.edad)
        /\ peticion' = [peticion EXCEPT ![p].fase = "verificando"]
    BY DEF Despertar
  <1>4. historia' \in Historias /\ Acumula(historia')
    BY <1>1, <1>2, <1>3, RegistrarTipo, RegistrarCuenta
  <1>5. /\ peticion'[p].fase = "verificando"
        /\ \A r \in Peticiones \ {p} : peticion'[r] = peticion[r]
    BY <1>1, <1>3 DEF IInv, Bloqueos, TypeOK, Abiertas
  <1>6. \A r \in Peticiones : Persiste(r)
    BY <1>5 DEF Persiste, Abierta
  <1>7. ASSUME NEW k \in Claves PROVE Cupo(k)'
    <2>1. CASE k \notin suyas
      <3>1. Cuenta(historia', k) = Cuenta(historia, k)
        BY <1>1, <1>2, <1>3, <2>1, RegistrarCuenta
      <3> QED
        BY <1>4, <1>6, <3>1, PendientesSiguen, CupoSigue, CuentasNat
    <2>2. CASE k \in suyas
      <3>1. Cuenta(historia', k) <= Cuenta(historia, k) + 1
        BY <1>1, <1>2, <1>3, RegistrarCuenta
      <3>2. p \in SinRegistrar(k) /\ SinRegistrar(k)' \subseteq SinRegistrar(k) \ {p}
        <4>1. p \in SinRegistrar(k)
          BY <1>1, <1>3, <2>2 DEF SinRegistrar
        <4>2. p \notin SinRegistrar(k)'
          BY <1>5 DEF SinRegistrar
        <4> QED
          BY <1>6, <4>1, <4>2, PendientesSiguen
      <3>3. Cardinality(SinRegistrar(k)') <= Cardinality(SinRegistrar(k)) - 1
        <4>1. /\ IsFiniteSet(SinRegistrar(k) \ {p})
              /\ Cardinality(SinRegistrar(k) \ {p}) = Cardinality(SinRegistrar(k)) - 1
          BY <3>2, PendientesFinitas, FS_RemoveElement
        <4> QED
          BY <3>2, <4>1, FS_Subset
      <3>4. /\ Cuenta(historia, k) \in Nat /\ Cuenta(historia', k) \in Nat
            /\ Maximo[k[1]] \in Nat /\ Cardinality(Peticiones) \in Nat
            /\ Cardinality(SinRegistrar(k)) \in Nat /\ Cardinality(SinRegistrar(k)') \in Nat
        BY <1>4, CuentasNat, Topes, PendientesFinitas
      <3>5. ~ DeRefresco(k) /\ Cupo(k) /\ Cuenta(historia, k)' = Cuenta(historia', k)
        BY <1>2, <2>2, ClavesDistintas DEF IInv, Cupos, Cuenta
      <3> QED
        BY <3>1, <3>3, <3>4, <3>5 DEF Cupo
    <2> QED
      BY <2>1, <2>2
  <1> QED
    BY <1>4, <1>7 DEF Cupos, Acumula

\* The answer of a request: of the histories only that of failures changes.
LEMMA CuposCerrar ==
    ASSUME IInv, NEW p \in Peticiones, Fallar(p) \/ Acertar(p) \/ Abandonar(p)
    PROVE  Cupos'
  <1>1. historia \in Historias /\ Acumula(historia) /\ 0 \in Edades
    BY EdadMaximaCubre DEF Edades, IInv, Bloqueos, Cupos, TypeOK, Historias
  <1>2. peticion' = [peticion EXCEPT ![p] = Libre] /\ Abierta(p)
    BY DEF Fallar, Acertar, Abandonar, Verificada
  <1>3. \A r \in Peticiones : Persiste(r)
    BY <1>2 DEF Persiste, Abierta, IInv, Bloqueos, TypeOK
  <1>4. peticion[p].id \in Identidades /\ Fallos(peticion[p].id) \in Claves
    BY <1>2, TipoAbierta, Clave DEF IInv, Bloqueos
  <1> DEFINE F == Fallos(peticion[p].id)
  <1>5. ~ DeFlujo(F) /\ ~ DeRefresco(F)
    BY <1>4, ClavesDistintas
  <1>6. \/ historia' = Anotar(historia, F, 0)
        \/ historia' = [historia EXCEPT ![F] = Vacia]
        \/ historia' = historia
    BY DEF Fallar, Acertar, Abandonar
  <1> HIDE DEF F
  <1>7. historia' \in Historias /\ Acumula(historia')
    BY <1>1, <1>4, <1>6, AnotarTipo, AnotarAcumula, VaciarCuenta DEF F
  <1>8. ASSUME NEW k \in Claves, k # F
        PROVE  Cuenta(historia', k) <= Cuenta(historia, k)
    <2>1. Cuenta(historia, k) \in Nat
      BY <1>7, CuentasNat
    <2>2. Cuenta(Anotar(historia, F, 0), k) = Cuenta(historia, k)
      BY <1>1, <1>4, <1>8, AnotarCuenta DEF F
    <2>3. Cuenta([historia EXCEPT ![F] = Vacia], k) <= Cuenta(historia, k)
      BY <1>1, <1>4, VaciarCuenta DEF F
    <2> QED
      BY <1>6, <2>1, <2>2, <2>3
  <1> QED
    BY <1>3, <1>5, <1>7, <1>8, CuposSiguen

\* A refresh is counted in the step that checks it.
LEMMA CuposRefrescar ==
    ASSUME IInv, NEW i \in Ips, Refrescar(i)
    PROVE  Cupos'
  <1> DEFINE R == ClaveIp("refresh", i)
  <1>1. historia \in Historias /\ Acumula(historia) /\ 0 \in Edades /\ R \in Claves
    BY EdadMaximaCubre, Clave DEF Edades, IInv, Bloqueos, Cupos, TypeOK, Historias
  <1>2. /\ historia' = Anotar(historia, R, 0) /\ Cuenta(historia, R) < Maximo[R[1]]
        /\ UNCHANGED peticion /\ ~ DeFlujo(R)
    BY ClavesDistintas DEF Refrescar, RecordIp, CheckIp, ClaveIp
  <1> HIDE DEF R
  <1>3. historia' \in Historias /\ Acumula(historia')
    BY <1>1, <1>2, AnotarTipo, AnotarAcumula
  <1>4. ASSUME NEW k \in Claves PROVE Cupo(k)'
    <2>1. CASE k = R
      <3>1. Cuenta(historia', k) <= Cuenta(historia, k) + 1
        BY <1>1, <1>2, AnotarCuenta
      <3>2. Cuenta(historia, k) \in Nat /\ Cuenta(historia', k) \in Nat /\ Maximo[k[1]] \in Nat
        BY <1>3, CuentasNat
      <3>3. Cuenta(historia', k) <= Maximo[k[1]]
        BY <1>2, <2>1, <3>1, <3>2
      <3>4. Cuenta(historia, k)' = Cuenta(historia', k)
        BY DEF Cuenta
      <3> QED
        BY <1>2, <2>1, <3>3, <3>4 DEF Cupo
    <2>2. CASE k # R
      <3>1. Cuenta(historia', k) = Cuenta(historia, k) /\ Cuenta(historia, k) \in Nat
        BY <1>1, <1>2, <2>2, AnotarCuenta
      <3>2. SinRegistrar(k)' \subseteq SinRegistrar(k)
        BY <1>2 DEF SinRegistrar, Abierta
      <3> QED
        BY <1>3, <3>1, <3>2, CupoSigue
    <2> QED
      BY <2>1, <2>2
  <1> QED
    BY <1>3, <1>4 DEF Cupos, Acumula

LEMMA CuposDesalojar ==
    ASSUME IInv, NEW k \in Claves, Desalojar(k)
    PROVE  Cupos'
  <1>1. historia \in Historias /\ Acumula(historia)
    BY DEF IInv, Bloqueos, Cupos, TypeOK, Historias
  <1>2. \A r \in Peticiones : Persiste(r)
    BY DEF Desalojar, Persiste, Abierta
  <1>3. historia' = [historia EXCEPT ![k] = Vacia]
    BY DEF Desalojar
  <1>4. /\ historia' \in Historias /\ Acumula(historia')
        /\ \A j \in Claves : Cuenta(historia', j) <= Cuenta(historia, j)
    BY <1>1, <1>3, VaciarCuenta
  <1> QED
    BY <1>2, <1>4, CuposSiguen

\* A tick: what a key counted at the age before its window's last it counts now at most.
LEMMA CuposLatir ==
    ASSUME IInv, Latir
    PROVE  Cupos'
  <1>1. historia \in Historias /\ Acumula(historia)
    BY DEF IInv, Bloqueos, Cupos, TypeOK, Historias
  <1>2. Bloqueos'
    BY PasoLatir DEF IInv
  <1>3. historia' \in Historias
    BY <1>2 DEF Bloqueos, TypeOK, Historias
  <1>4. ASSUME NEW k \in Claves, NEW e \in Edades
        PROVE  historia'[k][e] = IF e = 0 \/ e >= Ventana[k[1]] THEN 0 ELSE historia[k][e - 1]
    BY DEF Latir
  <1>5. Acumula(historia')
    <2> SUFFICES ASSUME NEW k \in Claves, NEW d \in Edades, d # 0, d < Ventana[k[1]]
                 PROVE  historia'[k][d - 1] <= historia'[k][d]
      BY DEF Acumula
    <2>1. d \in Nat /\ d - 1 \in Edades /\ Ventana[k[1]] \in Nat
      BY Clave, EdadMaximaCubre DEF Edades
    <2>2. historia'[k][d] = historia[k][d - 1] /\ historia[k][d - 1] \in Nat
      BY <1>1, <1>4, <2>1 DEF Historias
    <2>3. CASE d - 1 = 0
      BY <1>4, <2>1, <2>2, <2>3
    <2>4. CASE d - 1 # 0
      <3>1. d - 1 < Ventana[k[1]] /\ ~ (d - 1 >= Ventana[k[1]])
        BY <2>1
      <3>2. historia'[k][d - 1] = historia[k][(d - 1) - 1]
        BY <1>4, <2>1, <2>4, <3>1
      <3>3. historia[k][(d - 1) - 1] <= historia[k][d - 1]
        BY <1>1, <2>1, <2>4, <3>1 DEF Acumula
      <3> QED
        BY <2>2, <3>2, <3>3
    <2> QED
      BY <2>3, <2>4
  <1>6. ASSUME NEW k \in Claves
        PROVE  Cuenta(historia', k) <= Cuenta(historia, k)
    <2> DEFINE v == Ventana[k[1]] - 1
    <2>1. v \in Edades /\ v \in Nat /\ v < Ventana[k[1]] /\ ~ (v >= Ventana[k[1]])
      BY Clave
    <2> HIDE DEF v
    <2>2. historia[k][v] \in Nat
      BY <1>1, <2>1 DEF Historias
    <2>3. v # 0 => historia[k][v - 1] <= historia[k][v]
      BY <1>1, <2>1 DEF Acumula
    <2>4. historia'[k][v] = IF v = 0 THEN 0 ELSE historia[k][v - 1]
      BY <1>4, <2>1
    <2>5. historia'[k][v] <= historia[k][v]
      BY <2>2, <2>3, <2>4
    <2> QED
      BY <2>5 DEF Cuenta, v
  <1>7. \A r \in Peticiones : Persiste(r)
    <2> SUFFICES ASSUME NEW r \in Peticiones, peticion'[r] # Libre PROVE Persiste(r)
      BY DEF Persiste
    <2>1. Abierta(r) /\ peticion'[r] = [peticion[r] EXCEPT !.edad = Crecer(@)]
      BY DEF Latir
    <2>2. peticion[r] \in Abiertas
      BY <2>1, TipoAbierta DEF IInv, Bloqueos
    <2> QED
      BY <2>1, <2>2 DEF Persiste, Abiertas
  <1> QED
    BY <1>3, <1>5, <1>6, <1>7, CuposSiguen

\* No times and no requests.
LEMMA CuposDeCero ==
    ASSUME historia = [k \in Claves |-> Vacia], peticion = [p \in Peticiones |-> Libre]
    PROVE  Cupos
  <1>1. Acumula(historia)
    <2> SUFFICES ASSUME NEW k \in Claves, NEW d \in Edades, d # 0
                 PROVE  historia[k][d - 1] <= historia[k][d]
      BY DEF Acumula
    <2>1. d - 1 \in Edades
      BY EdadMaximaCubre DEF Edades
    <2> QED
      BY <2>1 DEF Vacia
  <1>2. ASSUME NEW k \in Claves PROVE Cupo(k)
    <2>1. Cuenta(historia, k) = 0 /\ Maximo[k[1]] \in Nat
      BY Clave DEF Cuenta, Vacia
    <2>2. SinRegistrar(k) = {}
      BY DEF SinRegistrar, Abierta
    <2> QED
      BY <2>1, <2>2, Topes, FS_EmptySet DEF Cupo
  <1> QED
    BY <1>1, <1>2 DEF Cupos

LEMMA CuposReiniciar ==
    ASSUME Reiniciar
    PROVE  Cupos'
  <1>1. Acumula(historia')
    <2> SUFFICES ASSUME NEW k \in Claves, NEW d \in Edades, d # 0
                 PROVE  historia'[k][d - 1] <= historia'[k][d]
      BY DEF Acumula
    <2>1. d - 1 \in Edades
      BY EdadMaximaCubre DEF Edades
    <2> QED
      BY <2>1 DEF Vacia, Reiniciar
  <1>2. ASSUME NEW k \in Claves PROVE Cupo(k)'
    <2>1. Cuenta(historia, k)' = 0 /\ Maximo[k[1]] \in Nat
      BY Clave DEF Cuenta, Vacia, Reiniciar
    <2>2. SinRegistrar(k)' = {}
      BY DEF SinRegistrar, Reiniciar, Abierta
    <2> QED
      BY <2>1, <2>2, Topes, FS_EmptySet DEF Cupo
  <1> QED
    BY <1>1, <1>2 DEF Cupos, Acumula

LEMMA Inicio == Init => IInv
  BY InicioDeBloqueos, CuposDeCero DEF Init, IInv

LEMMA Paso == IInv /\ [Next]_vars => IInv'
  <1> SUFFICES ASSUME IInv, [Next]_vars PROVE Cupos'
    BY PasoDeBloqueos DEF IInv
  <1>1. CASE UNCHANGED vars
    BY <1>1 DEF vars, IInv, Cupos, Acumula, Cupo, Cuenta, SinRegistrar, Abierta
  <1>2. ASSUME NEW p \in Peticiones, NEW f \in Flujos, NEW i \in Ips, NEW u \in Identidades,
               ConsultarTodo(p, f, i, u)
        PROVE  Cupos'
    BY <1>2, CuposConsultar
  <1>3. ASSUME NEW p \in Peticiones, Despertar(p) \/ Fallar(p) \/ Acertar(p) \/ Abandonar(p)
        PROVE  Cupos'
    BY <1>3, CuposDespertar, CuposCerrar
  <1>4. ASSUME NEW u \in Identidades, DesalojarBloqueo(u)
        PROVE  Cupos'
    BY <1>4 DEF DesalojarBloqueo, IInv, Cupos, Acumula, Cupo, Cuenta, SinRegistrar, Abierta
  <1> QED
    BY <1>1, <1>2, <1>3, <1>4, CuposRefrescar, CuposDesalojar, CuposReiniciar, CuposLatir
    DEF Next

-----------------------------------------------------------------------------
\* The inductive invariant holds in every behaviour of the limiter.
THEOREM Invariante == Spec => []IInv
  BY Inicio, Paso, PTL DEF Spec

\* Histories, locks and requests keep their types under any traffic.
THEOREM TypeSeguro == Spec => []TypeOK
  <1>1. IInv => TypeOK
    BY DEF IInv, Bloqueos
  <1> QED
    BY <1>1, Invariante, PTL

\* In a window, the requests counted and those let in that still sleep never pass the
\* limit by more than the other requests open; refreshes never pass theirs.
THEOREM CuposSeguros == Spec => []CuposAcotados
  <1>1. ASSUME IInv PROVE CuposAcotados
    <2>1. ASSUME NEW k \in Claves, k[1][1] \in {"ip", "id"} /\ k[1][2] \in Flujos
          PROVE  Cuenta(historia, k) + Cardinality(SinRegistrar(k))
                    <= Maximo[k[1]] + Cardinality(Peticiones) - 1
      BY <1>1, <2>1 DEF IInv, Cupos, Cupo, DeFlujo
    <2>2. ASSUME NEW i \in Ips
          PROVE  Cuenta(historia, ClaveIp("refresh", i)) <= Maximo[<<"ip", "refresh">>]
      <3>1. ClaveIp("refresh", i) \in Claves /\ DeRefresco(ClaveIp("refresh", i))
        BY Clave DEF DeRefresco
      <3>2. ClaveIp("refresh", i)[1] = <<"ip", "refresh">>
        BY DEF ClaveIp
      <3> QED
        BY <1>1, <3>1, <3>2 DEF IInv, Cupos, Cupo
    <2> QED
      BY <2>1, <2>2 DEF CuposAcotados
  <1> QED
    BY <1>1, Invariante, PTL

\* The body of BloqueoCedeAnteLoPrevio.
PasoDeBloqueo ==
    \A u \in Identidades : bloqueo[u] > bloqueo'[u] =>
        \/ Latir \/ Reiniciar \/ DesalojarBloqueo(u)
        \/ \E p \in Peticiones :
                /\ Abierta(p) /\ peticion[p].id = u /\ peticion'[p] = Libre
                /\ peticion[p].edad + bloqueo[u] >= DuracionBloqueo

\* Closing a request only ends the lock of its account, and only one it precedes.
LEMMA CierraSuyo ==
    ASSUME IInv, IInv', NEW p \in Peticiones, Abierta(p),
           peticion' = [peticion EXCEPT ![p] = Libre],
           \E n : bloqueo' = [bloqueo EXCEPT ![peticion[p].id] = n]
    PROVE  PasoDeBloqueo
  <1>1. SUFFICES ASSUME NEW u \in Identidades, bloqueo[u] > bloqueo'[u]
                 PROVE  /\ peticion[p].id = u /\ peticion'[p] = Libre
                        /\ peticion[p].edad + bloqueo[u] >= DuracionBloqueo
    BY DEF PasoDeBloqueo
  <1>2. bloqueo[u] \in Nat /\ bloqueo'[u] \in Nat
    BY EdadMaximaCubre DEF IInv, Bloqueos, TypeOK
  <1>3. bloqueo[u] > 0 /\ bloqueo'[u] # bloqueo[u]
    BY <1>1, <1>2
  <1>4. peticion[p].id = u
    BY <1>3 DEF IInv, Bloqueos, TypeOK
  <1> QED
    BY <1>3, <1>4 DEF IInv, Bloqueos, TypeOK, Anterior

LEMMA CadaPaso ==
    ASSUME IInv, IInv', [Next]_vars
    PROVE  PasoDeBloqueo
  <1>1. CASE UNCHANGED bloqueo
    <2>1. \A u \in Identidades : bloqueo[u] \in Nat
      BY EdadMaximaCubre DEF IInv, Bloqueos, TypeOK
    <2> QED
      BY <1>1, <2>1 DEF PasoDeBloqueo
  <1>2. ASSUME NEW p \in Peticiones, Fallar(p) \/ Acertar(p)
        PROVE  PasoDeBloqueo
    <2>1. Abierta(p) /\ peticion' = [peticion EXCEPT ![p] = Libre]
      BY <1>2 DEF Fallar, Acertar, Verificada
    <2>2. \E n : bloqueo' = [bloqueo EXCEPT ![peticion[p].id] = n]
      BY <1>2 DEF Fallar, Acertar
    <2> QED
      BY <2>1, <2>2, CierraSuyo
  <1>3. ASSUME NEW u \in Identidades, DesalojarBloqueo(u)
        PROVE  PasoDeBloqueo
    <2> SUFFICES ASSUME NEW w \in Identidades, bloqueo[w] > bloqueo'[w]
                 PROVE  DesalojarBloqueo(w)
      BY DEF PasoDeBloqueo
    <2>1. bloqueo[w] \in Nat
      BY EdadMaximaCubre DEF IInv, Bloqueos, TypeOK
    <2>2. w = u
      BY <1>3, <2>1 DEF DesalojarBloqueo, IInv, Bloqueos, TypeOK
    <2> QED
      BY <1>3, <2>2
  <1>4. CASE Latir \/ Reiniciar
    BY <1>4 DEF PasoDeBloqueo
  <1>5. [Next]_vars => \/ UNCHANGED bloqueo
                       \/ \E p \in Peticiones : Fallar(p) \/ Acertar(p)
                       \/ \E u \in Identidades : DesalojarBloqueo(u)
                       \/ Latir \/ Reiniciar
    BY DEF Next, vars, ConsultarTodo, Despertar, Abandonar, Refrescar, Desalojar
  <1> QED
    BY <1>1, <1>2, <1>3, <1>4, <1>5

\* A lock in force ends early only by an eviction, a restart or the success of a
\* request that was let in before it was set.
THEOREM BloqueoSeguro == Spec => BloqueoCedeAnteLoPrevio
  <1>1. IInv /\ IInv' /\ [Next]_vars => [PasoDeBloqueo]_vars
    BY CadaPaso
  <1>2. Spec => [][PasoDeBloqueo]_vars
    BY <1>1, Paso, Invariante, PTL DEF Spec
  <1> QED
    BY <1>2 DEF BloqueoCedeAnteLoPrevio, PasoDeBloqueo
-----------------------------------------------------------------------------
(* How long a lock can last.  While it holds nothing is let in, and what    *)
(* extends it closes a request that was open: the requests still open, each *)
(* with the lock it may set, and the lock in force add up to a time that    *)
(* only runs down.                                                          *)

Pendientes(u) == {p \in Peticiones : Abierta(p) /\ peticion[p].id = u}
Restante(u) == Cardinality(Pendientes(u)) * DuracionBloqueo + bloqueo[u]

LEMMA PendientesDe ==
    ASSUME IInv, NEW u \in Identidades
    PROVE  /\ IsFiniteSet(Pendientes(u)) /\ Cardinality(Pendientes(u)) \in Nat
           /\ Cardinality(Pendientes(u)) <= Cardinality(Peticiones)
           /\ bloqueo[u] \in 0 .. DuracionBloqueo
  <1>1. Pendientes(u) \subseteq Peticiones
    BY DEF Pendientes
  <1> QED
    BY <1>1, LimitesAssumption, FS_Subset, FS_CardinalityType DEF IInv, Bloqueos, TypeOK

LEMMA Productos ==
    ASSUME NEW d \in Nat, NEW m \in Nat, NEW n \in Nat
    PROVE  /\ m * d \in Nat
           /\ m <= n => m * d <= n * d
           /\ m + 1 <= n => m * d + d <= n * d
  <1>1. m * d \in Nat
    OBVIOUS
  <1>2. m <= n => m * d <= n * d
    <2> SUFFICES ASSUME m <= n PROVE m * d <= n * d
      OBVIOUS
    <2>1. n - m \in Nat /\ n = m + (n - m)
      OBVIOUS
    <2>2. n * d = m * d + (n - m) * d /\ (n - m) * d >= 0
      BY <2>1
    <2> QED
      BY <2>2
  <1>3. m + 1 <= n => m * d + d <= n * d
    <2> SUFFICES ASSUME m + 1 <= n PROVE m * d + d <= n * d
      OBVIOUS
    <2>1. n - m - 1 \in Nat
      OBVIOUS
    <2>2. n * d = m * d + d + (n - m - 1) * d /\ (n - m - 1) * d >= 0
      BY <2>1
    <2> QED
      BY <2>2
  <1> QED
    BY <1>1, <1>2, <1>3

\* A step that leaves an account locked lets nothing in for it; if the lock gets longer,
\* the step closes one of its requests.
LEMMA BajoBloqueo ==
    ASSUME IInv, [Next]_vars, NEW u \in Identidades, bloqueo[u] > 0, bloqueo'[u] > 0
    PROVE  /\ Pendientes(u)' \subseteq Pendientes(u)
           /\ bloqueo'[u] <= bloqueo[u] \/ Pendientes(u)' # Pendientes(u)
           /\ bloqueo'[u] \in 0 .. DuracionBloqueo
  <1>1. /\ bloqueo \in [Identidades -> 0 .. DuracionBloqueo]
        /\ bloqueo' \in [Identidades -> 0 .. DuracionBloqueo]
        /\ bloqueo[u] \in Nat /\ DuracionBloqueo \in Nat
        /\ DOMAIN peticion = Peticiones
    BY PasoDeBloqueos, LimitesAssumption DEF IInv, Bloqueos, TypeOK
  <1>2. CASE UNCHANGED <<bloqueo, peticion>>
    BY <1>1, <1>2 DEF Pendientes, Abierta
  <1>3. ASSUME NEW p \in Peticiones, NEW f \in Flujos, NEW i \in Ips, NEW w \in Identidades,
               ConsultarTodo(p, f, i, w)
        PROVE  Pendientes(u)' \subseteq Pendientes(u) /\ UNCHANGED bloqueo
    <2>1. w # u
      BY <1>1, <1>3 DEF ConsultarTodo, Admite, IsAccountLocked
    <2>2. \A q \in Peticiones : q # p => peticion'[q] = peticion[q]
      BY <1>1, <1>3 DEF ConsultarTodo
    <2>3. peticion'[p].id = w
      BY <1>1, <1>3 DEF ConsultarTodo
    <2> QED
      BY <1>3, <2>1, <2>2, <2>3 DEF Pendientes, Abierta, ConsultarTodo
  <1>4. ASSUME NEW p \in Peticiones, Despertar(p)
        PROVE  Pendientes(u)' \subseteq Pendientes(u) /\ UNCHANGED bloqueo
    <2>1. peticion' = [peticion EXCEPT ![p].fase = "verificando"] /\ Abierta(p)
      BY <1>4 DEF Despertar
    <2>2. peticion'[p].id = peticion[p].id
      BY <1>1, <2>1, TipoAbierta DEF IInv, Bloqueos, Abiertas
    <2> QED
      BY <1>1, <1>4, <2>1, <2>2 DEF Pendientes, Abierta, Despertar
  <1>5. ASSUME NEW p \in Peticiones, Fallar(p) \/ Acertar(p) \/ Abandonar(p)
        PROVE  /\ Pendientes(u)' \subseteq Pendientes(u)
               /\ bloqueo'[u] # bloqueo[u] => Pendientes(u)' # Pendientes(u)
    <2>1. peticion' = [peticion EXCEPT ![p] = Libre] /\ Abierta(p)
      BY <1>5 DEF Fallar, Acertar, Abandonar, Verificada
    <2>2. Pendientes(u)' = Pendientes(u) \ {p}
      BY <1>1, <2>1 DEF Pendientes, Abierta
    <2>3. bloqueo'[u] # bloqueo[u] => peticion[p].id = u
      BY <1>1, <1>5 DEF Fallar, Acertar, Abandonar
    <2>4. bloqueo'[u] # bloqueo[u] => p \in Pendientes(u)
      BY <2>1, <2>3 DEF Pendientes
    <2> QED
      BY <2>2, <2>4
  <1>6. ASSUME NEW w \in Identidades, DesalojarBloqueo(w)
        PROVE  UNCHANGED <<bloqueo[u], peticion>>
    BY <1>1, <1>6 DEF DesalojarBloqueo
  <1>7. ~ Reiniciar
    BY DEF Reiniciar
  <1>8. CASE Latir
    <2>1. ASSUME NEW p \in Peticiones
          PROVE  /\ peticion'[p] # Libre => Abierta(p)
                 /\ Abierta(p) => peticion'[p].id = peticion[p].id
      BY <1>8, <2>1, TipoAbierta DEF Latir, IInv, Bloqueos, Abiertas
    <2> QED
      BY <1>1, <1>8, <2>1 DEF Pendientes, Abierta, Latir
  <1>9. [Next]_vars =>
            \/ UNCHANGED <<bloqueo, peticion>>
            \/ \E p \in Peticiones, f \in Flujos, i \in Ips, w \in Identidades :
                    ConsultarTodo(p, f, i, w)
            \/ \E p \in Peticiones : Despertar(p) \/ Fallar(p) \/ Acertar(p) \/ Abandonar(p)
            \/ \E w \in Identidades : DesalojarBloqueo(w)
            \/ Reiniciar \/ Latir
    BY DEF Next, vars, Refrescar, Desalojar
  <1>10. bloqueo'[u] \in 0 .. DuracionBloqueo
    BY <1>1
  <1> QED
    BY <1>1, <1>2, <1>3, <1>4, <1>5, <1>6, <1>7, <1>8, <1>9, <1>10 DEF Pendientes, Abierta

\* What is left runs down.
SeAgota ==
    \A u \in Identidades : bloqueo[u] > 0 /\ bloqueo'[u] > 0 =>
        /\ Restante(u)' <= Restante(u)
        /\ Latir => Restante(u)' < Restante(u)

LEMMA PasoSeAgota ==
    ASSUME IInv, [Next]_vars
    PROVE  SeAgota
  <1> SUFFICES ASSUME NEW u \in Identidades, bloqueo[u] > 0, bloqueo'[u] > 0
               PROVE  /\ Restante(u)' <= Restante(u)
                      /\ Latir => Restante(u)' < Restante(u)
    BY DEF SeAgota
  <1> DEFINE m == Cardinality(Pendientes(u)')
             n == Cardinality(Pendientes(u))
             d == DuracionBloqueo
  <1>1. /\ IsFiniteSet(Pendientes(u)) /\ n \in Nat
        /\ bloqueo[u] \in 0 .. d /\ bloqueo'[u] \in 0 .. d /\ d \in Nat
    BY PendientesDe, BajoBloqueo, LimitesAssumption
  <1>2. /\ m \in Nat /\ m <= n
        /\ Pendientes(u)' # Pendientes(u) => m + 1 <= n
    <2>1. Pendientes(u)' \subseteq Pendientes(u)
      BY BajoBloqueo
    <2>2. /\ IsFiniteSet(Pendientes(u)') /\ m \in Nat /\ m <= n
          /\ n = m => Pendientes(u)' = Pendientes(u)
      BY <1>1, <2>1, FS_Subset, FS_CardinalityType
    <2> QED
      BY <1>1, <2>2
  <1>3. /\ m * d \in Nat /\ n * d \in Nat /\ m * d <= n * d
        /\ m + 1 <= n => m * d + d <= n * d
    BY <1>1, <1>2, Productos
  <1>4. bloqueo'[u] <= bloqueo[u] \/ m + 1 <= n
    BY <1>2, BajoBloqueo
  <1>5. Latir => bloqueo'[u] < bloqueo[u]
    BY <1>1 DEF Latir
  <1>6. Restante(u) = n * d + bloqueo[u] /\ Restante(u)' = m * d + bloqueo'[u]
    BY DEF Restante
  <1> HIDE DEF m, n, d
  <1> QED
    BY <1>1, <1>3, <1>4, <1>5, <1>6

\* The time that a lock can still last is at most a duration for itself and one for each
\* request that can be open; while the lock holds, no step makes it longer, whatever
\* fails in the meantime, and each tick makes it shorter.  With a clock that does not
\* stop this is BloqueoTermina, with a bound.
THEOREM BloqueoSeAgota ==
    Spec => /\ [](\A u \in Identidades :
                    Restante(u) <= (Cardinality(Peticiones) + 1) * DuracionBloqueo)
            /\ [][SeAgota]_vars
  <1>1. IInv => \A u \in Identidades :
                    Restante(u) <= (Cardinality(Peticiones) + 1) * DuracionBloqueo
    <2> SUFFICES ASSUME IInv, NEW u \in Identidades
                 PROVE  Restante(u) <= (Cardinality(Peticiones) + 1) * DuracionBloqueo
      OBVIOUS
    <2> DEFINE n == Cardinality(Pendientes(u))
               t == Cardinality(Peticiones)
               d == DuracionBloqueo
    <2>1. /\ n \in Nat /\ t \in Nat /\ n <= t /\ d \in Nat /\ bloqueo[u] \in 0 .. d
      BY PendientesDe, Topes, LimitesAssumption
    <2>2. n * d \in Nat /\ n * d + d <= (t + 1) * d
      BY <2>1, Productos, n + 1 <= t + 1, t + 1 \in Nat
    <2>3. Restante(u) = n * d + bloqueo[u]
      BY DEF Restante
    <2> HIDE DEF n, t, d
    <2>4. n * d + bloqueo[u] <= (t + 1) * d
      BY <2>1, <2>2
    <2> QED
      BY <2>3, <2>4 DEF t, d
  <1>2. IInv /\ [Next]_vars => [SeAgota]_vars
    BY PasoSeAgota
  <1> QED
    BY <1>1, <1>2, Invariante, PTL DEF Spec
=============================================================================

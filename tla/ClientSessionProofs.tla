------------------------ MODULE ClientSessionProofs ------------------------
(***************************************************************************)
(* What the client of ClientSession keeps, for any requests and calls.     *)
(*                                                                         *)
(* The storage answers in order, so what a flow reads from it is stale     *)
(* only by what was called before its answer: that every flow is at most   *)
(* once in the queue, and which is before which, is what the rest needs.   *)
(* The last sections follow each token to the places that may hold a copy  *)
(* of it: the wire, the storage and a login that is half done (Copias);    *)
(* and say whose login it is of (Propias).                                 *)
(***************************************************************************)
EXTENDS ClientSession, FiniteSetTheorems, TLAPS

Tabla == INSTANCE RefreshSessionsProofs WITH Solicitudes <- Envios

-----------------------------------------------------------------------------
(* The server: whatever the client does, it takes the steps of its own      *)
(* specification.                                                           *)

LEMMA MismasAcciones ==
    /\ Servidor!Init <=> Tabla!Init
    /\ Servidor!Next <=> Tabla!Next
    /\ UNCHANGED Servidor!vars <=> UNCHANGED Tabla!vars
  <1>1. Servidor!Init <=> Tabla!Init
    BY DEF Servidor!Init, Tabla!Init, Servidor!Sesiones, Tabla!Sesiones,
       Servidor!Libre, Tabla!Libre
  <1>2. UNCHANGED Servidor!vars <=> UNCHANGED Tabla!vars
    BY DEF Servidor!vars, Tabla!vars, Servidor!tabla, Tabla!tabla
  <1>3. Servidor!Login <=> Tabla!Login
    BY DEF Servidor!Login, Tabla!Login, Servidor!Emitir, Tabla!Emitir,
       Servidor!Emitidas, Tabla!Emitidas, Servidor!Cardinality, Tabla!Cardinality
  <1>4. ASSUME NEW s
        PROVE  /\ Servidor!CerrarSesion(s) <=> Tabla!CerrarSesion(s)
               /\ Servidor!Vencer(s) <=> Tabla!Vencer(s)
    BY DEF Servidor!CerrarSesion, Tabla!CerrarSesion, Servidor!Vencer, Tabla!Vencer,
       Servidor!RevocarFamilia, Tabla!RevocarFamilia, Servidor!DeFamilia, Tabla!DeFamilia,
       Servidor!Sesiones, Tabla!Sesiones, Servidor!Emitidas, Tabla!Emitidas
  <1>5. ASSUME NEW r, NEW s
        PROVE  /\ Servidor!LeerSesion(r, s) <=> Tabla!LeerSesion(r, s)
               /\ Servidor!FallarPorVencida(r, s) <=> Tabla!FallarPorVencida(r, s)
    BY DEF Servidor!LeerSesion, Tabla!LeerSesion, Servidor!FallarPorVencida,
       Tabla!FallarPorVencida, Servidor!Responder, Tabla!Responder,
       Servidor!Libre, Tabla!Libre, Servidor!tabla, Tabla!tabla
  <1>6. ASSUME NEW r
        PROVE  /\ Servidor!RevocarPorReuso(r) <=> Tabla!RevocarPorReuso(r)
               /\ Servidor!ConfirmarRotacion(r) <=> Tabla!ConfirmarRotacion(r)
    BY DEF Servidor!RevocarPorReuso, Tabla!RevocarPorReuso, Servidor!ConfirmarRotacion,
       Tabla!ConfirmarRotacion, Servidor!RevocarFamilia, Tabla!RevocarFamilia,
       Servidor!DeFamilia, Tabla!DeFamilia, Servidor!Sesiones, Tabla!Sesiones,
       Servidor!Emitidas, Tabla!Emitidas, Servidor!Emitir, Tabla!Emitir,
       Servidor!Responder, Tabla!Responder, Servidor!Libre, Tabla!Libre
  <1>7. ASSUME NEW r
        PROVE  /\ Servidor!RechazarInactivo(r) <=> Tabla!RechazarInactivo(r)
               /\ Servidor!RechazarToken(r) <=> Tabla!RechazarToken(r)
               /\ Servidor!Abandonar(r) <=> Tabla!Abandonar(r)
    BY DEF Servidor!RechazarInactivo, Tabla!RechazarInactivo, Servidor!RechazarToken,
       Tabla!RechazarToken, Servidor!Abandonar, Tabla!Abandonar,
       Servidor!Responder, Tabla!Responder, Servidor!Libre, Tabla!Libre,
       Servidor!tabla, Tabla!tabla
  <1>8. Servidor!DesactivarUsuario <=> Tabla!DesactivarUsuario
    BY DEF Servidor!DesactivarUsuario, Tabla!DesactivarUsuario, Servidor!tabla, Tabla!tabla
  <1>9. Servidor!Next <=> Tabla!Next
    BY <1>3, <1>4, <1>5, <1>6, <1>7, <1>8
    DEF Servidor!Next, Tabla!Next, Servidor!Emitidas, Tabla!Emitidas
  <1> QED
    BY <1>1, <1>2, <1>9

\* What the storage, a flight, a login and a call on the wire may hold when n rows have
\* been inserted: every token is that of a row.
Guardadas(n) == {Vacio} \union [perfil : 1 .. n, ses : 1 .. n]
Vuelos(n) ==
    {v \in [fase : {"libre", "buscar", "esperar", "leer", "escribir"},
            ses : 0 .. n, leida : Guardadas(n)] :
        v.fase \in {"esperar", "leer", "escribir"} => v.ses # 0}
Entradas(n) ==
    {x \in [fase : {"libre", "respuesta", "limpiar", "escribir"}, ses : 0 .. n] :
        x.fase # "libre" => x.ses # 0}
Llamadas(n) ==
    {x \in [fase : {"libre", "camino", "servidor", "vuelta"}, ses : 0 .. n,
            esperado : BOOLEAN] : x.fase = "camino" => x.ses # 0}

Fases == {"libre", "enviada", "espera", "reintento", "borrar", "expirar"}

Tipos ==
    /\ envio \in [Envios -> Llamadas(emitidas)]
    /\ cierre \in 0 .. emitidas /\ cache \in 0 .. emitidas /\ pantalla \in 0 .. emitidas
    /\ almacen \in Guardadas(emitidas)
    /\ peticion \in [Peticiones -> Fases]
    /\ vuelo \in Vuelos(emitidas)
    /\ entrada \in Entradas(emitidas)
    /\ salida \in {"libre", "esperar", "borrar"}
    /\ perdidas \subseteq 0 .. emitidas

LEMMA PasoDelServidor ==
    ASSUME Tipos, emitidas \in Nat, [Next]_vars
    PROVE  [Servidor!Next]_(Servidor!vars)
  <1>1. ASSUME UNCHANGED servidor
        PROVE  UNCHANGED Servidor!vars
    BY <1>1 DEF servidor, Servidor!vars, Servidor!tabla
  <1>2. ASSUME NEW e \in Envios, LlegarRefresco(e) \/ AtenderRefresco(e)
        PROVE  Servidor!Next
    <2>1. LlegarRefresco(e) => envio[e].ses \in Servidor!Emitidas
      BY DEF Tipos, Llamadas, LlegarRefresco, Servidor!Emitidas
    <2> QED
      BY <1>2, <2>1 DEF LlegarRefresco, AtenderRefresco, Servidor!Next
  <1>3. ASSUME LlegarCierre
        PROVE  [Servidor!Next]_(Servidor!vars)
    <2>1. cierre \in Servidor!Emitidas
      BY <1>3 DEF Tipos, LlegarCierre, Servidor!Emitidas
    <2> QED
      BY <1>1, <1>3, <2>1 DEF LlegarCierre, Servidor!Next
  <1>4. ASSUME Entrar
        PROVE  Servidor!Next
    BY <1>4 DEF Entrar, Servidor!Next
  <1>5. ASSUME UNCHANGED vars
        PROVE  UNCHANGED servidor
    BY <1>5 DEF vars
  <1>6. ASSUME NEW p \in Peticiones,
               \/ Enviar(p) \/ Contestada(p)
               \/ CompartirRefresco(p) \/ IniciarRefresco(p) \/ PedirToken(p)
               \/ BorrarSesion(p) \/ ExpirarSesion(p)
        PROVE  UNCHANGED servidor
    BY <1>6 DEF Enviar, Contestada, CompartirRefresco, IniciarRefresco, PedirToken,
       BorrarSesion, ExpirarSesion
  <1>7. ASSUME \/ BuscarToken \/ VencerRefresco \/ LeerSesion \/ GuardarTokens
               \/ PerderEntrada \/ RecibirEntrada \/ GuardarEntrada \/ MostrarEntrada
               \/ Salir \/ RecibirCierre \/ TerminarSalida \/ Recargar
        PROVE  UNCHANGED servidor
    BY <1>7 DEF BuscarToken, VencerRefresco, LeerSesion, GuardarTokens, PerderEntrada,
       RecibirEntrada, GuardarEntrada, MostrarEntrada, Salir, RecibirCierre,
       TerminarSalida, Recargar
  <1>8. ASSUME NEW e \in Envios, RecibirTokens(e) \/ RecibirRechazo(e) \/ Perder(e)
        PROVE  UNCHANGED servidor
    BY <1>8 DEF RecibirTokens, RecibirRechazo, Perder
  <1> QED
    BY <1>1, <1>2, <1>3, <1>4, <1>5, <1>6, <1>7, <1>8 DEF Next

\* Rows are only added, and keep their family.
Crece ==
    /\ emitidas \in Nat /\ emitidas' \in Nat /\ emitidas <= emitidas'
    /\ \A s \in 1 .. emitidas : familia[s] \in 1 .. emitidas /\ familia'[s] = familia[s]

LEMMA FilasQuedan ==
    ASSUME Tabla!IInv, Tipos, [Next]_vars
    PROVE  Tabla!IInv' /\ Crece
  <1>1. emitidas \in Nat /\ emitidas <= MaxSesiones
    BY ClienteAssumption DEF Tabla!IInv, Tabla!TypeOK
  <1>2. [Tabla!Next]_(Tabla!vars)
    BY <1>1, PasoDelServidor, MismasAcciones
  <1>3. Tabla!CotasAssumption
    BY ClienteAssumption DEF Tabla!CotasAssumption, Tabla!IsFiniteSet, IsFiniteSet
  <1>4. Tabla!IInv'
    BY <1>2, <1>3, Tabla!NextIInv
  <1>5. emitidas' \in Nat
    BY <1>4, ClienteAssumption DEF Tabla!IInv, Tabla!TypeOK
  <1>6. \A s \in 1 .. emitidas : familia[s] \in 1 .. emitidas
    BY DEF Tabla!IInv, Tabla!TablaCoherente, Tabla!Emitidas
  <1>7. \/ UNCHANGED <<emitidas, familia>>
        \/ \E f, p : Tabla!Emitir(f, p)
    BY <1>2 DEF Tabla!vars, Tabla!tabla, Tabla!Next, Tabla!Login, Tabla!DesactivarUsuario,
       Tabla!CerrarSesion, Tabla!Vencer, Tabla!LeerSesion, Tabla!FallarPorVencida,
       Tabla!RevocarPorReuso, Tabla!ConfirmarRotacion, Tabla!RechazarInactivo,
       Tabla!RechazarToken, Tabla!Abandonar
  <1>8. emitidas <= emitidas' /\ \A s \in 1 .. emitidas : familia'[s] = familia[s]
    <2>1. familia \in [1 .. MaxSesiones -> 0 .. MaxSesiones]
      BY DEF Tabla!IInv, Tabla!TypeOK, Tabla!Sesiones
    <2> QED
      BY <1>1, <1>7, <2>1, ClienteAssumption DEF Tabla!Emitir
  <1> QED
    BY <1>1, <1>4, <1>5, <1>6, <1>8 DEF Crece

-----------------------------------------------------------------------------
(* The queue of the storage.                                                *)

En(x, s) == \E i \in 1 .. Len(s) : s[i] = x
Antes(x, y, s) == \E i, j \in 1 .. Len(s) : i < j /\ s[i] = x /\ s[j] = y
SinRepetir(s) == \A i, j \in 1 .. Len(s) : s[i] = s[j] => i = j

LEMMA AlFinal ==
    ASSUME NEW S, NEW s \in Seq(S), NEW f \in S, SinRepetir(s), ~ En(f, s)
    PROVE  /\ Append(s, f) \in Seq(S) /\ SinRepetir(Append(s, f))
           /\ \A x : En(x, Append(s, f)) <=> En(x, s) \/ x = f
           /\ \A x, y : Antes(x, y, Append(s, f)) <=> Antes(x, y, s) \/ (En(x, s) /\ y = f)
  <1> DEFINE t == Append(s, f)
             n == Len(s)
  <1>1. /\ t \in Seq(S) /\ Len(t) = n + 1 /\ n \in Nat /\ t[n + 1] = f
        /\ \A i \in 1 .. n : t[i] = s[i]
    OBVIOUS
  <1>2. \A i \in 1 .. Len(t) : i \in 1 .. n \/ i = n + 1
    BY <1>1
  <1> HIDE DEF t
  <1>3. SinRepetir(t)
    BY <1>1, <1>2 DEF SinRepetir, En
  <1>4. \A x : En(x, t) <=> En(x, s) \/ x = f
    BY <1>1, <1>2 DEF En
  <1>5. ASSUME NEW x, NEW y
        PROVE  Antes(x, y, t) <=> Antes(x, y, s) \/ (En(x, s) /\ y = f)
    BY <1>1, <1>2 DEF Antes, En
  <1> QED
    BY <1>1, <1>3, <1>4, <1>5 DEF t

LEMMA DelPrincipio ==
    ASSUME NEW S, NEW s \in Seq(S), SinRepetir(s), s # <<>>
    PROVE  /\ Head(s) \in S /\ En(Head(s), s)
           /\ Tail(s) \in Seq(S) /\ SinRepetir(Tail(s))
           /\ \A x : En(x, Tail(s)) <=> En(x, s) /\ x # Head(s)
           /\ \A x, y : Antes(x, y, Tail(s)) <=> Antes(x, y, s) /\ x # Head(s)
           /\ \A x : ~ Antes(x, Head(s), s)
           /\ \A x : En(x, s) /\ x # Head(s) => Antes(Head(s), x, s)
  <1> DEFINE t == Tail(s)
             n == Len(s)
  <1>1. /\ t \in Seq(S) /\ n \in Nat \ {0} /\ Len(t) = n - 1 /\ Head(s) = s[1] /\ s[1] \in S
        /\ \A i \in 1 .. n - 1 : t[i] = s[i + 1]
    OBVIOUS
  <1>2. \A i \in 1 .. n : i = 1 \/ (i - 1 \in 1 .. n - 1 /\ t[i - 1] = s[i])
    BY <1>1
  <1>3. \A i \in 1 .. n - 1 : i + 1 \in 1 .. n
    BY <1>1
  <1> HIDE DEF t
  <1>4. SinRepetir(t)
    BY <1>1, <1>3 DEF SinRepetir
  <1>5. \A x : En(x, t) <=> En(x, s) /\ x # s[1]
    <2>1. ASSUME NEW x, En(x, t)
          PROVE  En(x, s) /\ x # s[1]
      <3>1. PICK i \in 1 .. n - 1 : t[i] = x
        BY <1>1, <2>1 DEF En
      <3>2. i + 1 \in 1 .. n /\ s[i + 1] = x /\ i + 1 # 1 /\ 1 \in 1 .. n
        BY <1>1, <1>3, <3>1
      <3> QED
        BY <3>2 DEF SinRepetir, En
    <2>2. ASSUME NEW x, En(x, s), x # s[1]
          PROVE  En(x, t)
      BY <1>1, <1>2, <2>2 DEF En
    <2> QED
      BY <2>1, <2>2
  <1>6. \A x, y : Antes(x, y, t) <=> Antes(x, y, s) /\ x # s[1]
    <2>1. ASSUME NEW x, NEW y, Antes(x, y, t)
          PROVE  Antes(x, y, s) /\ x # s[1]
      <3>1. PICK i \in 1 .. n - 1, j \in 1 .. n - 1 : i < j /\ t[i] = x /\ t[j] = y
        BY <1>1, <2>1 DEF Antes
      <3>2. /\ i + 1 \in 1 .. n /\ j + 1 \in 1 .. n /\ i + 1 < j + 1
            /\ s[i + 1] = x /\ s[j + 1] = y /\ i + 1 # 1 /\ 1 \in 1 .. n
        BY <1>1, <1>3, <3>1
      <3> QED
        BY <3>2 DEF SinRepetir, Antes
    <2>2. ASSUME NEW x, NEW y, Antes(x, y, s), x # s[1]
          PROVE  Antes(x, y, t)
      <3>1. PICK i \in 1 .. n, j \in 1 .. n : i < j /\ s[i] = x /\ s[j] = y
        BY <2>2 DEF Antes
      <3>2. /\ i - 1 \in 1 .. n - 1 /\ j - 1 \in 1 .. n - 1 /\ i - 1 < j - 1
            /\ t[i - 1] = x /\ t[j - 1] = y
        BY <1>1, <1>2, <2>2, <3>1
      <3> QED
        BY <1>1, <3>2 DEF Antes
    <2> QED
      BY <2>1, <2>2
  <1>7. \A x : ~ Antes(x, s[1], s)
    BY <1>1 DEF Antes, SinRepetir
  <1>8. \A x : En(x, s) /\ x # s[1] => Antes(s[1], x, s)
    <2>1. 1 \in 1 .. n /\ \A i \in 1 .. n : i # 1 => 1 < i
      BY <1>1
    <2> QED
      BY <2>1 DEF Antes, En
  <1>9. En(s[1], s)
    BY <1>1 DEF En
  <1> QED
    BY <1>1, <1>4, <1>5, <1>6, <1>7, <1>8, <1>9 DEF t

LEMMA DePeticiones ==
    ASSUME NEW T, IsFiniteSet(T)
    PROVE  /\ SetToSeq(T) \in Seq(T) /\ SinRepetir(SetToSeq(T))
           /\ \A x : En(x, SetToSeq(T)) <=> x \in T
  <1> DEFINE n == Cardinality(T)
             t == SetToSeq(T)
  <1>1. n \in Nat /\ ExistsBijection(1 .. n, T)
    BY FS_CardinalityType
  <1>2. \E f \in [1 .. n -> T] : IsInjective(f)
    BY <1>1 DEF ExistsBijection, Bijection, Injection
  <1>3. t \in [1 .. n -> T] /\ IsInjective(t)
    BY <1>2 DEF SetToSeq
  <1> HIDE DEF t
  <1>4. t \in Seq(T) /\ Len(t) = n
    BY <1>1, <1>3
  <1>5. SinRepetir(t)
    BY <1>3, <1>4 DEF SinRepetir, IsInjective
  <1>6. t \in Surjection(1 .. n, T)
    <2>1. t \in Injection(1 .. n, T)
      BY <1>3 DEF Injection
    <2>2. Cardinality(1 .. n) = n
      BY <1>1, FS_Interval
    <2> QED
      BY <2>1, <2>2, FS_Injection
  <1>7. \A x : En(x, t) <=> x \in T
    BY <1>3, <1>4, <1>6 DEF En, Surjection
  <1> QED
    BY <1>4, <1>5, <1>7 DEF t

LEMMA Juntas ==
    ASSUME NEW S, NEW s \in Seq(S), NEW t \in Seq(S), SinRepetir(s), SinRepetir(t),
           \A x : ~ (En(x, s) /\ En(x, t))
    PROVE  /\ s \o t \in Seq(S) /\ SinRepetir(s \o t)
           /\ \A x : En(x, s \o t) <=> En(x, s) \/ En(x, t)
           /\ \A x, y : En(x, s) /\ En(y, t) => Antes(x, y, s \o t)
  <1> DEFINE u == s \o t
             n == Len(s)
             m == Len(t)
  <1>1. /\ u \in Seq(S) /\ n \in Nat /\ m \in Nat /\ Len(u) = n + m
        /\ \A i \in 1 .. n : u[i] = s[i]
        /\ \A i \in n + 1 .. n + m : u[i] = t[i - n]
    OBVIOUS
  <1>2. \A i \in 1 .. n + m : i \in 1 .. n \/ (i \in n + 1 .. n + m /\ i - n \in 1 .. m)
    BY <1>1
  <1>3. \A j \in 1 .. m : n + j \in n + 1 .. n + m /\ n + j \in 1 .. n + m /\ (n + j) - n = j
    BY <1>1
  <1>4. \A i \in 1 .. n : i \in 1 .. n + m
    BY <1>1
  <1> HIDE DEF u
  <1>5. ASSUME NEW x
        PROVE  En(x, u) <=> En(x, s) \/ En(x, t)
    <2>1. En(x, u) => En(x, s) \/ En(x, t)
      BY <1>1, <1>2 DEF En
    <2>2. En(x, s) => En(x, u)
      BY <1>1, <1>4 DEF En
    <2>3. ASSUME NEW j \in 1 .. m, t[j] = x
          PROVE  En(x, u)
      <3>1. u[n + j] = x
        BY <1>1, <1>3, <2>3
      <3> QED
        BY <1>1, <1>3, <3>1 DEF En
    <2> QED
      BY <2>1, <2>2, <2>3 DEF En
  <1>6. ASSUME NEW x, NEW y, En(x, s), En(y, t)
        PROVE  Antes(x, y, u)
    <2>1. PICK i \in 1 .. n : s[i] = x
      BY <1>6 DEF En
    <2>2. PICK j \in 1 .. m : t[j] = y
      BY <1>6 DEF En
    <2>3. i < n + j /\ u[i] = x /\ u[n + j] = y
      BY <1>1, <1>3, <2>1, <2>2
    <2> QED
      BY <1>1, <1>3, <1>4, <2>3 DEF Antes
  <1>7. ASSUME NEW i \in 1 .. n + m, NEW j \in 1 .. n + m, u[i] = u[j]
        PROVE  i = j
    <2>1. CASE i \in 1 .. n /\ j \in 1 .. n
      BY <1>1, <1>7, <2>1 DEF SinRepetir
    <2>2. CASE i \notin 1 .. n /\ j \notin 1 .. n
      <3>1. t[i - n] = t[j - n] /\ i - n \in 1 .. m /\ j - n \in 1 .. m
        BY <1>1, <1>2, <1>7, <2>2
      <3>2. i - n = j - n
        BY <3>1 DEF SinRepetir
      <3> QED
        BY <1>1, <3>2
    <2>3. ~ (i \in 1 .. n /\ j \notin 1 .. n)
      BY <1>1, <1>2, <1>7 DEF En
    <2>4. ~ (i \notin 1 .. n /\ j \in 1 .. n)
      BY <1>1, <1>2, <1>7 DEF En
    <2> QED
      BY <2>1, <2>2, <2>3, <2>4
  <1>8. SinRepetir(u)
    BY <1>1, <1>7 DEF SinRepetir
  <1> QED
    BY <1>1, <1>5, <1>6, <1>8 DEF u

-----------------------------------------------------------------------------
(* The client.                                                              *)

Flujos == {"vuelo", "entrada", "salida"} \union Peticiones

\* A flow that will take the screen to the login page when the storage answers.
Pendiente(f) ==
    \/ f = "salida" /\ salida = "borrar"
    \/ f \in Peticiones /\ peticion[f] \in {"borrar", "expirar"}

Llama(f) ==
    \/ f = "vuelo" /\ vuelo.fase \in {"buscar", "leer", "escribir"}
    \/ f = "entrada" /\ entrada.fase \in {"limpiar", "escribir"}
    \/ Pendiente(f)

\* The flows that wait for the storage are in the queue, once each.
EnCola ==
    /\ cola \in Seq(Flujos) /\ SinRepetir(cola)
    /\ \A f \in Flujos : En(f, cola) <=> Llama(f)

\* One answer of the server is waited for at most, by the flight, and a request by that.
Esperado ==
    /\ \A e \in Envios : envio[e].esperado => vuelo.fase = "esperar"
    /\ \A d, e \in Envios : envio[d].esperado /\ envio[e].esperado => d = e
    /\ vuelo.fase # "libre" => \E p \in Peticiones : peticion[p] = "espera"

\* The session will be cleared; it will be after the login is shown.
Limpia == \E f \in Flujos : Pendiente(f)
TrasEntrada == \E f \in Flujos : Pendiente(f) /\ Antes("entrada", f, cola)

DeEntrada(perfil) == TrasEntrada \/ perfil = familia[entrada.ses]
DePantalla(perfil) == Limpia \/ perfil = pantalla

\* The profile in the storage, and the one that a flight has read and will write, are
\* those of the login, unless they are about to be cleared.
Perfiles ==
    /\ entrada.fase # "libre" => pantalla = 0
    /\ pantalla # 0 => DePantalla(almacen.perfil)
    /\ entrada.fase = "escribir" => DeEntrada(almacen.perfil)
    /\ entrada.fase = "limpiar" =>
            almacen = Vacio \/ (vuelo.fase = "escribir" /\ Antes("entrada", "vuelo", cola))
    /\ vuelo.fase = "leer" /\ vuelo.leida # Vacio =>
            /\ pantalla # 0 => DePantalla(vuelo.leida.perfil)
            /\ entrada.fase = "escribir" => DeEntrada(vuelo.leida.perfil)
            /\ ~ (entrada.fase = "limpiar" /\ Antes("entrada", "vuelo", cola))

\* Memory holds other tokens than the storage only while a refresh is half done.
Memoria == vuelo.fase \in {"esperar", "leer"} \/ cache \in {0, almacen.ses}

Cliente == Tipos /\ EnCola /\ Esperado /\ Perfiles /\ Memoria
IInv == Tabla!IInv /\ Cliente

LEMMA Distintos ==
    /\ "vuelo" \in Flujos /\ "entrada" \in Flujos /\ "salida" \in Flujos
    /\ \A p \in Peticiones : p \in Flujos /\ p # "vuelo" /\ p # "entrada" /\ p # "salida"
  BY ClienteAssumption DEF Flujos

\* What is typed stays so when rows are added.
LEMMA TiposCrecen ==
    ASSUME Tipos, Crece
    PROVE  /\ Guardadas(emitidas) \subseteq Guardadas(emitidas')
           /\ Vuelos(emitidas) \subseteq Vuelos(emitidas')
           /\ Entradas(emitidas) \subseteq Entradas(emitidas')
           /\ Llamadas(emitidas) \subseteq Llamadas(emitidas')
           /\ 0 .. emitidas \subseteq 0 .. emitidas'
           /\ envio \in [Envios -> Llamadas(emitidas')]
           /\ Vacio \in Guardadas(emitidas') /\ EnTierra \in Vuelos(emitidas')
           /\ SinEntrada \in Entradas(emitidas') /\ SinEnvio \in Llamadas(emitidas')
  <1>1. 0 .. emitidas \subseteq 0 .. emitidas' /\ 1 .. emitidas \subseteq 1 .. emitidas'
    BY DEF Crece
  <1>2. Guardadas(emitidas) \subseteq Guardadas(emitidas') /\ Vacio \in Guardadas(emitidas')
    BY <1>1 DEF Guardadas
  <1>3. Vuelos(emitidas) \subseteq Vuelos(emitidas')
    BY <1>1, <1>2 DEF Vuelos
  <1>4. Entradas(emitidas) \subseteq Entradas(emitidas')
    BY <1>1 DEF Entradas
  <1>5. Llamadas(emitidas) \subseteq Llamadas(emitidas')
    BY <1>1 DEF Llamadas
  <1>6. EnTierra \in Vuelos(emitidas')
    BY <1>1, <1>2 DEF Vuelos, EnTierra, Crece
  <1>7. SinEntrada \in Entradas(emitidas') /\ SinEnvio \in Llamadas(emitidas')
    BY DEF Crece, SinEntrada, SinEnvio, Entradas, Llamadas
  <1> QED
    BY <1>1, <1>2, <1>3, <1>4, <1>5, <1>6, <1>7 DEF Tipos

\* Nothing of the client moves but calls on the wire that nobody waits for any more, or
\* requests that neither wait nor clear.
LEMMA ClienteQuietoSigue ==
    ASSUME Cliente, Crece, UNCHANGED <<boveda, vuelo, bloc, perdidas>>,
           envio' \in [Envios -> Llamadas(emitidas')], cierre' \in 0 .. emitidas',
           peticion' \in [Peticiones -> Fases],
           \A e \in Envios : envio'[e].esperado => envio[e].esperado,
           \A p \in Peticiones : peticion[p] = "espera" => peticion'[p] = "espera",
           \A p \in Peticiones : peticion'[p] \in {"borrar", "expirar"} <=>
                                    peticion[p] \in {"borrar", "expirar"}
    PROVE  Cliente'
  <1>1. /\ UNCHANGED <<cache, almacen, cola, pantalla, entrada, salida, vuelo, perdidas>>
        /\ \A f \in Flujos : (Pendiente(f)' <=> Pendiente(f)) /\ (Llama(f)' <=> Llama(f))
    BY DEF boveda, bloc, Pendiente, Llama
  <1>2. Tipos'
    BY <1>1, TiposCrecen DEF Cliente, Tipos
  <1>3. EnCola'
    BY <1>1 DEF Cliente, EnCola
  <1>4. Esperado'
    BY <1>1 DEF Cliente, Esperado
  <1>5. entrada.fase # "libre" => familia'[entrada.ses] = familia[entrada.ses]
    BY DEF Cliente, Tipos, Entradas, Crece
  <1>6. (Limpia' <=> Limpia) /\ (TrasEntrada' <=> TrasEntrada)
    BY <1>1 DEF Limpia, TrasEntrada
  <1>7. Perfiles'
    BY <1>1, <1>5, <1>6 DEF Cliente, Perfiles, DeEntrada, DePantalla
  <1>8. Memoria'
    BY <1>1 DEF Cliente, Memoria
  <1> QED
    BY <1>2, <1>3, <1>4, <1>7, <1>8 DEF Cliente

LEMMA PasoDeLaRed ==
    ASSUME IInv, Crece, NEW e \in Envios,
           LlegarRefresco(e) \/ AtenderRefresco(e) \/ Perder(e)
    PROVE  Cliente'
  <1>1. ClienteQuieto
    BY DEF LlegarRefresco, AtenderRefresco, Perder
  <1>2. UNCHANGED <<boveda, vuelo, bloc, perdidas, peticion>>
    BY <1>1 DEF ClienteQuieto
  <1>3. cierre' \in 0 .. emitidas'
    BY DEF IInv, Cliente, Tipos, Crece, LlegarRefresco, AtenderRefresco, Perder
  <1>4. emitidas + 1 \in 0 .. emitidas' \/ ~ Servidor!ConfirmarRotacion(e)
    BY DEF Servidor!ConfirmarRotacion, Servidor!Emitir, Crece
  <1>5. envio[e] \in Llamadas(emitidas')
    BY TiposCrecen DEF IInv, Cliente
  <1>6. \E x \in Llamadas(emitidas') :
            envio' = [envio EXCEPT ![e] = x] /\ (x.esperado => envio[e].esperado)
    <2>1. CASE LlegarRefresco(e)
      <3>1. [envio[e] EXCEPT !.fase = "servidor"] \in Llamadas(emitidas')
        BY <1>5 DEF Llamadas
      <3>2. [envio[e] EXCEPT !.fase = "servidor"].esperado = envio[e].esperado
        BY <1>5 DEF Llamadas
      <3> QED
        BY <2>1, <3>1, <3>2 DEF LlegarRefresco
    <2>2. CASE AtenderRefresco(e)
      <3>1. PICK s \in 0 .. emitidas' : Contestar(e, s)
        BY <1>4, <2>2 DEF AtenderRefresco, Crece
      <3>2. [envio[e] EXCEPT !.fase = "vuelta", !.ses = s] \in Llamadas(emitidas')
        BY <1>5, <3>1 DEF Llamadas
      <3>3. [envio[e] EXCEPT !.fase = "vuelta", !.ses = s].esperado = envio[e].esperado
        BY <1>5 DEF Llamadas
      <3> QED
        BY <3>1, <3>2, <3>3 DEF Contestar
    <2>3. CASE Perder(e)
      BY <2>3, TiposCrecen DEF Perder, Recoger, SinEnvio, IInv, Cliente
    <2> QED
      BY <2>1, <2>2, <2>3
  <1>7. /\ envio' \in [Envios -> Llamadas(emitidas')]
        /\ \A d \in Envios : envio'[d].esperado => envio[d].esperado
    BY <1>6, TiposCrecen DEF IInv, Cliente
  <1> QED
    BY <1>2, <1>3, <1>7, ClienteQuietoSigue DEF IInv, Cliente, Tipos

LEMMA PasoDelCierre ==
    ASSUME IInv, Crece, LlegarCierre
    PROVE  Cliente'
  <1>1. UNCHANGED <<boveda, vuelo, bloc, perdidas, peticion>> /\ UNCHANGED envio /\ cierre' = 0
    BY DEF LlegarCierre, ClienteQuieto
  <1>2. 0 \in 0 .. emitidas'
    BY DEF Crece
  <1> QED
    BY <1>1, <1>2, TiposCrecen, ClienteQuietoSigue DEF IInv, Cliente, Tipos

LEMMA PasoDePeticion ==
    ASSUME IInv, Crece, NEW p \in Peticiones,
           Enviar(p) \/ Contestada(p) \/ CompartirRefresco(p)
    PROVE  Cliente'
  <1>1. \E f \in {"libre", "enviada", "espera"} :
            peticion' = [peticion EXCEPT ![p] = f]
    BY DEF Enviar, Contestada, CompartirRefresco, Esperar
  <1>2. peticion[p] \in {"libre", "enviada", "reintento"}
    BY DEF Enviar, Contestada, CompartirRefresco
  <1>3. UNCHANGED <<red, boveda, vuelo, bloc, perdidas>>
    BY DEF Enviar, Contestada, CompartirRefresco
  <1>4. /\ peticion' \in [Peticiones -> Fases]
        /\ \A q \in Peticiones : peticion[q] = "espera" => peticion'[q] = "espera"
        /\ \A q \in Peticiones : peticion'[q] \in {"borrar", "expirar"} <=>
                                    peticion[q] \in {"borrar", "expirar"}
    BY <1>1, <1>2 DEF IInv, Cliente, Tipos, Fases
  <1>5. envio' = envio /\ cierre' = cierre /\ cierre' \in 0 .. emitidas'
    BY <1>3 DEF red, IInv, Cliente, Tipos, Crece
  <1> QED
    BY <1>3, <1>4, <1>5, TiposCrecen, ClienteQuietoSigue DEF IInv, Cliente

\* A flight goes on or ends well: neither the login nor what it will show changes.
LEMMA PerfilesSiguen ==
    ASSUME Cliente, Crece, UNCHANGED <<pantalla, entrada, almacen>>,
           \A f \in Flujos : Pendiente(f) => Pendiente(f)',
           \A f \in Flujos : Antes("entrada", f, cola) => Antes("entrada", f, cola'),
           vuelo.fase = "escribir" => ~ Antes("entrada", "vuelo", cola),
           vuelo'.fase # "leer"
    PROVE  Perfiles'
  <1>1. entrada.fase # "libre" => familia'[entrada.ses] = familia[entrada.ses]
    BY DEF Cliente, Tipos, Entradas, Crece
  <1>2. (Limpia => Limpia') /\ (TrasEntrada => TrasEntrada')
    BY DEF Limpia, TrasEntrada
  <1> QED
    BY <1>1, <1>2 DEF Cliente, Perfiles, DeEntrada, DePantalla

\* A refresh is sent, and no other is waited for.
LEMMA Presentado ==
    ASSUME Tipos, Crece, NEW s \in 0 .. emitidas, s # 0, Presentar(s),
           \A e \in Envios : ~ envio[e].esperado
    PROVE  /\ envio' \in [Envios -> Llamadas(emitidas')]
           /\ \A d, e \in Envios : envio'[d].esperado /\ envio'[e].esperado => d = e
           /\ vuelo' \in Vuelos(emitidas') /\ vuelo'.fase = "esperar"
  <1>1. s \in 0 .. emitidas'
    BY TiposCrecen
  <1>2. PICK e \in Envios : envio' = [envio EXCEPT ![e] =
            [fase |-> "camino", ses |-> s, esperado |-> TRUE]]
    BY DEF Presentar
  <1>3. [fase |-> "camino", ses |-> s, esperado |-> TRUE] \in Llamadas(emitidas')
    BY <1>1 DEF Llamadas
  <1>4. vuelo' = [fase |-> "esperar", ses |-> s, leida |-> Vacio]
    BY DEF Presentar, EnTierra
  <1>5. vuelo' \in Vuelos(emitidas')
    BY <1>1, <1>4, TiposCrecen DEF Vuelos
  <1>6. envio' \in [Envios -> Llamadas(emitidas')]
    BY <1>2, <1>3, TiposCrecen
  <1>7. \A d \in Envios : d # e => ~ envio'[d].esperado
    BY <1>2 DEF Tipos
  <1> QED
    BY <1>4, <1>5, <1>6, <1>7

\* A request waits for the flight.
LEMMA Espera ==
    ASSUME Tipos, NEW p \in Peticiones, Esperar(p), peticion[p] = "enviada"
    PROVE  /\ peticion' \in [Peticiones -> Fases] /\ peticion'[p] = "espera"
           /\ \A q \in Peticiones : peticion'[q] \in {"borrar", "expirar"} <=>
                                        peticion[q] \in {"borrar", "expirar"}
  BY DEF Tipos, Esperar, Fases

LEMMA PasoIniciarRefresco ==
    ASSUME IInv, Crece, NEW p \in Peticiones, IniciarRefresco(p)
    PROVE  Cliente'
  <1>1. /\ peticion[p] = "enviada" /\ vuelo.fase = "libre" /\ cache # 0
        /\ Esperar(p) /\ Presentar(cache)
        /\ UNCHANGED <<cierre, cache, almacen, cola, pantalla, entrada, salida, perdidas>>
    BY DEF IniciarRefresco, boveda, bloc
  <1>2. /\ peticion' \in [Peticiones -> Fases] /\ peticion'[p] = "espera"
        /\ \A q \in Peticiones : peticion'[q] \in {"borrar", "expirar"} <=>
                                    peticion[q] \in {"borrar", "expirar"}
    BY <1>1, Espera DEF IInv, Cliente
  <1>3. \A e \in Envios : ~ envio[e].esperado
    BY <1>1 DEF IInv, Cliente, Esperado
  <1>4. /\ envio' \in [Envios -> Llamadas(emitidas')]
        /\ \A d, e \in Envios : envio'[d].esperado /\ envio'[e].esperado => d = e
        /\ vuelo' \in Vuelos(emitidas') /\ vuelo'.fase = "esperar"
    BY <1>1, <1>3, Presentado DEF IInv, Cliente, Tipos
  <1>5. \A f \in Flujos : (Pendiente(f)' <=> Pendiente(f)) /\ (Llama(f)' <=> Llama(f))
    BY <1>1, <1>2, <1>4 DEF Pendiente, Llama
  <1>6. Tipos'
    BY <1>1, <1>2, <1>4, TiposCrecen DEF IInv, Cliente, Tipos
  <1>7. EnCola' /\ Esperado' /\ Memoria'
    BY <1>1, <1>2, <1>4, <1>5 DEF IInv, Cliente, EnCola, Esperado, Memoria
  <1>8. Perfiles'
    BY <1>1, <1>4, <1>5, PerfilesSiguen DEF IInv
  <1> QED
    BY <1>6, <1>7, <1>8 DEF Cliente

LEMMA PasoPedirToken ==
    ASSUME IInv, Crece, NEW p \in Peticiones, PedirToken(p)
    PROVE  Cliente'
  <1>1. /\ peticion[p] = "enviada" /\ vuelo.fase = "libre" /\ cache = 0
        /\ Esperar(p) /\ cola' = Append(cola, "vuelo")
        /\ vuelo' = [fase |-> "buscar", ses |-> 0, leida |-> almacen]
        /\ UNCHANGED <<envio, cierre, cache, almacen, pantalla, entrada, salida, perdidas>>
    BY DEF PedirToken, Llamar, EnTierra, red, bloc
  <1>2. /\ peticion' \in [Peticiones -> Fases] /\ peticion'[p] = "espera"
        /\ \A q \in Peticiones : peticion'[q] \in {"borrar", "expirar"} <=>
                                    peticion[q] \in {"borrar", "expirar"}
    BY <1>1, Espera DEF IInv, Cliente
  <1>3. vuelo' \in Vuelos(emitidas')
    BY <1>1, TiposCrecen DEF IInv, Cliente, Tipos, Vuelos, Crece
  <1>4. ~ En("vuelo", cola)
    BY <1>1, Distintos DEF IInv, Cliente, EnCola, Llama, Pendiente
  <1>5. /\ cola' \in Seq(Flujos) /\ SinRepetir(cola')
        /\ \A x : En(x, cola') <=> En(x, cola) \/ x = "vuelo"
        /\ \A x, y : Antes(x, y, cola') <=> Antes(x, y, cola) \/ (En(x, cola) /\ y = "vuelo")
    BY <1>1, <1>4, Distintos, AlFinal DEF IInv, Cliente, EnCola
  <1>6. \A f \in Flujos : /\ Pendiente(f)' <=> Pendiente(f)
                          /\ Llama(f)' <=> Llama(f) \/ f = "vuelo"
    BY <1>1, <1>2 DEF Pendiente, Llama
  <1>7. Tipos'
    BY <1>1, <1>2, <1>3, TiposCrecen DEF IInv, Cliente, Tipos
  <1>8. EnCola'
    BY <1>5, <1>6 DEF IInv, Cliente, EnCola
  <1>9. Esperado' /\ Memoria'
    BY <1>1, <1>2 DEF IInv, Cliente, Esperado, Memoria
  <1>10. Perfiles'
    BY <1>1, <1>5, <1>6, PerfilesSiguen DEF IInv
  <1> QED
    BY <1>7, <1>8, <1>9, <1>10 DEF Cliente

\* A flight that ends badly: each of the requests that waited clears the session.
LEMMA PasoFallarRefresco ==
    ASSUME IInv, Crece, NEW antes \in Seq(Flujos), SinRepetir(antes),
           \A f \in Flujos : En(f, antes) <=> Llama(f) /\ f # "vuelo",
           vuelo.fase # "libre", FallarRefresco(antes),
           envio' \in [Envios -> Llamadas(emitidas')],
           \A e \in Envios : ~ envio'[e].esperado,
           perdidas' \subseteq 0 .. emitidas',
           UNCHANGED <<cierre, bloc>>
    PROVE  Cliente'
  <1> DEFINE T == {p \in Peticiones : peticion[p] = "espera"}
             t == SetToSeq(T)
  <1>1. /\ vuelo' = EnTierra /\ cache' = 0 /\ almacen' = Vacio /\ cola' = antes \o t
        /\ peticion' = [p \in Peticiones |->
                IF peticion[p] = "espera" THEN "borrar" ELSE peticion[p]]
        /\ UNCHANGED <<cierre, pantalla, entrada, salida>>
    BY DEF FallarRefresco, Reanudar, LimpiarBoveda, bloc
  <1>2. IsFiniteSet(T)
    BY ClienteAssumption, FS_Subset
  <1>3. PICK w \in Peticiones : w \in T
    BY DEF IInv, Cliente, Esperado
  <1> HIDE DEF T
  <1>4. t \in Seq(T) /\ SinRepetir(t) /\ \A x : En(x, t) <=> x \in T
    BY <1>2, DePeticiones
  <1> HIDE DEF t
  <1>5. T \subseteq Flujos /\ T \subseteq Peticiones
    BY DEF T, Flujos
  <1>6. t \in Seq(Flujos)
    BY <1>4, <1>5
  <1>7. \A f \in Flujos : /\ Pendiente(f)' <=> Pendiente(f) \/ f \in T
                          /\ f \in T => ~ Llama(f)
                          /\ Llama(f)' <=> (Llama(f) /\ f # "vuelo") \/ f \in T
    BY <1>1, Distintos DEF Pendiente, Llama, T, EnTierra
  <1>8. \A x : ~ (En(x, antes) /\ En(x, t))
    BY <1>4, <1>5, <1>7
  <1>9. /\ cola' \in Seq(Flujos) /\ SinRepetir(cola')
        /\ \A x : En(x, cola') <=> En(x, antes) \/ x \in T
        /\ \A x, y : En(x, antes) /\ y \in T => Antes(x, y, cola')
    BY <1>1, <1>4, <1>6, <1>8, Juntas
  <1>10. Tipos'
    <2>1. peticion' \in [Peticiones -> Fases]
      BY <1>1 DEF IInv, Cliente, Tipos, Fases
    <2>2. 0 \in 0 .. emitidas'
      BY DEF Crece
    <2> QED
      BY <1>1, <2>1, <2>2, TiposCrecen DEF IInv, Cliente, Tipos
  <1>11. EnCola'
    BY <1>7, <1>9 DEF EnCola
  <1>12. Esperado' /\ Memoria'
    BY <1>1 DEF Esperado, Memoria, EnTierra
  <1>13. Limpia'
    BY <1>3, <1>5, <1>7 DEF Limpia
  <1>14. entrada.fase = "escribir" => TrasEntrada'
    <2>1. ASSUME entrada.fase = "escribir"
          PROVE  Antes("entrada", w, cola')
      <3>1. En("entrada", antes)
        BY <2>1, Distintos DEF Llama
      <3> QED
        BY <1>3, <1>9, <3>1
    <2> QED
      BY <1>3, <1>5, <1>7, <2>1 DEF TrasEntrada
  <1>15. Perfiles'
    BY <1>1, <1>13, <1>14 DEF IInv, Cliente, Perfiles, DeEntrada, DePantalla, EnTierra
  <1> QED
    BY <1>10, <1>11, <1>12, <1>15 DEF Cliente

\* What an answer of the storage leaves in the queue, ...
LEMMA Servido ==
    ASSUME EnCola, NEW f, Turno(f)
    PROVE  /\ f \in Flujos /\ Llama(f)
           /\ Tail(cola) \in Seq(Flujos) /\ SinRepetir(Tail(cola))
           /\ \A x : En(x, Tail(cola)) <=> En(x, cola) /\ x # f
           /\ \A x, y : Antes(x, y, Tail(cola)) <=> Antes(x, y, cola) /\ x # f
           /\ \A x : ~ Antes(x, f, cola)
           /\ \A x : En(x, cola) /\ x # f => Antes(f, x, cola)
  <1>1. cola \in Seq(Flujos) /\ SinRepetir(cola) /\ cola # <<>> /\ Head(cola) = f
    BY DEF EnCola, Turno
  <1>2. /\ f \in Flujos /\ En(f, cola)
        /\ Tail(cola) \in Seq(Flujos) /\ SinRepetir(Tail(cola))
        /\ \A x : En(x, Tail(cola)) <=> En(x, cola) /\ x # f
        /\ \A x, y : Antes(x, y, Tail(cola)) <=> Antes(x, y, cola) /\ x # f
        /\ \A x : ~ Antes(x, f, cola)
        /\ \A x : En(x, cola) /\ x # f => Antes(f, x, cola)
    BY <1>1, DelPrincipio
  <1> QED
    BY <1>2 DEF EnCola

\* ... and a new call of the same flow.
LEMMA Reenviado ==
    ASSUME EnCola, NEW f, AtendidoYLlama(f)
    PROVE  /\ f \in Flujos /\ Llama(f)
           /\ cola' \in Seq(Flujos) /\ SinRepetir(cola')
           /\ \A x : En(x, cola') <=> En(x, cola)
           /\ \A x, y : Antes(x, y, cola') <=>
                x # f /\ (Antes(x, y, cola) \/ (En(x, cola) /\ y = f))
           /\ \A x : ~ Antes(x, f, cola)
           /\ \A x : En(x, cola) /\ x # f => Antes(f, x, cola)
  <1>1. Turno(f) /\ cola' = Append(Tail(cola), f)
    BY DEF AtendidoYLlama
  <1>2. /\ f \in Flujos /\ Llama(f)
        /\ Tail(cola) \in Seq(Flujos) /\ SinRepetir(Tail(cola))
        /\ \A x : En(x, Tail(cola)) <=> En(x, cola) /\ x # f
        /\ \A x, y : Antes(x, y, Tail(cola)) <=> Antes(x, y, cola) /\ x # f
        /\ \A x : ~ Antes(x, f, cola)
        /\ \A x : En(x, cola) /\ x # f => Antes(f, x, cola)
    BY <1>1, Servido
  <1>3. /\ cola' \in Seq(Flujos) /\ SinRepetir(cola')
        /\ \A x : En(x, cola') <=> En(x, Tail(cola)) \/ x = f
        /\ \A x, y : Antes(x, y, cola') <=>
                Antes(x, y, Tail(cola)) \/ (En(x, Tail(cola)) /\ y = f)
    BY <1>1, <1>2, AlFinal
  <1>4. En(f, cola)
    BY <1>2 DEF EnCola
  <1> QED
    BY <1>2, <1>3, <1>4

LEMMA PasoBuscarToken ==
    ASSUME IInv, Crece, BuscarToken
    PROVE  Cliente'
  <1>1. vuelo.fase = "buscar" /\ Turno("vuelo") /\ UNCHANGED <<cierre, bloc, perdidas>>
    BY DEF BuscarToken, Atendido
  <1>2. /\ Llama("vuelo")
        /\ Tail(cola) \in Seq(Flujos) /\ SinRepetir(Tail(cola))
        /\ \A x : En(x, Tail(cola)) <=> En(x, cola) /\ x # "vuelo"
        /\ \A x, y : Antes(x, y, Tail(cola)) <=> Antes(x, y, cola) /\ x # "vuelo"
    BY <1>1, Servido DEF IInv, Cliente
  <1>3. \A e \in Envios : ~ envio[e].esperado
    BY <1>1 DEF IInv, Cliente, Esperado
  <1>4. CASE vuelo.leida = Vacio
    <2>1. FallarRefresco(Tail(cola)) /\ UNCHANGED envio
      BY <1>4 DEF BuscarToken
    <2>2. \A f \in Flujos : En(f, Tail(cola)) <=> Llama(f) /\ f # "vuelo"
      BY <1>2 DEF IInv, Cliente, EnCola
    <2>3. perdidas' \subseteq 0 .. emitidas' /\ envio' \in [Envios -> Llamadas(emitidas')]
      BY <1>1, <2>1, TiposCrecen DEF IInv, Cliente, Tipos
    <2>4. vuelo.fase # "libre" /\ UNCHANGED <<cierre, bloc>>
      BY <1>1
    <2> QED
      BY <1>2, <1>3, <2>1, <2>2, <2>3, <2>4, PasoFallarRefresco
  <1>5. CASE vuelo.leida # Vacio
    <2>1. /\ cola' = Tail(cola) /\ cache' = vuelo.leida.ses /\ Presentar(vuelo.leida.ses)
          /\ UNCHANGED <<almacen, peticion, pantalla, entrada, salida>>
      BY <1>5 DEF BuscarToken, Atendido, bloc
    <2>2. vuelo.leida.ses \in 0 .. emitidas /\ vuelo.leida.ses # 0
      BY <1>5 DEF IInv, Cliente, Tipos, Vuelos, Guardadas
    <2>3. /\ envio' \in [Envios -> Llamadas(emitidas')]
          /\ \A d, e \in Envios : envio'[d].esperado /\ envio'[e].esperado => d = e
          /\ vuelo' \in Vuelos(emitidas') /\ vuelo'.fase = "esperar"
      BY <1>3, <2>1, <2>2, Presentado DEF IInv, Cliente
    <2>4. \A f \in Flujos : /\ Pendiente(f)' <=> Pendiente(f)
                            /\ Llama(f)' <=> Llama(f) /\ f # "vuelo"
      BY <2>1, <2>3, Distintos DEF Pendiente, Llama
    <2>5. Tipos'
      BY <1>1, <2>1, <2>2, <2>3, TiposCrecen DEF IInv, Cliente, Tipos
    <2>6. EnCola'
      BY <1>2, <2>1, <2>4 DEF IInv, Cliente, EnCola
    <2>7. Esperado' /\ Memoria'
      BY <1>1, <2>1, <2>3 DEF IInv, Cliente, Esperado, Memoria
    <2>8. Perfiles'
      BY <1>1, <1>2, <2>1, <2>3, <2>4, PerfilesSiguen DEF IInv
    <2> QED
      BY <2>5, <2>6, <2>7, <2>8 DEF Cliente
  <1> QED
    BY <1>4, <1>5

\* The answer that the flight waited for is taken from the wire.
LEMMA Recogido ==
    ASSUME Cliente, Crece, NEW e \in Envios, envio[e].esperado, Recoger(e)
    PROVE  /\ envio' \in [Envios -> Llamadas(emitidas')]
           /\ \A d \in Envios : ~ envio'[d].esperado
           /\ vuelo.fase = "esperar"
  <1>1. envio' = [envio EXCEPT ![e] = SinEnvio] /\ SinEnvio.esperado = FALSE
    BY DEF Recoger, SinEnvio
  <1> QED
    BY <1>1, TiposCrecen DEF Cliente, Tipos, Esperado

LEMMA PasoRecibirTokens ==
    ASSUME IInv, Crece, NEW e \in Envios, RecibirTokens(e)
    PROVE  Cliente'
  <1>1. /\ envio[e].esperado /\ envio[e].ses # 0 /\ Recoger(e)
        /\ cache' = envio[e].ses /\ cola' = Append(cola, "vuelo")
        /\ vuelo' = [fase |-> "leer", ses |-> envio[e].ses, leida |-> almacen]
        /\ UNCHANGED <<cierre, almacen, peticion, pantalla, entrada, salida, perdidas>>
    BY DEF RecibirTokens, Llamar, bloc
  <1>2. /\ envio' \in [Envios -> Llamadas(emitidas')]
        /\ \A d \in Envios : ~ envio'[d].esperado
        /\ vuelo.fase = "esperar"
    BY <1>1, Recogido DEF IInv, Cliente
  <1>3. envio[e].ses \in 0 .. emitidas'
    BY TiposCrecen DEF IInv, Cliente, Llamadas
  <1>4. vuelo' \in Vuelos(emitidas')
    BY <1>1, <1>3, TiposCrecen DEF IInv, Cliente, Tipos, Vuelos
  <1>5. ~ En("vuelo", cola)
    BY <1>2, Distintos DEF IInv, Cliente, EnCola, Llama, Pendiente
  <1>6. /\ cola' \in Seq(Flujos) /\ SinRepetir(cola')
        /\ \A x : En(x, cola') <=> En(x, cola) \/ x = "vuelo"
        /\ \A x, y : Antes(x, y, cola') <=> Antes(x, y, cola) \/ (En(x, cola) /\ y = "vuelo")
    BY <1>1, <1>5, Distintos, AlFinal DEF IInv, Cliente, EnCola
  <1>7. \A f \in Flujos : /\ Pendiente(f)' <=> Pendiente(f)
                          /\ Llama(f)' <=> Llama(f) \/ f = "vuelo"
    BY <1>1 DEF Pendiente, Llama
  <1>8. Tipos'
    BY <1>1, <1>2, <1>3, <1>4, TiposCrecen DEF IInv, Cliente, Tipos
  <1>9. EnCola'
    BY <1>6, <1>7 DEF IInv, Cliente, EnCola
  <1>10. Esperado' /\ Memoria'
    BY <1>1, <1>2 DEF IInv, Cliente, Esperado, Memoria
  <1>11. entrada.fase # "libre" => familia'[entrada.ses] = familia[entrada.ses]
    BY DEF IInv, Cliente, Tipos, Entradas, Crece
  <1>12. (Limpia => Limpia') /\ (TrasEntrada => TrasEntrada')
    BY <1>6, <1>7 DEF Limpia, TrasEntrada
  <1>13. Perfiles'
    BY <1>1, <1>2, <1>11, <1>12 DEF IInv, Cliente, Perfiles, DeEntrada, DePantalla
  <1> QED
    BY <1>8, <1>9, <1>10, <1>13 DEF Cliente

LEMMA PasoRecibirRechazo ==
    ASSUME IInv, Crece, NEW e \in Envios, RecibirRechazo(e)
    PROVE  Cliente'
  <1>1. /\ envio[e].esperado /\ Recoger(e) /\ FallarRefresco(cola)
        /\ UNCHANGED <<cierre, bloc, perdidas>>
    BY DEF RecibirRechazo
  <1>2. /\ envio' \in [Envios -> Llamadas(emitidas')]
        /\ \A d \in Envios : ~ envio'[d].esperado
        /\ vuelo.fase = "esperar"
    BY <1>1, Recogido DEF IInv, Cliente
  <1>3. \A f \in Flujos : En(f, cola) <=> Llama(f) /\ f # "vuelo"
    BY <1>2, Distintos DEF IInv, Cliente, EnCola, Llama, Pendiente
  <1>4. perdidas' \subseteq 0 .. emitidas'
    BY <1>1, TiposCrecen DEF IInv, Cliente, Tipos
  <1>5. cola \in Seq(Flujos) /\ SinRepetir(cola) /\ vuelo.fase # "libre"
    BY <1>2 DEF IInv, Cliente, EnCola
  <1> QED
    BY <1>1, <1>2, <1>3, <1>4, <1>5, PasoFallarRefresco

\* The client gives up what is on the wire.
LEMMA Desistido ==
    ASSUME Cliente, Crece, Desistir
    PROVE  /\ envio' \in [Envios -> Llamadas(emitidas')]
           /\ \A d \in Envios : ~ envio'[d].esperado
           /\ perdidas' \subseteq 0 .. emitidas'
  <1>1. /\ envio' = [e \in Envios |-> [envio[e] EXCEPT !.esperado = FALSE]]
        /\ perdidas' = perdidas \union {familia[s] : s \in {vuelo.ses} \ {0}}
    BY DEF Desistir
  <1>2. \A e \in Envios : /\ [envio[e] EXCEPT !.esperado = FALSE] \in Llamadas(emitidas')
                          /\ ~ [envio[e] EXCEPT !.esperado = FALSE].esperado
    BY TiposCrecen DEF Cliente, Llamadas
  <1>3. vuelo.ses \in 0 .. emitidas
    BY DEF Cliente, Tipos, Vuelos
  <1>4. perdidas' \subseteq 0 .. emitidas'
    BY <1>1, <1>3, TiposCrecen DEF Cliente, Tipos, Crece
  <1> QED
    BY <1>1, <1>2, <1>4

LEMMA PasoVencerRefresco ==
    ASSUME IInv, Crece, VencerRefresco
    PROVE  Cliente'
  <1>1. /\ vuelo.fase = "esperar" /\ Desistir /\ FallarRefresco(cola)
        /\ UNCHANGED <<cierre, bloc>>
    BY DEF VencerRefresco
  <1>2. /\ envio' \in [Envios -> Llamadas(emitidas')]
        /\ \A d \in Envios : ~ envio'[d].esperado
        /\ perdidas' \subseteq 0 .. emitidas'
    BY <1>1, Desistido DEF IInv
  <1>3. \A f \in Flujos : En(f, cola) <=> Llama(f) /\ f # "vuelo"
    BY <1>1, Distintos DEF IInv, Cliente, EnCola, Llama, Pendiente
  <1>4. cola \in Seq(Flujos) /\ SinRepetir(cola) /\ vuelo.fase # "libre"
    BY <1>1 DEF IInv, Cliente, EnCola
  <1> QED
    BY <1>1, <1>2, <1>3, <1>4, PasoFallarRefresco

\* The requests that waited are repeated.
LEMMA Repetida ==
    ASSUME IInv, Repetir
    PROVE  /\ vuelo' = EnTierra /\ vuelo'.fase = "libre"
           /\ peticion' \in [Peticiones -> Fases]
           /\ \A p \in Peticiones : peticion'[p] \in {"borrar", "expirar"} <=>
                                        peticion[p] \in {"borrar", "expirar"}
  BY DEF IInv, Cliente, Tipos, Fases, Repetir, Reanudar, EnTierra

\* The flight ends, with memory empty or as the storage.
LEMMA VueloTermina ==
    ASSUME IInv, Crece, Repetir, Atendido("vuelo"), vuelo.fase # "esperar",
           UNCHANGED <<red, almacen, pantalla, entrada, salida, perdidas>>,
           cache' \in {0, cache}, cache' = 0 \/ vuelo.fase # "leer"
    PROVE  Cliente'
  <1>1. /\ vuelo' = EnTierra /\ vuelo'.fase = "libre"
        /\ peticion' \in [Peticiones -> Fases]
        /\ \A p \in Peticiones : peticion'[p] \in {"borrar", "expirar"} <=>
                                    peticion[p] \in {"borrar", "expirar"}
    BY Repetida
  <1>2. /\ cola' \in Seq(Flujos) /\ SinRepetir(cola')
        /\ \A x : En(x, cola') <=> En(x, cola) /\ x # "vuelo"
        /\ \A x, y : Antes(x, y, cola') <=> Antes(x, y, cola) /\ x # "vuelo"
        /\ ~ Antes("entrada", "vuelo", cola)
    BY Servido DEF Atendido, IInv, Cliente
  <1>3. \A f \in Flujos : /\ Pendiente(f)' <=> Pendiente(f)
                          /\ Llama(f)' <=> Llama(f) /\ f # "vuelo"
    BY <1>1, Distintos DEF Pendiente, Llama
  <1>4. envio' = envio /\ cierre' = cierre
    BY DEF red
  <1>5. Tipos'
    <2>1. cache' \in 0 .. emitidas'
      BY DEF IInv, Cliente, Tipos, Crece
    <2> QED
      BY <1>1, <1>4, <2>1, TiposCrecen DEF IInv, Cliente, Tipos
  <1>6. EnCola'
    BY <1>2, <1>3 DEF IInv, Cliente, EnCola
  <1>7. Esperado' /\ Memoria'
    BY <1>1, <1>4 DEF IInv, Cliente, Esperado, Memoria
  <1>8. Perfiles'
    BY <1>1, <1>2, <1>3, PerfilesSiguen DEF IInv
  <1> QED
    BY <1>5, <1>6, <1>7, <1>8 DEF Cliente

LEMMA PasoLeerSesion ==
    ASSUME IInv, Crece, LeerSesion
    PROVE  Cliente'
  <1>1. vuelo.fase = "leer" /\ UNCHANGED <<red, pantalla, entrada, salida, perdidas>>
    BY DEF LeerSesion, bloc
  <1>2. CASE vuelo.leida = Vacio
    <2>1. Atendido("vuelo") /\ cache' = 0 /\ Repetir /\ UNCHANGED almacen
      BY <1>2 DEF LeerSesion
    <2> QED
      BY <1>1, <2>1, VueloTermina
  <1>3. CASE vuelo.leida # Vacio
    <2> DEFINE v == [vuelo EXCEPT !.fase = "escribir"]
    <2>1. /\ AtendidoYLlama("vuelo") /\ cache' = vuelo.ses
          /\ almacen' = [perfil |-> vuelo.leida.perfil, ses |-> vuelo.ses]
          /\ vuelo' = v /\ UNCHANGED peticion
      BY <1>3 DEF LeerSesion, Guardar
    <2>2. /\ vuelo.leida.perfil \in 1 .. emitidas /\ vuelo.ses \in 0 .. emitidas
          /\ vuelo.ses # 0
      BY <1>1, <1>3 DEF IInv, Cliente, Tipos, Vuelos, Guardadas
    <2>3. almacen' \in Guardadas(emitidas')
      <3>1. vuelo.leida.perfil \in 1 .. emitidas' /\ vuelo.ses \in 1 .. emitidas'
        BY <2>2 DEF Crece
      <3> QED
        BY <2>1, <3>1 DEF Guardadas
    <2>4. v \in Vuelos(emitidas') /\ v.fase = "escribir"
      <3>1. vuelo \in Vuelos(emitidas')
        BY TiposCrecen DEF IInv, Cliente, Tipos
      <3> QED
        BY <2>2, <3>1 DEF Vuelos
    <2> HIDE DEF v
    <2>5. /\ cola' \in Seq(Flujos) /\ SinRepetir(cola')
          /\ \A x : En(x, cola') <=> En(x, cola)
          /\ \A x, y : Antes(x, y, cola') <=>
                x # "vuelo" /\ (Antes(x, y, cola) \/ (En(x, cola) /\ y = "vuelo"))
      BY <2>1, Reenviado DEF IInv, Cliente
    <2>6. \A f \in Flujos : (Pendiente(f)' <=> Pendiente(f)) /\ (Llama(f)' <=> Llama(f))
      BY <1>1, <2>1, <2>4 DEF Pendiente, Llama
    <2>7. Tipos'
      BY <1>1, <2>1, <2>2, <2>3, <2>4, TiposCrecen DEF IInv, Cliente, Tipos, red
    <2>8. EnCola'
      BY <2>5, <2>6 DEF IInv, Cliente, EnCola
    <2>9. Esperado' /\ Memoria'
      BY <1>1, <2>1, <2>4 DEF IInv, Cliente, Esperado, Memoria, red
    <2>10. entrada.fase # "libre" => familia'[entrada.ses] = familia[entrada.ses]
      BY DEF IInv, Cliente, Tipos, Entradas, Crece
    <2>11. (Limpia => Limpia') /\ (TrasEntrada => TrasEntrada')
      BY <2>5, <2>6 DEF Limpia, TrasEntrada
    <2>12. entrada.fase = "limpiar" => Antes("entrada", "vuelo", cola')
      <3>1. entrada.fase = "limpiar" => En("entrada", cola)
        BY Distintos DEF IInv, Cliente, EnCola, Llama
      <3> QED
        BY <2>5, <3>1
    <2>13. Perfiles'
      BY <1>1, <1>3, <2>1, <2>4, <2>10, <2>11, <2>12
      DEF IInv, Cliente, Perfiles, DeEntrada, DePantalla
    <2> QED
      BY <2>7, <2>8, <2>9, <2>13 DEF Cliente
  <1> QED
    BY <1>2, <1>3

LEMMA PasoGuardarTokens ==
    ASSUME IInv, Crece, GuardarTokens
    PROVE  Cliente'
  BY VueloTermina DEF GuardarTokens, bloc

\* Memory and storage are cleared by a flow that will clear the screen too, and that is
\* now last in the queue.
LEMMA Borrada ==
    ASSUME IInv, Crece, LimpiarBoveda, UNCHANGED <<pantalla, entrada, vuelo>>,
           NEW f \in Flujos, Pendiente(f)',
           entrada.fase = "escribir" => Antes("entrada", f, cola'),
           vuelo.fase = "leer" =>
                (Antes("entrada", "vuelo", cola') => Antes("entrada", "vuelo", cola))
    PROVE  /\ Perfiles' /\ Memoria'
           /\ cache' \in 0 .. emitidas' /\ almacen' \in Guardadas(emitidas')
  <1>1. cache' = 0 /\ almacen' = Vacio
    BY DEF LimpiarBoveda
  <1>2. Limpia' /\ (entrada.fase = "escribir" => TrasEntrada')
    BY DEF Limpia, TrasEntrada
  <1>3. Perfiles'
    BY <1>1, <1>2 DEF IInv, Cliente, Perfiles, DeEntrada, DePantalla
  <1>4. Memoria' /\ cache' \in 0 .. emitidas'
    BY <1>1 DEF Memoria, Crece
  <1> QED
    BY <1>1, <1>3, <1>4, TiposCrecen DEF IInv, Cliente

LEMMA PasoBorrarSesion ==
    ASSUME IInv, Crece, NEW p \in Peticiones, BorrarSesion(p)
    PROVE  Cliente'
  <1>1. /\ peticion[p] = "borrar" /\ AtendidoYLlama(p) /\ LimpiarBoveda
        /\ peticion' = [peticion EXCEPT ![p] = "expirar"]
        /\ UNCHANGED <<envio, cierre, vuelo, pantalla, entrada, salida, perdidas>>
    BY DEF BorrarSesion, red, bloc
  <1>2. /\ cola' \in Seq(Flujos) /\ SinRepetir(cola')
        /\ \A x : En(x, cola') <=> En(x, cola)
        /\ \A x, y : Antes(x, y, cola') <=>
              x # p /\ (Antes(x, y, cola) \/ (En(x, cola) /\ y = p))
    BY <1>1, Reenviado DEF IInv, Cliente
  <1>3. /\ peticion' \in [Peticiones -> Fases]
        /\ \A q \in Peticiones : (peticion'[q] \in {"borrar", "expirar"} <=>
                                    peticion[q] \in {"borrar", "expirar"})
                                 /\ (peticion'[q] = "espera" <=> peticion[q] = "espera")
    BY <1>1 DEF IInv, Cliente, Tipos, Fases
  <1>4. /\ \A f \in Flujos : (Pendiente(f)' <=> Pendiente(f)) /\ (Llama(f)' <=> Llama(f))
        /\ Pendiente(p)
    BY <1>1, <1>3 DEF Pendiente, Llama
  <1>5. entrada.fase = "escribir" => Antes("entrada", p, cola')
    <2>1. entrada.fase = "escribir" => En("entrada", cola)
      BY Distintos DEF IInv, Cliente, EnCola, Llama
    <2> QED
      BY <1>2, <2>1, Distintos
  <1>6. Antes("entrada", "vuelo", cola') => Antes("entrada", "vuelo", cola)
    BY <1>2, Distintos
  <1>7. Perfiles' /\ Memoria' /\ cache' \in 0 .. emitidas' /\ almacen' \in Guardadas(emitidas')
    BY <1>1, <1>4, <1>5, <1>6, Distintos, Borrada
  <1>8. Tipos'
    BY <1>1, <1>3, <1>7, TiposCrecen DEF IInv, Cliente, Tipos
  <1>9. EnCola' /\ Esperado'
    BY <1>1, <1>2, <1>3, <1>4 DEF IInv, Cliente, EnCola, Esperado
  <1> QED
    BY <1>7, <1>8, <1>9 DEF Cliente

\* The storage answers a flow that clears the screen.
LEMMA PantallaVacia ==
    ASSUME IInv, Crece, NEW f \in Flujos, Atendido(f), pantalla' = 0,
           UNCHANGED <<red, cache, almacen, vuelo, entrada, perdidas>>,
           peticion' \in [Peticiones -> Fases], salida' \in {"libre", "esperar", "borrar"},
           \A p \in Peticiones : peticion[p] = "espera" => peticion'[p] = "espera",
           \A g \in Flujos : Pendiente(g)' <=> Pendiente(g) /\ g # f, Pendiente(f)
    PROVE  Cliente'
  <1>1. /\ cola' \in Seq(Flujos) /\ SinRepetir(cola')
        /\ \A x : En(x, cola') <=> En(x, cola) /\ x # f
        /\ \A x, y : Antes(x, y, cola') <=> Antes(x, y, cola) /\ x # f
        /\ \A x : ~ Antes(x, f, cola)
    BY Servido DEF Atendido, IInv, Cliente
  <1>2. f # "vuelo" /\ f # "entrada"
    BY Distintos DEF Pendiente
  <1>3. \A g \in Flujos : Llama(g)' <=> Llama(g) /\ g # f
    BY <1>2 DEF Llama
  <1>4. Tipos'
    BY TiposCrecen DEF IInv, Cliente, Tipos, red, Crece
  <1>5. EnCola' /\ Esperado' /\ Memoria'
    BY <1>1, <1>3 DEF IInv, Cliente, EnCola, Esperado, Memoria, red
  <1>6. entrada.fase # "libre" => familia'[entrada.ses] = familia[entrada.ses]
    BY DEF IInv, Cliente, Tipos, Entradas, Crece
  <1>7. TrasEntrada => TrasEntrada'
    BY <1>1, <1>2 DEF TrasEntrada
  <1>8. Perfiles'
    BY <1>1, <1>2, <1>6, <1>7 DEF IInv, Cliente, Perfiles, DeEntrada, DePantalla
  <1> QED
    BY <1>4, <1>5, <1>8 DEF Cliente

LEMMA PasoExpirarSesion ==
    ASSUME IInv, Crece, NEW p \in Peticiones, ExpirarSesion(p)
    PROVE  Cliente'
  <1>1. /\ peticion[p] = "expirar" /\ Atendido(p) /\ pantalla' = 0
        /\ peticion' = [peticion EXCEPT ![p] = "libre"]
        /\ UNCHANGED <<red, cache, almacen, vuelo, entrada, salida, perdidas>>
    BY DEF ExpirarSesion
  <1>2. /\ peticion' \in [Peticiones -> Fases]
        /\ \A q \in Peticiones : peticion[q] = "espera" => peticion'[q] = "espera"
        /\ \A q \in Peticiones : peticion'[q] \in {"borrar", "expirar"} <=>
                                    peticion[q] \in {"borrar", "expirar"} /\ q # p
    BY <1>1 DEF IInv, Cliente, Tipos, Fases
  <1>3. Pendiente(p) /\ \A g \in Flujos : Pendiente(g)' <=> Pendiente(g) /\ g # p
    BY <1>1, <1>2, Distintos DEF Pendiente
  <1>4. salida' \in {"libre", "esperar", "borrar"}
    BY <1>1 DEF IInv, Cliente, Tipos
  <1> QED
    BY <1>1, <1>2, <1>3, <1>4, Distintos, PantallaVacia

LEMMA PasoTerminarSalida ==
    ASSUME IInv, Crece, TerminarSalida
    PROVE  Cliente'
  <1>1. /\ salida = "borrar" /\ salida' = "libre" /\ Atendido("salida") /\ pantalla' = 0
        /\ UNCHANGED <<red, cache, almacen, peticion, vuelo, entrada, perdidas>>
    BY DEF TerminarSalida
  <1>2. /\ Pendiente("salida")
        /\ \A g \in Flujos : Pendiente(g)' <=> Pendiente(g) /\ g # "salida"
    BY <1>1, Distintos DEF Pendiente
  <1>3. peticion' \in [Peticiones -> Fases]
    BY <1>1 DEF IInv, Cliente, Tipos
  <1> QED
    BY <1>1, <1>2, <1>3, Distintos, PantallaVacia

\* A login starts, or its answer is lost: the storage is not touched.
LEMMA PasoEntrar ==
    ASSUME IInv, Crece, Entrar \/ PerderEntrada
    PROVE  Cliente'
  <1>1. /\ UNCHANGED <<red, cache, almacen, cola, peticion, vuelo, pantalla, salida, perdidas>>
        /\ entrada' = SinEntrada \/ (Entrar /\ entrada' = [fase |-> "respuesta",
                                                           ses |-> emitidas + 1])
        /\ entrada.fase \in {"libre", "respuesta"}
    BY DEF Entrar, PerderEntrada, boveda, SinEntrada
  <1>2. entrada' \in Entradas(emitidas') /\ entrada'.fase \in {"libre", "respuesta"}
    <2>1. Entrar => emitidas' = emitidas + 1
      BY DEF Entrar, Servidor!Login, Servidor!Emitir
    <2>2. emitidas + 1 \in 0 .. emitidas' \/ ~ Entrar
      BY <2>1 DEF Crece
    <2> QED
      BY <1>1, <2>2, TiposCrecen DEF Entradas, SinEntrada, IInv, Cliente, Crece
  <1>3. entrada'.fase # "libre" => pantalla = 0
    <2>1. PerderEntrada => entrada' = SinEntrada
      BY DEF PerderEntrada
    <2> QED
      BY <1>1, <2>1 DEF Entrar, SinEntrada
  <1>4. \A f \in Flujos : (Pendiente(f)' <=> Pendiente(f)) /\ (Llama(f)' <=> Llama(f))
    BY <1>1, <1>2 DEF Pendiente, Llama
  <1>5. Tipos'
    BY <1>1, <1>2, TiposCrecen DEF IInv, Cliente, Tipos, red
  <1>6. EnCola' /\ Esperado' /\ Memoria'
    BY <1>1, <1>4 DEF IInv, Cliente, EnCola, Esperado, Memoria, red
  <1>7. Limpia' <=> Limpia
    BY <1>4 DEF Limpia
  <1>8. Perfiles'
    BY <1>1, <1>2, <1>3, <1>7 DEF IInv, Cliente, Perfiles, DeEntrada, DePantalla
  <1> QED
    BY <1>5, <1>6, <1>8 DEF Cliente

LEMMA PasoRecibirEntrada ==
    ASSUME IInv, Crece, RecibirEntrada
    PROVE  Cliente'
  <1>1. /\ entrada.fase = "respuesta" /\ entrada' = [entrada EXCEPT !.fase = "limpiar"]
        /\ cola' = Append(cola, "entrada") /\ cache' = 0 /\ almacen' = Vacio
        /\ UNCHANGED <<envio, cierre, peticion, vuelo, pantalla, salida, perdidas>>
    BY DEF RecibirEntrada, Llamar, LimpiarBoveda, red
  <1>2. entrada' \in Entradas(emitidas') /\ entrada'.fase = "limpiar"
    <2>1. entrada \in Entradas(emitidas')
      BY TiposCrecen DEF IInv, Cliente, Tipos
    <2> QED
      BY <1>1, <2>1 DEF Entradas
  <1>3. ~ En("entrada", cola)
    BY <1>1, Distintos DEF IInv, Cliente, EnCola, Llama, Pendiente
  <1>4. /\ cola' \in Seq(Flujos) /\ SinRepetir(cola')
        /\ \A x : En(x, cola') <=> En(x, cola) \/ x = "entrada"
        /\ \A x, y : Antes(x, y, cola') <=>
                Antes(x, y, cola) \/ (En(x, cola) /\ y = "entrada")
    BY <1>1, <1>3, Distintos, AlFinal DEF IInv, Cliente, EnCola
  <1>5. \A f \in Flujos : /\ Pendiente(f)' <=> Pendiente(f)
                          /\ Llama(f)' <=> Llama(f) \/ f = "entrada"
    BY <1>1, <1>2 DEF Pendiente, Llama
  <1>6. ~ Antes("entrada", "vuelo", cola')
    BY <1>3, <1>4 DEF Antes, En
  <1>7. Tipos'
    <2>1. 0 \in 0 .. emitidas'
      BY DEF Crece
    <2> QED
      BY <1>1, <1>2, <2>1, TiposCrecen DEF IInv, Cliente, Tipos
  <1>8. EnCola'
    BY <1>4, <1>5 DEF IInv, Cliente, EnCola
  <1>9. Esperado' /\ Memoria'
    BY <1>1 DEF IInv, Cliente, Esperado, Memoria
  <1>10. pantalla' = 0
    BY <1>1 DEF IInv, Cliente, Perfiles
  <1>11. Perfiles'
    BY <1>1, <1>2, <1>6, <1>10 DEF Perfiles
  <1> QED
    BY <1>7, <1>8, <1>9, <1>11 DEF Cliente

\* The login is saved: a flight that reads now would have read before the clearing.
LEMMA PasoGuardarEntrada ==
    ASSUME IInv, Crece, GuardarEntrada
    PROVE  Cliente'
  <1> DEFINE x == [entrada EXCEPT !.fase = "escribir"]
  <1>1. /\ entrada.fase = "limpiar" /\ AtendidoYLlama("entrada") /\ entrada' = x
        /\ cache' = entrada.ses
        /\ almacen' = [perfil |-> familia[entrada.ses], ses |-> entrada.ses]
        /\ UNCHANGED <<envio, cierre, peticion, vuelo, pantalla, salida, perdidas>>
    BY DEF GuardarEntrada, Guardar, red
  <1>2. entrada.ses \in 1 .. emitidas
    BY <1>1 DEF IInv, Cliente, Tipos, Entradas, Crece
  <1>3. /\ entrada.ses \in 1 .. emitidas' /\ familia[entrada.ses] \in 1 .. emitidas'
        /\ familia'[entrada.ses] = familia[entrada.ses]
    BY <1>2 DEF Crece
  <1>4. x \in Entradas(emitidas') /\ x.fase = "escribir" /\ x.ses = entrada.ses
    <2>1. entrada \in Entradas(emitidas')
      BY TiposCrecen DEF IInv, Cliente, Tipos
    <2> QED
      BY <1>1, <1>2, <2>1 DEF Entradas
  <1> HIDE DEF x
  <1>5. almacen' \in Guardadas(emitidas') /\ almacen'.perfil = familia'[entrada.ses]
    BY <1>1, <1>3 DEF Guardadas
  <1>6. /\ cola' \in Seq(Flujos) /\ SinRepetir(cola')
        /\ \A f : En(f, cola') <=> En(f, cola)
        /\ \A f : En(f, cola) /\ f # "entrada" => Antes("entrada", f, cola)
    BY <1>1, Reenviado DEF IInv, Cliente
  <1>7. \A f \in Flujos : (Pendiente(f)' <=> Pendiente(f)) /\ (Llama(f)' <=> Llama(f))
    BY <1>1, <1>4 DEF Pendiente, Llama
  <1>8. vuelo.fase = "leer" => vuelo.leida = Vacio
    <2>1. vuelo.fase = "leer" => En("vuelo", cola)
      BY Distintos DEF IInv, Cliente, EnCola, Llama
    <2> QED
      BY <1>1, <1>6, <2>1 DEF IInv, Cliente, Perfiles
  <1>9. Tipos'
    <2>1. entrada.ses \in 0 .. emitidas'
      BY <1>3
    <2> QED
      BY <1>1, <1>4, <1>5, <2>1, TiposCrecen DEF IInv, Cliente, Tipos
  <1>10. EnCola'
    BY <1>6, <1>7 DEF IInv, Cliente, EnCola
  <1>11. Esperado' /\ Memoria'
    BY <1>1 DEF IInv, Cliente, Esperado, Memoria
  <1>12. pantalla' = 0
    BY <1>1 DEF IInv, Cliente, Perfiles
  <1>13. Perfiles'
    BY <1>1, <1>4, <1>5, <1>8, <1>12 DEF Perfiles, DeEntrada
  <1> QED
    BY <1>9, <1>10, <1>11, <1>13 DEF Cliente

\* The login is shown: whatever will clear the session after it is now pending.
LEMMA PasoMostrarEntrada ==
    ASSUME IInv, Crece, MostrarEntrada
    PROVE  Cliente'
  <1>1. /\ entrada.fase = "escribir" /\ Atendido("entrada")
        /\ pantalla' = familia[entrada.ses] /\ entrada' = SinEntrada
        /\ UNCHANGED <<red, cache, almacen, peticion, vuelo, salida, perdidas>>
    BY DEF MostrarEntrada
  <1>2. /\ cola' \in Seq(Flujos) /\ SinRepetir(cola')
        /\ \A f : En(f, cola') <=> En(f, cola) /\ f # "entrada"
    BY <1>1, Servido DEF Atendido, IInv, Cliente
  <1>3. \A f \in Flujos : /\ Pendiente(f)' <=> Pendiente(f)
                          /\ Llama(f)' <=> Llama(f) /\ f # "entrada"
    BY <1>1, Distintos DEF Pendiente, Llama, SinEntrada
  <1>4. familia[entrada.ses] \in 0 .. emitidas'
    BY <1>1 DEF IInv, Cliente, Tipos, Entradas, Crece
  <1>5. Tipos'
    BY <1>1, <1>4, TiposCrecen DEF IInv, Cliente, Tipos, red
  <1>6. EnCola'
    BY <1>2, <1>3 DEF IInv, Cliente, EnCola
  <1>7. Esperado' /\ Memoria'
    BY <1>1 DEF IInv, Cliente, Esperado, Memoria, red
  <1>8. TrasEntrada => Limpia'
    BY <1>3 DEF TrasEntrada, Limpia
  <1>9. Perfiles'
    BY <1>1, <1>8 DEF IInv, Cliente, Perfiles, DeEntrada, DePantalla, SinEntrada
  <1> QED
    BY <1>5, <1>6, <1>7, <1>9 DEF Cliente

\* A logout clears the session, and calls the storage.
LEMMA SalidaBorra ==
    ASSUME IInv, Crece, LimpiarBoveda, Llamar("salida"), salida # "borrar",
           salida' = "borrar", UNCHANGED <<red, peticion, vuelo, pantalla, entrada, perdidas>>
    PROVE  Cliente'
  <1>1. cola' = Append(cola, "salida") /\ envio' = envio /\ cierre' = cierre
    BY DEF Llamar, red
  <1>2. ~ En("salida", cola)
    BY Distintos DEF IInv, Cliente, EnCola, Llama, Pendiente
  <1>3. /\ cola' \in Seq(Flujos) /\ SinRepetir(cola')
        /\ \A x : En(x, cola') <=> En(x, cola) \/ x = "salida"
        /\ \A x, y : Antes(x, y, cola') <=>
                Antes(x, y, cola) \/ (En(x, cola) /\ y = "salida")
    BY <1>1, <1>2, Distintos, AlFinal DEF IInv, Cliente, EnCola
  <1>4. /\ \A f \in Flujos : /\ Pendiente(f)' <=> Pendiente(f) \/ f = "salida"
                             /\ Llama(f)' <=> Llama(f) \/ f = "salida"
        /\ Pendiente("salida")'
    BY DEF Pendiente, Llama
  <1>5. entrada.fase = "escribir" => Antes("entrada", "salida", cola')
    <2>1. entrada.fase = "escribir" => En("entrada", cola)
      BY Distintos DEF IInv, Cliente, EnCola, Llama
    <2> QED
      BY <1>3, <2>1
  <1>6. Antes("entrada", "vuelo", cola') => Antes("entrada", "vuelo", cola)
    BY <1>3
  <1>7. Perfiles' /\ Memoria' /\ cache' \in 0 .. emitidas' /\ almacen' \in Guardadas(emitidas')
    BY <1>4, <1>5, <1>6, Distintos, Borrada
  <1>8. Tipos'
    BY <1>1, <1>7, TiposCrecen DEF IInv, Cliente, Tipos
  <1>9. EnCola' /\ Esperado'
    BY <1>1, <1>3, <1>4 DEF IInv, Cliente, EnCola, Esperado
  <1> QED
    BY <1>7, <1>8, <1>9 DEF Cliente

LEMMA PasoSalir ==
    ASSUME IInv, Crece, Salir
    PROVE  Cliente'
  <1>1. /\ pantalla # 0 /\ salida = "libre"
        /\ UNCHANGED <<envio, peticion, vuelo, pantalla, entrada, perdidas>>
    BY DEF Salir
  <1>2. CASE cache # 0 \/ almacen # Vacio
    <2>1. /\ cache' = (IF cache # 0 THEN cache ELSE almacen.ses) /\ cierre' = cache'
          /\ salida' = "esperar" /\ UNCHANGED <<almacen, cola>>
      BY <1>2 DEF Salir, Vacio
    <2>2. almacen.ses \in 0 .. emitidas /\ cache \in 0 .. emitidas
      BY DEF IInv, Cliente, Tipos, Guardadas, Vacio, Crece
    <2>3. cache' \in 0 .. emitidas' /\ cierre' \in 0 .. emitidas'
      BY <2>1, <2>2, TiposCrecen DEF IInv, Cliente
    <2>4. \A f \in Flujos : (Pendiente(f)' <=> Pendiente(f)) /\ (Llama(f)' <=> Llama(f))
      BY <1>1, <2>1 DEF Pendiente, Llama
    <2>5. Tipos'
      BY <1>1, <2>1, <2>3, TiposCrecen DEF IInv, Cliente, Tipos
    <2>6. EnCola' /\ Esperado'
      BY <1>1, <2>1, <2>4 DEF IInv, Cliente, EnCola, Esperado
    <2>7. Memoria'
      BY <1>1, <2>1 DEF IInv, Cliente, Memoria
    <2>8. (Limpia' <=> Limpia) /\ entrada.fase = "libre"
      BY <1>1, <2>4 DEF Limpia, IInv, Cliente, Perfiles, Tipos, Entradas
    <2>9. Perfiles'
      BY <1>1, <2>1, <2>8 DEF IInv, Cliente, Perfiles, DePantalla
    <2> QED
      BY <2>5, <2>6, <2>7, <2>9 DEF Cliente
  <1>3. CASE cache = 0 /\ almacen = Vacio
    <2>1. salida' = "borrar" /\ Llamar("salida") /\ UNCHANGED <<cierre, cache, almacen>>
      BY <1>3 DEF Salir
    <2>2. LimpiarBoveda
      BY <1>3, <2>1 DEF LimpiarBoveda
    <2> QED
      BY <1>1, <2>1, <2>2, SalidaBorra DEF red
  <1> QED
    BY <1>2, <1>3

LEMMA PasoRecibirCierre ==
    ASSUME IInv, Crece, RecibirCierre
    PROVE  Cliente'
  BY SalidaBorra DEF RecibirCierre

\* Memory is lost: the client goes on with what the storage has.
LEMMA PasoRecargar ==
    ASSUME IInv, Crece, Recargar
    PROVE  Cliente'
  <1>1. /\ cache' = almacen.ses /\ cola' = <<>> /\ pantalla' = almacen.perfil
        /\ peticion' = [p \in Peticiones |-> "libre"] /\ vuelo' = EnTierra
        /\ Desistir /\ entrada' = SinEntrada /\ salida' = "libre"
        /\ UNCHANGED <<cierre, almacen>>
    BY DEF Recargar
  <1>2. /\ envio' \in [Envios -> Llamadas(emitidas')]
        /\ \A d \in Envios : ~ envio'[d].esperado
        /\ perdidas' \subseteq 0 .. emitidas'
    BY <1>1, Desistido DEF IInv
  <1>3. almacen.ses \in 0 .. emitidas' /\ almacen.perfil \in 0 .. emitidas'
    BY DEF IInv, Cliente, Tipos, Guardadas, Vacio, Crece
  <1>4. cola' \in Seq(Flujos) /\ SinRepetir(cola') /\ \A f : ~ En(f, cola')
    BY <1>1 DEF SinRepetir, En
  <1>5. \A f \in Flujos : ~ Llama(f)'
    BY <1>1, Distintos DEF Llama, Pendiente, EnTierra, SinEntrada
  <1>6. Tipos'
    BY <1>1, <1>2, <1>3, TiposCrecen DEF IInv, Cliente, Tipos, Fases
  <1>7. EnCola'
    BY <1>4, <1>5 DEF EnCola
  <1>8. Esperado' /\ Memoria'
    BY <1>1, <1>2 DEF Esperado, Memoria, EnTierra
  <1>9. Perfiles'
    BY <1>1 DEF Perfiles, DePantalla, EnTierra, SinEntrada
  <1> QED
    BY <1>6, <1>7, <1>8, <1>9 DEF Cliente

-----------------------------------------------------------------------------
(* The invariant, and what it gives.                                        *)

LEMMA Inicio == Init => IInv
  <1> SUFFICES ASSUME Init PROVE IInv
    OBVIOUS
  <1>1. Tabla!IInv
    <2>1. Tabla!CotasAssumption
      BY ClienteAssumption DEF Tabla!CotasAssumption, Tabla!IsFiniteSet, IsFiniteSet
    <2>2. Tabla!Init
      BY MismasAcciones DEF Init
    <2> QED
      BY <2>1, <2>2, Tabla!InitIInv
  <1>2. emitidas = 0
    BY DEF Init, Servidor!Init
  <1>3. Tipos
    BY <1>2 DEF Init, Tipos, SinEnvio, Vacio, EnTierra, SinEntrada, Guardadas, Vuelos,
       Entradas, Llamadas, Fases
  <1>4. \A f : ~ En(f, cola)
    BY DEF Init, En
  <1>5. \A f \in Flujos : ~ Llama(f)
    BY Distintos DEF Init, Llama, Pendiente, EnTierra, SinEntrada
  <1>6. EnCola
    BY <1>4, <1>5 DEF Init, EnCola, SinRepetir
  <1>7. Esperado /\ Memoria
    BY DEF Init, Esperado, Memoria, SinEnvio, EnTierra
  <1>8. Perfiles
    BY DEF Init, Perfiles, EnTierra, SinEntrada
  <1> QED
    BY <1>1, <1>3, <1>6, <1>7, <1>8 DEF IInv, Cliente

LEMMA Paso == IInv /\ [Next]_vars => IInv'
  <1> SUFFICES ASSUME IInv, [Next]_vars PROVE IInv'
    OBVIOUS
  <1>1. Tabla!IInv' /\ Crece
    BY FilasQuedan DEF IInv, Cliente
  <1>2. ASSUME NEW p \in Peticiones,
               \/ Enviar(p) \/ Contestada(p)
               \/ CompartirRefresco(p) \/ IniciarRefresco(p) \/ PedirToken(p)
               \/ BorrarSesion(p) \/ ExpirarSesion(p)
        PROVE  Cliente'
    BY <1>1, <1>2, PasoDePeticion, PasoIniciarRefresco, PasoPedirToken, PasoBorrarSesion,
       PasoExpirarSesion
  <1>3. ASSUME BuscarToken \/ VencerRefresco \/ LeerSesion \/ GuardarTokens
        PROVE  Cliente'
    BY <1>1, <1>3, PasoBuscarToken, PasoVencerRefresco, PasoLeerSesion, PasoGuardarTokens
  <1>4. ASSUME \/ Entrar \/ PerderEntrada \/ RecibirEntrada \/ GuardarEntrada
               \/ MostrarEntrada
        PROVE  Cliente'
    BY <1>1, <1>4, PasoEntrar, PasoRecibirEntrada, PasoGuardarEntrada, PasoMostrarEntrada
  <1>5. ASSUME Salir \/ RecibirCierre \/ TerminarSalida \/ Recargar
        PROVE  Cliente'
    BY <1>1, <1>5, PasoSalir, PasoRecibirCierre, PasoTerminarSalida, PasoRecargar
  <1>6. ASSUME NEW e \in Envios,
               \/ RecibirTokens(e) \/ RecibirRechazo(e)
               \/ LlegarRefresco(e) \/ AtenderRefresco(e) \/ Perder(e)
        PROVE  Cliente'
    BY <1>1, <1>6, PasoRecibirTokens, PasoRecibirRechazo, PasoDeLaRed
  <1>7. ASSUME LlegarCierre
        PROVE  Cliente'
    BY <1>1, <1>7, PasoDelCierre
  <1>8. ASSUME UNCHANGED vars
        PROVE  Cliente'
    <2>1. /\ UNCHANGED <<boveda, vuelo, bloc, perdidas>>
          /\ envio' = envio /\ cierre' = cierre /\ peticion' = peticion
      BY <1>8 DEF vars, red
    <2>2. /\ envio' \in [Envios -> Llamadas(emitidas')] /\ cierre' \in 0 .. emitidas'
          /\ peticion' \in [Peticiones -> Fases]
      BY <1>1, <2>1, TiposCrecen DEF IInv, Cliente, Tipos
    <2> QED
      BY <1>1, <2>1, <2>2, ClienteQuietoSigue DEF IInv
  <1>9. Cliente'
    BY <1>2, <1>3, <1>4, <1>5, <1>6, <1>7, <1>8 DEF Next
  <1> QED
    BY <1>1, <1>9 DEF IInv

THEOREM Invariante == Spec => []IInv
  BY Inicio, Paso, PTL DEF Spec

\* Only saving a login says whether a refresh was in flight.
LEMMA PasoDelCruce == [Next]_vars => UNCHANGED cruce \/ GuardarEntrada
  <1> SUFFICES ASSUME [Next]_vars, ~ GuardarEntrada PROVE UNCHANGED cruce
    OBVIOUS
  <1>1. ASSUME NEW p \in Peticiones,
               \/ Enviar(p) \/ Contestada(p)
               \/ CompartirRefresco(p) \/ IniciarRefresco(p) \/ PedirToken(p)
               \/ BorrarSesion(p) \/ ExpirarSesion(p)
        PROVE  UNCHANGED cruce
    BY <1>1 DEF Enviar, Contestada, CompartirRefresco, IniciarRefresco, PedirToken,
       BorrarSesion, ExpirarSesion
  <1>2. ASSUME \/ BuscarToken \/ VencerRefresco \/ LeerSesion \/ GuardarTokens
               \/ Entrar \/ PerderEntrada \/ RecibirEntrada \/ MostrarEntrada
               \/ Salir \/ RecibirCierre \/ TerminarSalida \/ Recargar \/ LlegarCierre
        PROVE  UNCHANGED cruce
    BY <1>2 DEF BuscarToken, VencerRefresco, LeerSesion, GuardarTokens, Entrar,
       PerderEntrada, RecibirEntrada, MostrarEntrada, Salir, RecibirCierre,
       TerminarSalida, Recargar, LlegarCierre, ClienteQuieto
  <1>3. ASSUME NEW e \in Envios,
               \/ RecibirTokens(e) \/ RecibirRechazo(e)
               \/ LlegarRefresco(e) \/ AtenderRefresco(e) \/ Perder(e)
        PROVE  UNCHANGED cruce
    BY <1>3 DEF RecibirTokens, RecibirRechazo, LlegarRefresco, AtenderRefresco, Perder,
       ClienteQuieto
  <1>4. ASSUME UNCHANGED vars
        PROVE  UNCHANGED cruce
    BY <1>4 DEF vars
  <1> QED
    BY <1>1, <1>2, <1>3, <1>4 DEF Next

LEMMA TipoDelCruce == Spec => [](cruce \in BOOLEAN)
  <1>1. Init => cruce \in BOOLEAN
    BY DEF Init
  <1>2. cruce \in BOOLEAN /\ [Next]_vars => (cruce \in BOOLEAN)'
    BY PasoDelCruce DEF GuardarEntrada
  <1> QED
    BY <1>1, <1>2, PTL DEF Spec

\* Vault, flows and wire keep their types, however the answers are interleaved or lost.
THEOREM TypeSeguro == Spec => []TypeOK
  <1>1. IInv /\ cruce \in BOOLEAN => TypeOK
    <2> SUFFICES ASSUME IInv, cruce \in BOOLEAN PROVE TypeOK
      OBVIOUS
    <2>1. Servidor!TypeOK
      BY DEF IInv, Tabla!IInv, Tabla!TypeOK, Servidor!TypeOK, Tabla!Sesiones,
         Servidor!Sesiones, Tabla!Libre, Servidor!Libre, Tabla!Emitidas, Servidor!Emitidas
    <2>2. 0 .. emitidas \subseteq Tokens /\ 1 .. emitidas \subseteq Tokens /\ 0 \in Tokens
      BY ClienteAssumption DEF IInv, Tabla!IInv, Tabla!TypeOK, Tokens
    <2>3. Guardadas(emitidas) \subseteq [perfil : Tokens, ses : Tokens]
      BY <2>2 DEF Guardadas, Vacio
    <2>4. almacen \in [perfil : Tokens, ses : Tokens]
      BY <2>3 DEF IInv, Cliente, Tipos
    <2>5. vuelo \in [fase : {"libre", "buscar", "esperar", "leer", "escribir"}, ses : Tokens,
                     leida : [perfil : Tokens, ses : Tokens]]
      BY <2>2, <2>3 DEF IInv, Cliente, Tipos, Vuelos
    <2>6. envio \in [Envios -> [fase : {"libre", "camino", "servidor", "vuelta"},
                                ses : Tokens, esperado : BOOLEAN]]
      BY <2>2 DEF IInv, Cliente, Tipos, Llamadas
    <2>7. entrada \in [fase : {"libre", "respuesta", "limpiar", "escribir"}, ses : Tokens]
      BY <2>2 DEF IInv, Cliente, Tipos, Entradas
    <2>8. /\ cierre \in Tokens /\ cache \in Tokens /\ pantalla \in Tokens
          /\ perdidas \subseteq Tokens /\ salida \in {"libre", "esperar", "borrar"}
          /\ peticion \in [Peticiones -> Fases]
      BY <2>2 DEF IInv, Cliente, Tipos
    <2>9. cola \in Seq({"vuelo", "entrada", "salida"} \union Peticiones)
      BY DEF IInv, Cliente, EnCola, Flujos
    <2> QED
      BY <2>1, <2>4, <2>5, <2>6, <2>7, <2>8, <2>9 DEF TypeOK, Fases
  <1> QED
    BY <1>1, Invariante, TipoDelCruce, PTL

\* The client, the wire and the server together take only steps that the server's own
\* specification allows: what is proved of the server holds of the composition.
THEOREM ServidorImplementado == Spec => Servidor!Spec
  <1>1. Init => Servidor!Init
    BY DEF Init
  <1>2. IInv /\ [Next]_vars => [Servidor!Next]_(Servidor!vars)
    <2> SUFFICES ASSUME IInv, [Next]_vars PROVE [Servidor!Next]_(Servidor!vars)
      OBVIOUS
    <2>1. emitidas \in Nat
      BY FilasQuedan DEF IInv, Cliente, Crece
    <2> QED
      BY <2>1, PasoDelServidor DEF IInv, Cliente
  <1> QED
    BY <1>1, <1>2, Invariante, PTL DEF Spec, Servidor!Spec

-----------------------------------------------------------------------------
(* The copies of a token.                                                   *)

\* A family that no logout or reuse has closed and of which no refresh was given up.
Sana(f) == ~ invalidada[f] /\ f \notin perdidas

\* The server would take the token of row s.
Viva(s) == Sana(familia[s]) => ~ revocado[s]

\* The refresh that is waited for presented it, so it may be spent already.
EnCurso(s) == vuelo.fase = "esperar" /\ s = vuelo.ses

\* On the wire: only the refresh that is waited for, or one of a family given up, can
\* be at the server; its answer is a token of the family of the one it presented.
LlamadaOK(e) ==
    /\ solicitud[e] # Servidor!Libre <=> envio[e].fase = "servidor"
    /\ solicitud[e] # Servidor!Libre => solicitud[e].ses = envio[e].ses
    /\ solicitud[e].fase = "vigente" => Viva(solicitud[e].ses)
    /\ envio[e].fase = "camino" => Viva(envio[e].ses)
    /\ envio[e].fase \in {"camino", "servidor"} =>
            IF envio[e].esperado THEN envio[e].ses = vuelo.ses
                                 ELSE familia[envio[e].ses] \in perdidas
    /\ envio[e].fase = "vuelta" /\ envio[e].esperado /\ envio[e].ses # 0 =>
            familia[envio[e].ses] = familia[vuelo.ses] /\ Viva(envio[e].ses)

EnLaRed == \A e \in Envios : LlamadaOK(e)

\* In the vault, and in what a flight has read of it: a token that may be spent is the
\* one presented, or is about to be replaced in the storage by its successor.
EnBoveda ==
    /\ cache # 0 => Viva(cache) \/ EnCurso(cache)
    /\ almacen.ses # 0 =>
            \/ Viva(almacen.ses) \/ EnCurso(almacen.ses)
            \/ /\ vuelo.fase = "leer" /\ vuelo.leida # Vacio /\ cache # 0
               /\ familia[almacen.ses] = familia[vuelo.ses]
    /\ vuelo.fase = "buscar" /\ vuelo.leida # Vacio => Viva(vuelo.leida.ses)
    /\ vuelo.fase = "leer" => Viva(vuelo.ses)

\* The tokens of a login that are not saved yet are nowhere else.
EnEntrada ==
    entrada.fase \in {"respuesta", "limpiar"} =>
        /\ Viva(entrada.ses)
        /\ \A s \in {cache, almacen.ses, vuelo.ses, vuelo.leida.ses} \ {0} :
                familia[s] # familia[entrada.ses]

Copias == EnLaRed /\ EnBoveda /\ EnEntrada /\ ReusoNuncaPropio
IInvReuso == IInv /\ Copias

\* The tokens are rows.
LEMMA CopiasSonFilas ==
    ASSUME Tipos, emitidas \in Nat
    PROVE  /\ cache # 0 => cache \in 1 .. emitidas
           /\ almacen.ses # 0 => almacen.ses \in 1 .. emitidas
           /\ almacen # Vacio <=> almacen.ses # 0
           /\ vuelo.leida # Vacio <=> vuelo.leida.ses # 0
           /\ vuelo.ses # 0 => vuelo.ses \in 1 .. emitidas
           /\ vuelo.leida.ses # 0 => vuelo.leida.ses \in 1 .. emitidas
           /\ vuelo.fase \in {"esperar", "leer", "escribir"} => vuelo.ses # 0
           /\ entrada.fase # "libre" => entrada.ses \in 1 .. emitidas
           /\ \A e \in Envios : /\ envio[e].ses # 0 => envio[e].ses \in 1 .. emitidas
                                /\ envio[e].fase = "camino" => envio[e].ses # 0
  <1>1. \A x \in Guardadas(emitidas) : /\ x # Vacio <=> x.ses # 0
                                       /\ x.ses # 0 => x.ses \in 1 .. emitidas
    BY DEF Guardadas, Vacio
  <1>2. almacen \in Guardadas(emitidas) /\ vuelo.leida \in Guardadas(emitidas)
    BY DEF Tipos, Vuelos
  <1> QED
    BY <1>1, <1>2 DEF Tipos, Vuelos, Entradas, Llamadas

\* A request open at the server has read a row.
LEMMA SolicitudesSonFilas ==
    ASSUME Tabla!IInv, NEW e \in Envios
    PROVE  /\ Servidor!Libre = [fase |-> "libre", ses |-> 0]
           /\ solicitud[e] # Servidor!Libre =>
                /\ solicitud[e].fase \in {"vigente", "reuso"}
                /\ solicitud[e].ses \in 1 .. emitidas
           /\ solicitud[e].fase \in {"vigente", "reuso"} => solicitud[e] # Servidor!Libre
  BY DEF Tabla!IInv, Tabla!TypeOK, Tabla!Libre, Servidor!Libre, Tabla!Emitidas

LEMMA TablaQuieta ==
    ASSUME UNCHANGED servidor
    PROVE  UNCHANGED <<emitidas, familia, revocado, solicitud, invalidada>>
  BY DEF servidor

-----------------------------------------------------------------------------
(* The wire, in the steps that leave the server alone.                      *)

\* A call stays as it is, or is taken from the wire.
LEMMA RedSigue ==
    ASSUME IInv, EnLaRed, UNCHANGED servidor, UNCHANGED perdidas,
           \A d \in Envios :
                \/ envio'[d] = envio[d] /\ (envio[d].esperado => vuelo'.ses = vuelo.ses)
                \/ envio'[d] = SinEnvio /\ envio[d].fase # "servidor"
    PROVE  EnLaRed'
  <1> SUFFICES ASSUME NEW d \in Envios PROVE LlamadaOK(d)'
    BY DEF EnLaRed
  <1>1. LlamadaOK(d)
    BY DEF EnLaRed
  <1>2. CASE envio'[d] = envio[d] /\ (envio[d].esperado => vuelo'.ses = vuelo.ses)
    BY <1>1, <1>2, TablaQuieta DEF LlamadaOK, Viva, Sana, Servidor!Libre
  <1>3. CASE envio'[d] = SinEnvio /\ envio[d].fase # "servidor"
    BY <1>1, <1>3, SolicitudesSonFilas, TablaQuieta DEF LlamadaOK, SinEnvio, IInv, Servidor!Libre
  <1> QED
    BY <1>2, <1>3

\* A refresh is sent with a token that the server would take.
LEMMA RedPresentada ==
    ASSUME IInv, EnLaRed, UNCHANGED servidor, UNCHANGED perdidas,
           NEW s \in 1 .. emitidas, Presentar(s), Viva(s), \A d \in Envios : ~ envio[d].esperado
    PROVE  EnLaRed' /\ vuelo' = [fase |-> "esperar", ses |-> s, leida |-> Vacio]
  <1>1. vuelo' = [fase |-> "esperar", ses |-> s, leida |-> Vacio]
    BY DEF Presentar, EnTierra
  <1>2. PICK e \in Envios :
            /\ envio[e] = SinEnvio
            /\ envio' = [envio EXCEPT ![e] = [fase |-> "camino", ses |-> s, esperado |-> TRUE]]
    BY DEF Presentar
  <1>3. /\ envio'[e] = [fase |-> "camino", ses |-> s, esperado |-> TRUE]
        /\ \A d \in Envios \ {e} : envio'[d] = envio[d]
    BY <1>2 DEF IInv, Cliente, Tipos
  <1>4. solicitud[e] = Servidor!Libre /\ solicitud[e].fase # "vigente"
    BY <1>2, SolicitudesSonFilas DEF EnLaRed, LlamadaOK, SinEnvio, IInv
  <1>5. ASSUME NEW d \in Envios PROVE LlamadaOK(d)'
    <2>1. CASE d = e
      BY <1>1, <1>3, <1>4, <2>1, TablaQuieta DEF LlamadaOK, Viva, Sana, Servidor!Libre
    <2>2. CASE d # e
      <3>1. LlamadaOK(d) /\ envio'[d] = envio[d] /\ ~ envio[d].esperado
        BY <1>3, <2>2 DEF EnLaRed
      <3> QED
        BY <3>1, TablaQuieta DEF LlamadaOK, Viva, Sana, Servidor!Libre
    <2> QED
      BY <2>1, <2>2
  <1> QED
    BY <1>1, <1>5 DEF EnLaRed

\* Given up, the refresh that was waited for leaves its family to the history.
LEMMA RedDesistida ==
    ASSUME IInv, EnLaRed, UNCHANGED servidor, Desistir
    PROVE  /\ EnLaRed' /\ perdidas \subseteq perdidas'
           /\ vuelo.ses # 0 => familia[vuelo.ses] \in perdidas'
  <1>1. /\ envio' = [e \in Envios |-> [envio[e] EXCEPT !.esperado = FALSE]]
        /\ perdidas' = perdidas \union {familia[s] : s \in {vuelo.ses} \ {0}}
    BY DEF Desistir
  <1>2. perdidas \subseteq perdidas' /\ (vuelo.ses # 0 => familia[vuelo.ses] \in perdidas')
    BY <1>1
  <1>3. ASSUME NEW d \in Envios
        PROVE  /\ envio'[d].fase = envio[d].fase /\ envio'[d].ses = envio[d].ses
               /\ envio'[d].esperado = FALSE
    BY <1>1 DEF IInv, Cliente, Tipos, Llamadas
  <1>4. \A d \in Envios : envio[d].esperado => vuelo.ses # 0
    BY DEF IInv, Cliente, Esperado, Tipos, Vuelos
  <1>5. ASSUME NEW d \in Envios PROVE LlamadaOK(d)'
    <2>1. LlamadaOK(d)
      BY DEF EnLaRed
    <2> QED
      BY <1>2, <1>3, <1>4, <2>1, TablaQuieta DEF LlamadaOK, Viva, Sana, Servidor!Libre
  <1> QED
    BY <1>2, <1>5 DEF EnLaRed

-----------------------------------------------------------------------------
(* One lemma per action.                                                    *)

\* The server's memory of a reuse stays founded.
LEMMA ReusoSigue ==
    ASSUME IInv, ReusoNuncaPropio, UNCHANGED servidor, perdidas \subseteq perdidas'
    PROVE  ReusoNuncaPropio'
  BY TablaQuieta DEF ReusoNuncaPropio

\* Steps that move no token.
LEMMA CopiasSiguen ==
    ASSUME IInv, Copias, UNCHANGED servidor,
           UNCHANGED <<envio, cache, almacen, vuelo, perdidas>>,
           entrada' = entrada \/ entrada'.fase \notin {"respuesta", "limpiar"}
    PROVE  Copias'
  <1>1. EnLaRed'
    BY RedSigue DEF Copias
  <1>2. EnBoveda'
    BY TablaQuieta DEF Copias, EnBoveda, EnCurso, Viva, Sana
  <1>3. EnEntrada'
    BY TablaQuieta DEF Copias, EnEntrada, Viva, Sana
  <1>4. ReusoNuncaPropio'
    BY ReusoSigue DEF Copias
  <1> QED
    BY <1>1, <1>2, <1>3, <1>4 DEF Copias

\* The vault is cleared.
LEMMA CopiasSinBoveda ==
    ASSUME IInv, Copias, UNCHANGED servidor, EnLaRed', perdidas \subseteq perdidas',
           cache' = 0, almacen' = Vacio, vuelo' \in {vuelo, EnTierra},
           entrada'.ses = entrada.ses,
           entrada'.fase \in {"respuesta", "limpiar"} => entrada.fase \in {"respuesta", "limpiar"}
    PROVE  Copias'
  <1>1. EnTierra.ses = 0 /\ EnTierra.leida.ses = 0 /\ EnTierra.fase = "libre" /\ Vacio.ses = 0
    BY DEF EnTierra, Vacio
  <1>2. EnBoveda'
    BY <1>1, TablaQuieta DEF Copias, EnBoveda, EnCurso, Viva, Sana
  <1>3. EnEntrada'
    BY <1>1, TablaQuieta DEF Copias, EnEntrada, Viva, Sana
  <1>4. ReusoNuncaPropio'
    BY ReusoSigue DEF Copias
  <1> QED
    BY <1>2, <1>3, <1>4 DEF Copias

LEMMA CopiasDePeticion ==
    ASSUME IInv, Copias, NEW p \in Peticiones,
           Enviar(p) \/ Contestada(p) \/ CompartirRefresco(p) \/ ExpirarSesion(p)
    PROVE  Copias'
  BY CopiasSiguen DEF Enviar, Contestada, CompartirRefresco, ExpirarSesion, red, boveda, bloc

LEMMA CopiasDePantalla ==
    ASSUME IInv, Copias, PerderEntrada \/ MostrarEntrada \/ TerminarSalida
    PROVE  Copias'
  BY CopiasSiguen DEF PerderEntrada, MostrarEntrada, TerminarSalida, red, boveda, SinEntrada

LEMMA CopiasBorrar ==
    ASSUME IInv, Copias, RecibirCierre \/ RecibirEntrada \/ \E p \in Peticiones : BorrarSesion(p)
    PROVE  Copias'
  <1>1. /\ UNCHANGED servidor /\ UNCHANGED <<envio, vuelo, perdidas>>
        /\ cache' = 0 /\ almacen' = Vacio /\ entrada'.ses = entrada.ses
        /\ entrada'.fase \in {"respuesta", "limpiar"} => entrada.fase \in {"respuesta", "limpiar"}
    BY DEF RecibirCierre, RecibirEntrada, BorrarSesion, LimpiarBoveda, red, bloc, IInv, Cliente,
       Tipos, Entradas
  <1>2. EnLaRed'
    BY <1>1, RedSigue DEF Copias
  <1> QED
    BY <1>1, <1>2, CopiasSinBoveda

\* The flight ends badly.
LEMMA CopiasFallar ==
    ASSUME IInv, Copias,
           VencerRefresco \/ \E e \in Envios : RecibirRechazo(e)
    PROVE  Copias'
  <1>1. /\ UNCHANGED servidor /\ UNCHANGED entrada
        /\ vuelo' = EnTierra /\ cache' = 0 /\ almacen' = Vacio
    BY DEF VencerRefresco, RecibirRechazo, FallarRefresco, Reanudar, LimpiarBoveda, bloc
  <1>2. CASE VencerRefresco
    <2>1. Desistir
      BY <1>2 DEF VencerRefresco
    <2> QED
      BY <1>1, <2>1, RedDesistida, CopiasSinBoveda DEF Copias
  <1>3. ASSUME NEW e \in Envios, RecibirRechazo(e)
        PROVE  Copias'
    <2>1. /\ envio[e].fase = "vuelta" /\ envio[e].esperado
          /\ envio' = [envio EXCEPT ![e] = SinEnvio] /\ UNCHANGED perdidas
      BY <1>3 DEF RecibirRechazo, Recoger
    <2>2. \A d \in Envios : IF d = e THEN envio'[d] = SinEnvio
                                     ELSE envio'[d] = envio[d] /\ ~ envio[d].esperado
      BY <2>1 DEF IInv, Cliente, Tipos, Esperado
    <2>3. EnLaRed'
      BY <1>1, <2>1, <2>2, RedSigue DEF Copias
    <2> QED
      BY <1>1, <2>1, <2>3, CopiasSinBoveda
  <1> QED
    BY <1>2, <1>3

\* The token in memory, or the one read, is presented.
LEMMA CopiasPresentar ==
    ASSUME IInv, Copias, UNCHANGED servidor, UNCHANGED <<perdidas, almacen, entrada>>,
           vuelo.fase \in {"libre", "buscar"},
           NEW s \in 1 .. emitidas, Presentar(s), Viva(s), cache' = s,
           s \in {cache, vuelo.leida.ses}
    PROVE  Copias'
  <1>1. \A d \in Envios : ~ envio[d].esperado
    BY DEF IInv, Cliente, Esperado
  <1>2. EnLaRed' /\ vuelo' = [fase |-> "esperar", ses |-> s, leida |-> Vacio]
    BY <1>1, RedPresentada DEF Copias
  <1>3. EnBoveda'
    BY <1>2, TablaQuieta DEF Copias, EnBoveda, EnCurso, Viva, Sana
  <1>4. EnEntrada'
    BY <1>2, TablaQuieta DEF Copias, EnEntrada, Viva, Sana, Vacio
  <1>5. ReusoNuncaPropio'
    BY ReusoSigue DEF Copias
  <1> QED
    BY <1>2, <1>3, <1>4, <1>5 DEF Copias

LEMMA CopiasIniciarRefresco ==
    ASSUME IInv, Copias, emitidas \in Nat, NEW p \in Peticiones, IniciarRefresco(p)
    PROVE  Copias'
  <1>1. /\ vuelo.fase = "libre" /\ cache # 0 /\ Presentar(cache)
        /\ UNCHANGED servidor /\ UNCHANGED <<perdidas, cache, almacen, entrada>>
    BY DEF IniciarRefresco, boveda, bloc
  <1>2. cache \in 1 .. emitidas
    BY <1>1, CopiasSonFilas DEF IInv, Cliente
  <1>3. Viva(cache)
    BY <1>1 DEF Copias, EnBoveda, EnCurso
  <1> QED
    BY <1>1, <1>2, <1>3, CopiasPresentar

LEMMA CopiasPedirToken ==
    ASSUME IInv, Copias, NEW p \in Peticiones, PedirToken(p)
    PROVE  Copias'
  <1>1. /\ vuelo.fase = "libre" /\ cache = 0
        /\ vuelo' = [fase |-> "buscar", ses |-> 0, leida |-> almacen]
        /\ UNCHANGED servidor /\ UNCHANGED <<envio, perdidas, cache, almacen, entrada>>
    BY DEF PedirToken, EnTierra, red, bloc
  <1>2. \A d \in Envios : ~ envio[d].esperado
    BY <1>1 DEF IInv, Cliente, Esperado
  <1>3. EnLaRed'
    BY <1>1, <1>2, RedSigue DEF Copias
  <1>4. almacen # Vacio => almacen.ses # 0
    BY DEF IInv, Cliente, Tipos, Guardadas, Vacio
  <1>5. EnBoveda'
    BY <1>1, <1>4, TablaQuieta DEF Copias, EnBoveda, EnCurso, Viva, Sana
  <1>6. EnEntrada'
    BY <1>1, TablaQuieta DEF Copias, EnEntrada, Viva, Sana
  <1>7. ReusoNuncaPropio'
    BY <1>1, ReusoSigue DEF Copias
  <1> QED
    BY <1>3, <1>5, <1>6, <1>7 DEF Copias

LEMMA CopiasBuscarToken ==
    ASSUME IInv, Copias, emitidas \in Nat, BuscarToken
    PROVE  Copias'
  <1>1. /\ vuelo.fase = "buscar"
        /\ UNCHANGED servidor /\ UNCHANGED <<perdidas, entrada>>
    BY DEF BuscarToken, bloc
  <1>2. CASE vuelo.leida # Vacio
    <2>1. Presentar(vuelo.leida.ses) /\ cache' = vuelo.leida.ses /\ UNCHANGED almacen
      BY <1>2 DEF BuscarToken
    <2>2. vuelo.leida.ses \in 1 .. emitidas
      BY <1>2, CopiasSonFilas DEF IInv, Cliente
    <2>3. Viva(vuelo.leida.ses)
      BY <1>1, <1>2 DEF Copias, EnBoveda
    <2> QED
      BY <1>1, <2>1, <2>2, <2>3, CopiasPresentar
  <1>3. CASE vuelo.leida = Vacio
    <2>1. vuelo' = EnTierra /\ cache' = 0 /\ almacen' = Vacio /\ UNCHANGED envio
      BY <1>3 DEF BuscarToken, FallarRefresco, Reanudar, LimpiarBoveda
    <2>2. \A d \in Envios : ~ envio[d].esperado
      BY <1>1 DEF IInv, Cliente, Esperado
    <2>3. EnLaRed'
      BY <1>1, <2>1, <2>2, RedSigue DEF Copias
    <2> QED
      BY <1>1, <2>1, <2>3, CopiasSinBoveda
  <1> QED
    BY <1>2, <1>3

\* The successor arrives: the storage keeps its parent until the session is written.
LEMMA CopiasRecibirTokens ==
    ASSUME IInv, Copias, NEW e \in Envios, RecibirTokens(e)
    PROVE  Copias'
  <1>1. /\ envio[e].fase = "vuelta" /\ envio[e].esperado /\ envio[e].ses # 0
        /\ envio' = [envio EXCEPT ![e] = SinEnvio] /\ cache' = envio[e].ses
        /\ vuelo' = [fase |-> "leer", ses |-> envio[e].ses, leida |-> almacen]
        /\ UNCHANGED servidor /\ UNCHANGED <<perdidas, almacen, entrada>>
    BY DEF RecibirTokens, Recoger, bloc
  <1>2. \A d \in Envios : IF d = e THEN envio'[d] = SinEnvio
                                   ELSE envio'[d] = envio[d] /\ ~ envio[d].esperado
    BY <1>1 DEF IInv, Cliente, Tipos, Esperado
  <1>3. EnLaRed'
    BY <1>1, <1>2, RedSigue DEF Copias
  <1>4. /\ familia[envio[e].ses] = familia[vuelo.ses] /\ Viva(envio[e].ses)
        /\ vuelo.fase = "esperar" /\ vuelo.ses # 0
    BY <1>1 DEF Copias, EnLaRed, LlamadaOK, IInv, Cliente, Esperado, Tipos, Vuelos
  <1>5. almacen # Vacio <=> almacen.ses # 0
    BY DEF IInv, Cliente, Tipos, Guardadas, Vacio
  <1>6. EnBoveda'
    BY <1>1, <1>4, <1>5, TablaQuieta DEF Copias, EnBoveda, EnCurso, Viva, Sana
  <1>7. EnEntrada'
    BY <1>1, <1>4, TablaQuieta DEF Copias, EnEntrada, Viva, Sana
  <1>8. ReusoNuncaPropio'
    BY <1>1, ReusoSigue DEF Copias
  <1> QED
    BY <1>3, <1>6, <1>7, <1>8 DEF Copias

\* The session is written with the successor, or there was none to write.
LEMMA CopiasLeerSesion ==
    ASSUME IInv, Copias, LeerSesion \/ GuardarTokens
    PROVE  Copias'
  <1>1. /\ vuelo.fase \in {"leer", "escribir"}
        /\ UNCHANGED servidor /\ UNCHANGED <<envio, perdidas, entrada>>
    BY DEF LeerSesion, GuardarTokens, red, bloc
  <1>2. \A d \in Envios : ~ envio[d].esperado
    BY <1>1 DEF IInv, Cliente, Esperado
  <1>3. EnLaRed'
    BY <1>1, <1>2, RedSigue DEF Copias
  <1>4. ReusoNuncaPropio'
    BY <1>1, ReusoSigue DEF Copias
  <1>5. EnTierra.ses = 0 /\ EnTierra.leida.ses = 0 /\ EnTierra.fase = "libre"
    BY DEF EnTierra, Vacio
  <1>6. CASE vuelo.fase = "leer" /\ vuelo.leida = Vacio
    <2>1. vuelo' = EnTierra /\ cache' = 0 /\ almacen' = almacen
      BY <1>6 DEF LeerSesion, GuardarTokens, Repetir, Reanudar
    <2>2. EnBoveda'
      BY <1>1, <1>5, <1>6, <2>1, TablaQuieta DEF Copias, EnBoveda, EnCurso, Viva, Sana
    <2>3. EnEntrada'
      BY <1>1, <1>5, <2>1, TablaQuieta DEF Copias, EnEntrada, Viva, Sana
    <2> QED
      BY <1>3, <1>4, <2>2, <2>3 DEF Copias
  <1>7. CASE vuelo.fase = "leer" /\ vuelo.leida # Vacio
    <2>1. /\ vuelo' = [vuelo EXCEPT !.fase = "escribir"] /\ cache' = vuelo.ses
          /\ almacen'.ses = vuelo.ses
      BY <1>7 DEF LeerSesion, GuardarTokens, Guardar
    <2>2. vuelo'.fase = "escribir" /\ vuelo'.ses = vuelo.ses /\ vuelo'.leida = vuelo.leida
      BY <2>1 DEF IInv, Cliente, Tipos, Vuelos
    <2>3. EnBoveda'
      BY <1>1, <1>7, <2>1, <2>2, TablaQuieta DEF Copias, EnBoveda, EnCurso, Viva, Sana
    <2>4. EnEntrada'
      BY <1>1, <2>1, <2>2, TablaQuieta DEF Copias, EnEntrada, Viva, Sana
    <2> QED
      BY <1>3, <1>4, <2>3, <2>4 DEF Copias
  <1>8. CASE vuelo.fase = "escribir"
    <2>1. vuelo' = EnTierra /\ cache' = cache /\ almacen' = almacen
      BY <1>8 DEF LeerSesion, GuardarTokens, Repetir, Reanudar
    <2>2. EnBoveda'
      BY <1>1, <1>5, <1>8, <2>1, TablaQuieta DEF Copias, EnBoveda, EnCurso, Viva, Sana
    <2>3. EnEntrada'
      BY <1>1, <1>5, <2>1, TablaQuieta DEF Copias, EnEntrada, Viva, Sana
    <2> QED
      BY <1>3, <1>4, <2>2, <2>3 DEF Copias
  <1> QED
    BY <1>1, <1>6, <1>7, <1>8

\* The new login is the vault's; what a flight brings is of another family.
LEMMA CopiasGuardarEntrada ==
    ASSUME IInv, Copias, GuardarEntrada
    PROVE  Copias'
  <1>1. /\ entrada.fase = "limpiar" /\ entrada'.fase = "escribir"
        /\ cache' = entrada.ses /\ almacen'.ses = entrada.ses
        /\ UNCHANGED servidor /\ UNCHANGED <<envio, perdidas, vuelo>>
    BY DEF GuardarEntrada, Guardar, red, IInv, Cliente, Tipos, Entradas
  <1>2. EnLaRed'
    BY <1>1, RedSigue DEF Copias
  <1>3. Viva(entrada.ses)
    BY <1>1 DEF Copias, EnEntrada
  <1>4. EnBoveda'
    BY <1>1, <1>3, TablaQuieta DEF Copias, EnBoveda, EnCurso, Viva, Sana
  <1>5. EnEntrada'
    BY <1>1 DEF EnEntrada
  <1>6. ReusoNuncaPropio'
    BY <1>1, ReusoSigue DEF Copias
  <1> QED
    BY <1>2, <1>4, <1>5, <1>6 DEF Copias

\* A logout with an empty memory takes the token of the storage into it.
LEMMA CopiasSalir ==
    ASSUME IInv, Copias, Salir
    PROVE  Copias'
  <1>1. /\ UNCHANGED servidor /\ UNCHANGED <<envio, perdidas, vuelo, entrada, almacen>>
        /\ cache' \in {cache, almacen.ses} /\ (cache # 0 => cache' = cache)
    BY DEF Salir
  <1>2. EnLaRed'
    BY <1>1, RedSigue DEF Copias
  <1>3. EnBoveda'
    BY <1>1, TablaQuieta DEF Copias, EnBoveda, EnCurso, Viva, Sana
  <1>4. EnEntrada'
    BY <1>1, TablaQuieta DEF Copias, EnEntrada, Viva, Sana
  <1>5. ReusoNuncaPropio'
    BY <1>1, ReusoSigue DEF Copias
  <1> QED
    BY <1>2, <1>3, <1>4, <1>5 DEF Copias

\* A reload goes on with the storage; a token that may be spent is of the flight that
\* the reload gives up.
LEMMA CopiasRecargar ==
    ASSUME IInv, Copias, emitidas \in Nat, Recargar
    PROVE  Copias'
  <1>1. /\ cache' = almacen.ses /\ almacen' = almacen /\ vuelo' = EnTierra
        /\ Desistir /\ entrada' = SinEntrada /\ UNCHANGED servidor
    BY DEF Recargar
  <1>2. /\ EnLaRed' /\ perdidas \subseteq perdidas'
        /\ vuelo.ses # 0 => familia[vuelo.ses] \in perdidas'
    BY <1>1, RedDesistida DEF Copias
  <1>3. vuelo.fase \in {"esperar", "leer"} => vuelo.ses # 0
    BY DEF IInv, Cliente, Tipos, Vuelos
  <1>4. almacen.ses # 0 => Viva(almacen.ses) \/ familia[almacen.ses] \in perdidas'
    BY <1>2, <1>3 DEF Copias, EnBoveda, EnCurso
  <1>5. EnBoveda'
    BY <1>1, <1>2, <1>4, TablaQuieta DEF EnBoveda, EnTierra, Viva, Sana
  <1>6. EnEntrada'
    BY <1>1 DEF EnEntrada, SinEntrada
  <1>7. ReusoNuncaPropio'
    BY <1>1, <1>2, ReusoSigue DEF Copias
  <1> QED
    BY <1>2, <1>5, <1>6, <1>7 DEF Copias

-----------------------------------------------------------------------------
(* The steps of the server.                                                 *)

\* A token that the server would take it takes after the step, but for those of G.
Queda(G, s) == Viva(s) => Viva(s)' \/ s \in G

\* A call that the step is not about: what the step spends is the token of another.
LEMMA LlamadaQueda ==
    ASSUME IInv, Copias, Crece, NEW d \in Envios, UNCHANGED <<vuelo, perdidas>>,
           envio'[d] = envio[d], solicitud'[d] = solicitud[d],
           NEW G, \A s \in 1 .. emitidas : Queda(G, s),
           \A s \in G : Sana(familia[s]) /\ ~ envio[d].esperado
    PROVE  LlamadaOK(d)'
  <1>1. LlamadaOK(d)
    BY DEF Copias, EnLaRed
  <1>2. /\ envio[d].ses # 0 => envio[d].ses \in 1 .. emitidas
        /\ envio[d].fase = "camino" => envio[d].ses # 0
    BY CopiasSonFilas DEF IInv, Cliente, Crece
  <1>3. /\ envio[d].fase = "servidor" => envio[d].ses \in 1 .. emitidas
        /\ solicitud[d].fase = "vigente" => envio[d].fase = "servidor"
    BY <1>1, SolicitudesSonFilas DEF LlamadaOK, IInv
  <1>4. envio[d].esperado => vuelo.ses \in 1 .. emitidas
    BY CopiasSonFilas DEF IInv, Cliente, Esperado, Crece
  <1>5. \A s \in 1 .. emitidas : familia'[s] = familia[s]
    BY DEF Crece
  <1>6. envio[d].fase = "camino" => Viva(envio[d].ses)'
    BY <1>1, <1>2 DEF LlamadaOK, Queda, Viva, Sana
  <1>7. solicitud[d].fase = "vigente" => Viva(solicitud[d].ses)'
    BY <1>1, <1>3, SolicitudesSonFilas DEF LlamadaOK, Queda, Viva, Sana, IInv
  <1>8. envio[d].fase = "vuelta" /\ envio[d].esperado /\ envio[d].ses # 0 => Viva(envio[d].ses)'
    BY <1>1, <1>2 DEF LlamadaOK, Queda, Viva, Sana
  <1> QED
    BY <1>1, <1>2, <1>3, <1>4, <1>5, <1>6, <1>7, <1>8
    DEF LlamadaOK, Viva, Sana, Servidor!Libre

\* The copies of the client, when what the step spends is what the flight presented.
LEMMA BovedaQueda ==
    ASSUME IInv, Copias, Crece, UNCHANGED <<cache, almacen, vuelo, entrada>>,
           NEW G, \A s \in 1 .. emitidas : Queda(G, s), \A s \in G : EnCurso(s)
    PROVE  EnBoveda' /\ EnEntrada'
  <1>1. /\ cache # 0 => cache \in 1 .. emitidas
        /\ almacen.ses # 0 => almacen.ses \in 1 .. emitidas
        /\ vuelo.leida # Vacio <=> vuelo.leida.ses # 0
        /\ vuelo.ses # 0 => vuelo.ses \in 1 .. emitidas
        /\ vuelo.leida.ses # 0 => vuelo.leida.ses \in 1 .. emitidas
        /\ vuelo.fase \in {"esperar", "leer", "escribir"} => vuelo.ses # 0
        /\ entrada.fase # "libre" => entrada.ses \in 1 .. emitidas
    BY CopiasSonFilas DEF IInv, Cliente, Crece
  <1>2. \A s \in 1 .. emitidas : familia'[s] = familia[s]
    BY DEF Crece
  <1>3. EnBoveda'
    BY <1>1, <1>2 DEF Copias, EnBoveda, EnCurso, Queda, Viva, Sana
  <1>4. EnEntrada'
    <2> SUFFICES ASSUME entrada.fase \in {"respuesta", "limpiar"}
                 PROVE  /\ Viva(entrada.ses)'
                        /\ \A s \in {cache, almacen.ses, vuelo.ses, vuelo.leida.ses} \ {0} :
                                familia'[s] # familia'[entrada.ses]
      BY DEF EnEntrada, Viva, Sana
    <2>1. /\ Viva(entrada.ses) /\ entrada.ses \in 1 .. emitidas
          /\ \A s \in {cache, almacen.ses, vuelo.ses, vuelo.leida.ses} \ {0} :
                familia[s] # familia[entrada.ses]
      BY <1>1 DEF Copias, EnEntrada
    <2>2. entrada.ses \notin G
      BY <1>1, <2>1 DEF EnCurso
    <2> QED
      BY <1>1, <1>2, <2>1, <2>2 DEF Queda, Viva, Sana
  <1> QED
    BY <1>3, <1>4

\* A reuse noticed before stays founded.
LEMMA ReusoQueda ==
    ASSUME IInv, Copias, Crece, UNCHANGED perdidas,
           \A f \in 1 .. emitidas : invalidada[f] => invalidada'[f],
           \A d \in Envios : solicitud'[d] \in {solicitud[d], Servidor!Libre}
    PROVE  ReusoNuncaPropio'
  <1> SUFFICES ASSUME NEW d \in Envios, solicitud'[d].fase = "reuso"
               PROVE  \/ invalidada'[familia'[solicitud'[d].ses]]
                      \/ familia'[solicitud'[d].ses] \in perdidas'
    BY DEF ReusoNuncaPropio
  <1>1. solicitud'[d] = solicitud[d] /\ solicitud[d].ses \in 1 .. emitidas
    BY SolicitudesSonFilas DEF IInv
  <1> QED
    BY <1>1 DEF Crece, Copias, ReusoNuncaPropio

\* The end of a whole family spends no token of another.
LEMMA FamiliaCerrada ==
    ASSUME IInv, NEW s \in 1 .. emitidas, Servidor!RevocarFamilia(familia[s]),
           UNCHANGED <<familia, perdidas>>
    PROVE  /\ \A x \in 1 .. emitidas : Queda({}, x)
           /\ \A f \in 1 .. emitidas : invalidada[f] => invalidada'[f]
  <1>1. /\ revocado' = [x \in Servidor!Sesiones |->
                revocado[x] \/ x \in Servidor!DeFamilia(familia[s])]
        /\ invalidada' = [invalidada EXCEPT ![familia[s]] = TRUE]
    BY DEF Servidor!RevocarFamilia
  <1>2. /\ 1 .. emitidas \subseteq Servidor!Sesiones /\ familia[s] \in 1 .. emitidas
        /\ invalidada \in [Servidor!Sesiones -> BOOLEAN]
    BY ClienteAssumption
    DEF IInv, Tabla!IInv, Tabla!TypeOK, Tabla!TablaCoherente, Tabla!Emitidas, Tabla!Sesiones,
        Servidor!Sesiones
  <1>3. \A x \in 1 .. emitidas : familia[x] # familia[s] => (revocado'[x] <=> revocado[x])
    BY <1>1, <1>2 DEF Servidor!DeFamilia
  <1>4. invalidada'[familia[s]] /\ \A f \in 1 .. emitidas : invalidada[f] => invalidada'[f]
    BY <1>1, <1>2
  <1>5. ASSUME NEW x \in 1 .. emitidas PROVE Queda({}, x)
    <2>1. familia[x] \in 1 .. emitidas
      BY DEF IInv, Tabla!IInv, Tabla!TablaCoherente, Tabla!Emitidas
    <2> QED
      BY <1>3, <1>4, <2>1 DEF Queda, Viva, Sana
  <1> QED
    BY <1>4, <1>5

\* The rows as they were.
LEMMA NadaCerrado ==
    ASSUME UNCHANGED <<familia, revocado, invalidada, perdidas>>
    PROVE  /\ \A x \in 1 .. emitidas : Queda({}, x)
           /\ \A f \in 1 .. emitidas : invalidada[f] => invalidada'[f]
  BY DEF Queda, Viva, Sana

\* A logout arrives.
LEMMA CopiasLlegarCierre ==
    ASSUME IInv, Copias, Crece, LlegarCierre
    PROVE  Copias'
  <1>1. /\ UNCHANGED <<cache, almacen, vuelo, entrada, perdidas>> /\ envio' = envio
        /\ cierre \in 1 .. emitidas
    BY DEF LlegarCierre, ClienteQuieto, boveda, bloc, IInv, Cliente, Tipos, Crece
  <1>2. solicitud' = solicitud /\ familia' = familia
    BY DEF LlegarCierre, servidor, Servidor!CerrarSesion
  <1>3. /\ \A x \in 1 .. emitidas : Queda({}, x)
        /\ \A f \in 1 .. emitidas : invalidada[f] => invalidada'[f]
    <2>1. CASE Servidor!CerrarSesion(cierre)
      BY <1>1, <1>2, <2>1, FamiliaCerrada DEF Servidor!CerrarSesion
    <2>2. CASE UNCHANGED servidor
      BY <1>1, <2>2, TablaQuieta, NadaCerrado
    <2> QED
      BY <2>1, <2>2 DEF LlegarCierre
  <1>4. EnLaRed'
    BY <1>1, <1>2, <1>3, LlamadaQueda DEF EnLaRed
  <1>5. EnBoveda' /\ EnEntrada'
    BY <1>1, <1>3, BovedaQueda
  <1>6. ReusoNuncaPropio'
    BY <1>1, <1>2, <1>3, ReusoQueda
  <1> QED
    BY <1>4, <1>5, <1>6 DEF Copias

\* What a step of a call on the wire leaves alone.
LEMMA LlamadaSola ==
    ASSUME IInv, NEW e \in Envios, LlegarRefresco(e) \/ AtenderRefresco(e) \/ Perder(e)
    PROVE  /\ UNCHANGED <<cache, almacen, vuelo, entrada, perdidas>>
           /\ \A d \in Envios \ {e} : envio'[d] = envio[d]
  BY DEF LlegarRefresco, AtenderRefresco, Perder, Contestar, Recoger, ClienteQuieto, boveda,
     bloc, IInv, Cliente, Tipos

\* The server reads the row: it is revoked only if its family has ended or was given up.
LEMMA CopiasLlegarRefresco ==
    ASSUME IInv, Copias, Crece, NEW e \in Envios, LlegarRefresco(e)
    PROVE  Copias'
  <1> DEFINE s == envio[e].ses
  <1>1. /\ UNCHANGED <<cache, almacen, vuelo, entrada, perdidas>>
        /\ \A d \in Envios \ {e} : envio'[d] = envio[d]
    BY LlamadaSola
  <1>2. /\ envio[e].fase = "camino" /\ solicitud[e] = Servidor!Libre
        /\ envio' = [envio EXCEPT ![e].fase = "servidor"]
        /\ solicitud' = [solicitud EXCEPT ![e] =
                [fase |-> IF revocado[s] THEN "reuso" ELSE "vigente", ses |-> s]]
        /\ UNCHANGED <<familia, revocado, invalidada>>
    BY DEF LlegarRefresco, Servidor!LeerSesion, Servidor!tabla
  <1>3. /\ envio'[e].fase = "servidor" /\ envio'[e].ses = s
        /\ envio'[e].esperado = envio[e].esperado
        /\ solicitud'[e] = [fase |-> IF revocado[s] THEN "reuso" ELSE "vigente", ses |-> s]
        /\ \A d \in Envios \ {e} : solicitud'[d] = solicitud[d]
    BY <1>2 DEF IInv, Cliente, Tipos, Llamadas, Tabla!IInv, Tabla!TypeOK
  <1>4. LlamadaOK(e) /\ s \in 1 .. emitidas
    BY <1>2, CopiasSonFilas DEF Copias, EnLaRed, IInv, Cliente, Crece
  <1>5. \A x \in 1 .. emitidas : Queda({}, x)
    BY <1>1, <1>2, NadaCerrado
  <1>6. LlamadaOK(e)'
    BY <1>1, <1>2, <1>3, <1>4 DEF LlamadaOK, Viva, Sana, Servidor!Libre
  <1>7. EnLaRed'
    <2>1. ASSUME NEW d \in Envios, d # e PROVE LlamadaOK(d)'
      BY <1>1, <1>3, <1>5, <2>1, LlamadaQueda
    <2> QED
      BY <1>6, <2>1 DEF EnLaRed
  <1>8. EnBoveda' /\ EnEntrada'
    BY <1>1, <1>5, BovedaQueda
  <1>9. ReusoNuncaPropio'
    BY <1>1, <1>2, <1>3, <1>4 DEF Copias, ReusoNuncaPropio, LlamadaOK, Viva, Sana
  <1> QED
    BY <1>7, <1>8, <1>9 DEF Copias

\* The server answers without a token: it revoked the family, or failed.
LEMMA CopiasSinRotacion ==
    ASSUME IInv, Copias, Crece, NEW e \in Envios, AtenderRefresco(e),
           Servidor!RevocarPorReuso(e) \/ Servidor!Abandonar(e), Contestar(e, 0)
    PROVE  Copias'
  <1>1. /\ UNCHANGED <<cache, almacen, vuelo, entrada, perdidas>>
        /\ \A d \in Envios \ {e} : envio'[d] = envio[d]
    BY LlamadaSola
  <1>2. /\ solicitud[e] # Servidor!Libre /\ solicitud[e].ses \in 1 .. emitidas
        /\ solicitud' = [solicitud EXCEPT ![e] = Servidor!Libre]
        /\ familia' = familia
    BY SolicitudesSonFilas
    DEF Servidor!RevocarPorReuso, Servidor!Abandonar, Servidor!Responder, Servidor!tabla, IInv
  <1>3. /\ envio'[e].fase = "vuelta" /\ envio'[e].ses = 0
        /\ solicitud'[e] = Servidor!Libre /\ Servidor!Libre.fase = "libre"
        /\ \A d \in Envios \ {e} : solicitud'[d] = solicitud[d]
    BY <1>2
    DEF Contestar, IInv, Cliente, Tipos, Llamadas, Tabla!IInv, Tabla!TypeOK, Servidor!Libre
  <1>4. /\ \A x \in 1 .. emitidas : Queda({}, x)
        /\ \A f \in 1 .. emitidas : invalidada[f] => invalidada'[f]
    <2>1. CASE Servidor!RevocarPorReuso(e)
      BY <1>1, <1>2, <2>1, FamiliaCerrada DEF Servidor!RevocarPorReuso
    <2>2. CASE Servidor!Abandonar(e)
      BY <1>1, <2>2, NadaCerrado DEF Servidor!Abandonar, Servidor!tabla
    <2> QED
      BY <2>1, <2>2
  <1>5. LlamadaOK(e)'
    BY <1>3 DEF LlamadaOK, Servidor!Libre
  <1>6. EnLaRed'
    <2>1. ASSUME NEW d \in Envios, d # e PROVE LlamadaOK(d)'
      BY <1>1, <1>3, <1>4, <2>1, LlamadaQueda
    <2> QED
      BY <1>5, <2>1 DEF EnLaRed
  <1>7. EnBoveda' /\ EnEntrada'
    BY <1>1, <1>4, BovedaQueda
  <1>8. ReusoNuncaPropio'
    BY <1>1, <1>3, <1>4, ReusoQueda
  <1> QED
    BY <1>6, <1>7, <1>8 DEF Copias

\* A rotation spends one token: that of the refresh that is waited for, or one of a family
\* given up.
LEMMA CopiasRotacion ==
    ASSUME IInv, Copias, Crece, NEW e \in Envios, AtenderRefresco(e),
           Servidor!ConfirmarRotacion(e), Contestar(e, emitidas + 1)
    PROVE  Copias'
  <1> DEFINE s == solicitud[e].ses
             n == emitidas + 1
             G == IF envio[e].esperado /\ Sana(familia[s]) THEN {s} ELSE {}
  <1>1. /\ UNCHANGED <<cache, almacen, vuelo, entrada, perdidas>>
        /\ \A d \in Envios \ {e} : envio'[d] = envio[d]
    BY LlamadaSola
  <1>2. /\ solicitud[e].fase = "vigente" /\ s \in 1 .. emitidas
        /\ solicitud[e] # Servidor!Libre
        /\ revocado' = [revocado EXCEPT ![s] = TRUE]
        /\ emitidas < MaxSesiones /\ familia' = [familia EXCEPT ![n] = familia[s]]
        /\ solicitud' = [solicitud EXCEPT ![e] = Servidor!Libre]
        /\ UNCHANGED invalidada
    BY SolicitudesSonFilas
    DEF Servidor!ConfirmarRotacion, Servidor!Emitir, Servidor!Responder, IInv
  <1>3. /\ emitidas \in Nat /\ MaxSesiones \in Nat
        /\ familia \in [1 .. MaxSesiones -> 0 .. MaxSesiones]
        /\ revocado \in [1 .. MaxSesiones -> BOOLEAN]
        /\ \A x \in 1 .. MaxSesiones : x > emitidas => ~ revocado[x]
    BY ClienteAssumption
    DEF Crece, IInv, Tabla!IInv, Tabla!TypeOK, Tabla!TablaCoherente, Tabla!Sesiones,
        Tabla!Emitidas
  <1>4. n \in 1 .. MaxSesiones /\ n # s /\ s # n /\ ~ (n <= emitidas) /\ n # 0
    BY <1>2, <1>3
  <1>5. /\ familia'[n] = familia[s] /\ familia'[s] = familia[s]
        /\ ~ revocado'[n] /\ \A x \in 1 .. emitidas : x # s => revocado'[x] = revocado[x]
    BY <1>2, <1>3, <1>4
  <1>6. /\ envio'[e].fase = "vuelta" /\ envio'[e].ses = n
        /\ envio'[e].esperado = envio[e].esperado
        /\ solicitud'[e] = Servidor!Libre /\ Servidor!Libre.fase = "libre"
        /\ \A d \in Envios \ {e} : solicitud'[d] = solicitud[d]
    BY <1>2
    DEF Contestar, IInv, Cliente, Tipos, Llamadas, Tabla!IInv, Tabla!TypeOK, Servidor!Libre
  <1>7. /\ envio[e].fase = "servidor" /\ envio[e].ses = s
        /\ IF envio[e].esperado THEN s = vuelo.ses /\ vuelo.fase = "esperar"
                                ELSE familia[s] \in perdidas
    BY <1>2 DEF Copias, EnLaRed, LlamadaOK, IInv, Cliente, Esperado
  <1> HIDE DEF n
  <1>8. ASSUME NEW x \in 1 .. emitidas PROVE Queda(G, x)
    <2>1. familia'[x] = familia[x]
      BY DEF Crece
    <2>2. CASE x # s
      BY <1>1, <1>2, <1>5, <2>1, <2>2 DEF Queda, Viva, Sana
    <2>3. CASE x = s
      BY <1>1, <1>2, <1>7, <2>1, <2>3 DEF Queda, Viva, Sana
    <2> QED
      BY <2>2, <2>3
  <1>9. \A x \in G : x = s /\ EnCurso(x) /\ Sana(familia[x]) /\ envio[e].esperado
    BY <1>7 DEF EnCurso
  <1> HIDE DEF G
  <1>10. LlamadaOK(e)'
    <2>1. envio[e].esperado => familia'[n] = familia'[vuelo.ses]
      BY <1>5, <1>7
    <2> QED
      BY <1>1, <1>5, <1>6, <2>1 DEF LlamadaOK, Viva, Sana, Servidor!Libre
  <1>11. EnLaRed'
    <2>1. ASSUME NEW d \in Envios, d # e PROVE LlamadaOK(d)'
      <3>1. \A x \in G : Sana(familia[x]) /\ ~ envio[d].esperado
        BY <1>9, <2>1 DEF IInv, Cliente, Esperado
      <3> QED
        BY <1>1, <1>6, <1>8, <2>1, <3>1, LlamadaQueda
    <2> QED
      BY <1>10, <2>1 DEF EnLaRed
  <1>12. EnBoveda' /\ EnEntrada'
    BY <1>1, <1>8, <1>9, BovedaQueda
  <1>13. ReusoNuncaPropio'
    BY <1>1, <1>2, <1>6, ReusoQueda
  <1> QED
    BY <1>11, <1>12, <1>13 DEF Copias

\* A call that is lost had not reached the server, or had left it.
LEMMA CopiasPerder ==
    ASSUME IInv, Copias, NEW e \in Envios, Perder(e)
    PROVE  Copias'
  <1>1. /\ UNCHANGED <<cache, almacen, vuelo, entrada, perdidas>> /\ UNCHANGED servidor
        /\ \A d \in Envios \ {e} : envio'[d] = envio[d]
    BY LlamadaSola DEF Perder
  <1>2. envio'[e] = SinEnvio /\ envio[e].fase # "servidor"
    BY DEF Perder, Recoger, IInv, Cliente, Tipos
  <1>3. EnLaRed'
    BY <1>1, <1>2, RedSigue DEF Copias
  <1>4. EnBoveda'
    BY <1>1, TablaQuieta DEF Copias, EnBoveda, EnCurso, Viva, Sana
  <1>5. EnEntrada'
    BY <1>1, TablaQuieta DEF Copias, EnEntrada, Viva, Sana
  <1>6. ReusoNuncaPropio'
    BY <1>1, ReusoSigue DEF Copias
  <1> QED
    BY <1>3, <1>4, <1>5, <1>6 DEF Copias

\* The tokens of a login are new.
LEMMA CopiasEntrar ==
    ASSUME IInv, Copias, Crece, Entrar
    PROVE  Copias'
  <1> DEFINE n == emitidas + 1
  <1>1. /\ UNCHANGED <<cache, almacen, vuelo, perdidas>> /\ envio' = envio
        /\ entrada' = [fase |-> "respuesta", ses |-> n] /\ entrada.fase = "libre"
    BY DEF Entrar, boveda, red, SinEntrada
  <1>2. /\ emitidas < MaxSesiones /\ familia' = [familia EXCEPT ![n] = n]
        /\ UNCHANGED <<revocado, invalidada, solicitud>>
    BY DEF Entrar, Servidor!Login, Servidor!Emitir
  <1>3. /\ emitidas \in Nat /\ MaxSesiones \in Nat
        /\ familia \in [1 .. MaxSesiones -> 0 .. MaxSesiones]
        /\ \A x \in 1 .. MaxSesiones : x > emitidas => ~ revocado[x]
    BY ClienteAssumption
    DEF Crece, IInv, Tabla!IInv, Tabla!TypeOK, Tabla!TablaCoherente, Tabla!Sesiones,
        Tabla!Emitidas
  <1>4. /\ familia'[n] = n /\ ~ revocado[n]
        /\ \A x \in 1 .. emitidas : familia'[x] \in 1 .. emitidas /\ n # familia'[x]
    BY <1>2, <1>3 DEF Crece
  <1>5. ASSUME NEW x \in 1 .. emitidas PROVE Queda({}, x)
    BY <1>1, <1>2 DEF Crece, Queda, Viva, Sana
  <1> HIDE DEF n
  <1>6. EnLaRed'
    BY <1>1, <1>2, <1>5, LlamadaQueda DEF EnLaRed
  <1>7. EnBoveda'
    <2>1. /\ cache # 0 => cache \in 1 .. emitidas
          /\ almacen.ses # 0 => almacen.ses \in 1 .. emitidas
          /\ vuelo.leida # Vacio <=> vuelo.leida.ses # 0
          /\ vuelo.leida.ses # 0 => vuelo.leida.ses \in 1 .. emitidas
          /\ vuelo.fase = "leer" => vuelo.ses \in 1 .. emitidas
      BY CopiasSonFilas DEF IInv, Cliente, Crece
    <2>2. \A s \in 1 .. emitidas : familia'[s] = familia[s]
      BY DEF Crece
    <2> QED
      BY <1>1, <1>2, <2>1, <2>2 DEF Copias, EnBoveda, EnCurso, Viva, Sana
  <1>8. EnEntrada'
    <2>1. \A s \in {cache, almacen.ses, vuelo.ses, vuelo.leida.ses} \ {0} : s \in 1 .. emitidas
      BY CopiasSonFilas DEF IInv, Cliente, Crece
    <2>2. \A s \in {cache, almacen.ses, vuelo.ses, vuelo.leida.ses} \ {0} : familia'[s] # n
      BY <1>4, <2>1
    <2> QED
      BY <1>1, <1>2, <1>4, <2>2 DEF EnEntrada, Viva, Sana
  <1>9. ReusoNuncaPropio'
    BY <1>1, <1>2, ReusoQueda
  <1> QED
    BY <1>6, <1>7, <1>8, <1>9 DEF Copias

-----------------------------------------------------------------------------
LEMMA InicioDeCopias == Init => Copias
  <1> SUFFICES ASSUME Init PROVE Copias
    OBVIOUS
  <1>1. \A e \in Envios : solicitud[e] = Servidor!Libre /\ envio[e] = SinEnvio
    BY DEF Init, Servidor!Init
  <1>2. EnLaRed /\ ReusoNuncaPropio
    BY <1>1 DEF EnLaRed, LlamadaOK, ReusoNuncaPropio, SinEnvio, Servidor!Libre
  <1>3. EnBoveda /\ EnEntrada
    BY DEF Init, EnBoveda, EnEntrada, Vacio, EnTierra, SinEntrada
  <1> QED
    BY <1>2, <1>3 DEF Copias

LEMMA PasoDeCopias == IInv /\ Copias /\ [Next]_vars => Copias'
  <1> SUFFICES ASSUME IInv, Copias, [Next]_vars PROVE Copias'
    OBVIOUS
  <1>1. Crece /\ emitidas \in Nat
    BY FilasQuedan DEF IInv, Cliente, Crece
  <1>2. ASSUME NEW p \in Peticiones,
               \/ Enviar(p) \/ Contestada(p)
               \/ CompartirRefresco(p) \/ IniciarRefresco(p) \/ PedirToken(p)
               \/ BorrarSesion(p) \/ ExpirarSesion(p)
        PROVE  Copias'
    BY <1>1, <1>2, CopiasDePeticion, CopiasIniciarRefresco, CopiasPedirToken, CopiasBorrar
  <1>3. ASSUME BuscarToken \/ VencerRefresco \/ LeerSesion \/ GuardarTokens
        PROVE  Copias'
    BY <1>1, <1>3, CopiasBuscarToken, CopiasFallar, CopiasLeerSesion
  <1>4. ASSUME \/ Entrar \/ PerderEntrada \/ RecibirEntrada \/ GuardarEntrada
               \/ MostrarEntrada
        PROVE  Copias'
    BY <1>1, <1>4, CopiasEntrar, CopiasDePantalla, CopiasBorrar, CopiasGuardarEntrada
  <1>5. ASSUME Salir \/ RecibirCierre \/ TerminarSalida \/ Recargar
        PROVE  Copias'
    BY <1>1, <1>5, CopiasSalir, CopiasBorrar, CopiasDePantalla, CopiasRecargar
  <1>6. ASSUME NEW e \in Envios,
               \/ RecibirTokens(e) \/ RecibirRechazo(e)
               \/ LlegarRefresco(e) \/ AtenderRefresco(e) \/ Perder(e)
        PROVE  Copias'
    <2>1. AtenderRefresco(e) => Copias'
      BY <1>1, CopiasRotacion, CopiasSinRotacion DEF AtenderRefresco
    <2> QED
      BY <1>1, <1>6, <2>1, CopiasRecibirTokens, CopiasFallar, CopiasLlegarRefresco, CopiasPerder
  <1>7. ASSUME UNCHANGED vars
        PROVE  Copias'
    BY <1>7, CopiasSiguen DEF vars, red, boveda, bloc
  <1> QED
    BY <1>1, <1>2, <1>3, <1>4, <1>5, <1>6, <1>7, CopiasLlegarCierre DEF Next

\* Requests that share a refresh, a vault written after the answer, logins, reloads and
\* lost answers: the server takes a token of the user's for a stolen one only in a family
\* that was closed or in which the client gave up a refresh.
THEOREM ReusoSeguro == Spec => []ReusoNuncaPropio
  <1>1. Init => IInvReuso
    BY Inicio, InicioDeCopias DEF IInvReuso
  <1>2. IInvReuso /\ [Next]_vars => IInvReuso'
    BY Paso, PasoDeCopias DEF IInvReuso
  <1>3. IInvReuso => ReusoNuncaPropio
    BY DEF IInvReuso, Copias
  <1> QED
    BY <1>1, <1>2, <1>3, PTL DEF Spec

\* The server's guarantee against a stolen token, for the server with this client: once
\* every row of a family is revoked and no rotation of it is open, neither an answer
\* that arrives late nor a repetition nor a reload brings a session of it back.
THEOREM FamiliaMuertaCompuesta == Spec => Servidor!FamiliaMuertaNoRevive
  <1>1. IInv /\ [Next]_vars =>
          [\A f \in Servidor!Emitidas :
              familia[f] = f /\ Servidor!Muerta(f) => Servidor!Muerta(f)']_(Servidor!vars)
    <2> SUFFICES ASSUME IInv, [Next]_vars, NEW f \in Servidor!Emitidas,
                        familia[f] = f, Servidor!Muerta(f)
                 PROVE  Servidor!Muerta(f)'
      OBVIOUS
    <2>1. emitidas \in Nat
      BY FilasQuedan DEF IInv, Cliente, Crece
    <2>2. [Servidor!Next]_(Servidor!vars)
      BY <2>1, PasoDelServidor DEF IInv, Cliente
    <2>3. [Tabla!Next]_(Tabla!vars)
      BY <2>2, MismasAcciones
    <2>4. f \in Tabla!Emitidas /\ Tabla!Muerta(f)
      BY DEF Servidor!Emitidas, Tabla!Emitidas, Servidor!Muerta, Tabla!Muerta,
         Servidor!DeFamilia, Tabla!DeFamilia
    <2>0. Tabla!CotasAssumption
      BY ClienteAssumption DEF Tabla!CotasAssumption, Tabla!IsFiniteSet, IsFiniteSet
    <2>5. Tabla!Muerta(f)'
      BY <2>0, <2>3, <2>4, Tabla!PasoMuerta DEF IInv
    <2> QED
      BY <2>5 DEF Servidor!Muerta, Tabla!Muerta, Servidor!DeFamilia, Tabla!DeFamilia,
         Servidor!Emitidas, Tabla!Emitidas
  <1> QED
    BY <1>1, Invariante, PTL DEF Spec, Servidor!FamiliaMuertaNoRevive

\* At rest, the token of the storage is one that the server takes, unless its family was
\* closed or a refresh of it given up: a reload, which goes on with the storage, neither
\* ends a session that the server still keeps nor makes it see a theft.
Guardada == EnReposo /\ almacen.ses # 0 => Viva(almacen.ses)

\* What a reload finds is usable, whatever was answered late, lost or repeated before.
THEOREM GuardadaSegura == Spec => []Guardada
  <1>1. Init => IInvReuso
    BY Inicio, InicioDeCopias DEF IInvReuso
  <1>2. IInvReuso /\ [Next]_vars => IInvReuso'
    BY Paso, PasoDeCopias DEF IInvReuso
  <1>3. IInvReuso => Guardada
    <2> SUFFICES ASSUME EnBoveda, EnReposo, almacen.ses # 0
                 PROVE  Viva(almacen.ses)
      BY DEF IInvReuso, Copias, Guardada
    <2>1. vuelo.fase = "libre"
      BY DEF EnReposo, EnTierra
    <2> QED
      BY <2>1 DEF EnBoveda, EnCurso
  <1> QED
    BY <1>1, <1>2, <1>3, PTL DEF Spec

-----------------------------------------------------------------------------
(* Whose tokens they are.                                                   *)

\* A stored session has the tokens of its own login.
Propio(x) == x # Vacio => familia[x.ses] = x.perfil

\* Unless a refresh was in flight when the last login was saved, what is stored, what a
\* flight presents and what it will write belong to the login in the storage.
Propias ==
    ~ cruce =>
        /\ Propio(almacen)
        /\ vuelo.fase = "buscar" => Propio(vuelo.leida) /\ almacen \in {Vacio, vuelo.leida}
        /\ vuelo.fase = "esperar" /\ almacen # Vacio => familia[vuelo.ses] = almacen.perfil
        /\ vuelo.fase = "leer" /\ vuelo.leida # Vacio =>
                familia[vuelo.ses] = vuelo.leida.perfil

IInvPropias == IInvReuso /\ Propias

\* What a flow reads or drops changes nobody's tokens, and rows keep their family.
LEMMA PropiasSiguen ==
    ASSUME IInv, Propias, Crece, UNCHANGED cruce, almacen' \in {almacen, Vacio},
           vuelo' \in {vuelo, EnTierra}
    PROVE  Propias'
  <1>1. /\ almacen.ses # 0 => almacen.ses \in 1 .. emitidas
        /\ almacen # Vacio <=> almacen.ses # 0
        /\ vuelo.leida # Vacio <=> vuelo.leida.ses # 0
        /\ vuelo.leida.ses # 0 => vuelo.leida.ses \in 1 .. emitidas
        /\ vuelo.fase \in {"esperar", "leer"} => vuelo.ses \in 1 .. emitidas
    BY CopiasSonFilas DEF IInv, Cliente, Crece
  <1>2. \A s \in 1 .. emitidas : familia'[s] = familia[s]
    BY DEF Crece
  <1>3. Propio(almacen) => Propio(almacen)'
    BY <1>1, <1>2 DEF Propio
  <1>4. CASE vuelo' = vuelo
    BY <1>1, <1>2, <1>3, <1>4 DEF Propias, Propio
  <1>5. CASE vuelo' = EnTierra
    BY <1>3, <1>5 DEF Propias, EnTierra
  <1> QED
    BY <1>4, <1>5

LEMMA PropiasDeFallo ==
    ASSUME IInv, Propias, Crece, UNCHANGED cruce, NEW antes, FallarRefresco(antes)
    PROVE  Propias'
  BY PropiasSiguen DEF FallarRefresco, Reanudar, LimpiarBoveda

\* A refresh presents the token of the storage, which memory holds or which it has read.
LEMMA PropiasDePeticion ==
    ASSUME IInv, Propias, Crece, NEW p \in Peticiones,
           \/ Enviar(p) \/ Contestada(p)
           \/ CompartirRefresco(p) \/ IniciarRefresco(p) \/ PedirToken(p)
           \/ BorrarSesion(p) \/ ExpirarSesion(p)
    PROVE  Propias'
  <1>1. CASE \/ Enviar(p) \/ Contestada(p) \/ CompartirRefresco(p)
             \/ BorrarSesion(p) \/ ExpirarSesion(p)
    <2>1. UNCHANGED <<vuelo, cruce>> /\ almacen' \in {almacen, Vacio}
      BY <1>1 DEF Enviar, Contestada, CompartirRefresco, BorrarSesion, ExpirarSesion,
         LimpiarBoveda, boveda
    <2> QED
      BY <2>1, PropiasSiguen
  <1>2. CASE IniciarRefresco(p)
    <2>1. /\ vuelo.fase = "libre" /\ cache # 0
          /\ vuelo' = [EnTierra EXCEPT !.fase = "esperar", !.ses = cache]
          /\ UNCHANGED <<almacen, cruce, familia>>
      BY <1>2 DEF IniciarRefresco, Presentar, boveda, servidor
    <2>2. cache = almacen.ses
      BY <2>1 DEF IInv, Cliente, Memoria
    <2>3. vuelo'.fase = "esperar" /\ vuelo'.ses = almacen.ses
      BY <2>1, <2>2 DEF EnTierra
    <2> QED
      BY <2>1, <2>3 DEF Propias, Propio
  <1>3. CASE PedirToken(p)
    <2>1. /\ vuelo' = [EnTierra EXCEPT !.fase = "buscar", !.leida = almacen]
          /\ UNCHANGED <<almacen, cruce, familia>>
      BY <1>3 DEF PedirToken, servidor
    <2>2. vuelo'.fase = "buscar" /\ vuelo'.leida = almacen
      BY <2>1 DEF EnTierra
    <2> QED
      BY <2>1, <2>2 DEF Propias, Propio
  <1> QED
    BY <1>1, <1>2, <1>3

LEMMA PropiasDelVuelo ==
    ASSUME IInv, Propias, Crece, BuscarToken \/ VencerRefresco \/ LeerSesion \/ GuardarTokens
    PROVE  Propias'
  <1>1. CASE BuscarToken
    <2>1. CASE vuelo.leida # Vacio
      <3>1. /\ vuelo.fase = "buscar"
            /\ vuelo' = [EnTierra EXCEPT !.fase = "esperar", !.ses = vuelo.leida.ses]
            /\ UNCHANGED <<almacen, cruce, familia>>
        BY <1>1, <2>1 DEF BuscarToken, Presentar, servidor
      <3>2. vuelo'.fase = "esperar" /\ vuelo'.ses = vuelo.leida.ses
        BY <3>1 DEF EnTierra
      <3> QED
        BY <2>1, <3>1, <3>2 DEF Propias, Propio
    <2>2. CASE vuelo.leida = Vacio
      BY <1>1, <2>2, PropiasDeFallo DEF BuscarToken
    <2> QED
      BY <2>1, <2>2
  <1>2. CASE VencerRefresco
    BY <1>2, PropiasDeFallo DEF VencerRefresco
  <1>3. CASE LeerSesion
    <2>1. CASE vuelo.leida = Vacio
      BY <1>3, <2>1, PropiasSiguen DEF LeerSesion, Repetir, Reanudar
    <2>2. CASE vuelo.leida # Vacio
      <3>1. /\ vuelo.fase = "leer"
            /\ almacen' = [perfil |-> vuelo.leida.perfil, ses |-> vuelo.ses]
            /\ vuelo' = [vuelo EXCEPT !.fase = "escribir"]
            /\ UNCHANGED <<cruce, familia>>
        BY <1>3, <2>2 DEF LeerSesion, Guardar, servidor
      <3>2. vuelo'.fase = "escribir"
        BY <3>1 DEF IInv, Cliente, Tipos, Vuelos
      <3> QED
        BY <2>2, <3>1, <3>2 DEF Propias, Propio
    <2> QED
      BY <2>1, <2>2
  <1>4. CASE GuardarTokens
    BY <1>4, PropiasSiguen DEF GuardarTokens, Repetir, Reanudar
  <1> QED
    BY <1>1, <1>2, <1>3, <1>4

\* A login saved while nothing is in flight starts again with its own tokens.
LEMMA PropiasDelBloc ==
    ASSUME IInv, Propias, Crece,
           \/ Entrar \/ PerderEntrada \/ RecibirEntrada \/ GuardarEntrada \/ MostrarEntrada
           \/ Salir \/ RecibirCierre \/ TerminarSalida \/ Recargar
    PROVE  Propias'
  <1>1. CASE GuardarEntrada
    <2>1. /\ almacen' = [perfil |-> familia[entrada.ses], ses |-> entrada.ses]
          /\ cruce' = (vuelo.fase # "libre") /\ UNCHANGED <<vuelo, familia>>
      BY <1>1 DEF GuardarEntrada, Guardar, servidor
    <2> QED
      BY <2>1 DEF Propias, Propio
  <1>2. CASE ~ GuardarEntrada
    <2>1. UNCHANGED cruce /\ vuelo' \in {vuelo, EnTierra} /\ almacen' \in {almacen, Vacio}
      BY <1>2 DEF Entrar, PerderEntrada, RecibirEntrada, MostrarEntrada, Salir,
         RecibirCierre, TerminarSalida, Recargar, LimpiarBoveda, boveda
    <2> QED
      BY <2>1, PropiasSiguen
  <1> QED
    BY <1>1, <1>2

\* The answer that a flight waits for is a token of the family that it presented.
LEMMA PropiasDeLaRed ==
    ASSUME IInvReuso, Propias, Crece, NEW e \in Envios,
           \/ RecibirTokens(e) \/ RecibirRechazo(e)
           \/ LlegarRefresco(e) \/ AtenderRefresco(e) \/ Perder(e)
    PROVE  Propias'
  <1>1. CASE RecibirTokens(e)
    <2>1. /\ vuelo' = [fase |-> "leer", ses |-> envio[e].ses, leida |-> almacen]
          /\ UNCHANGED <<almacen, cruce, familia>>
      BY <1>1 DEF RecibirTokens, servidor
    <2>2. vuelo.fase = "esperar" /\ familia[envio[e].ses] = familia[vuelo.ses]
      BY <1>1 DEF RecibirTokens, IInvReuso, IInv, Cliente, Esperado, Copias, EnLaRed, LlamadaOK
    <2> QED
      BY <2>1, <2>2 DEF Propias, Propio
  <1>2. CASE RecibirRechazo(e)
    BY <1>2, PropiasDeFallo DEF RecibirRechazo, IInvReuso
  <1>3. CASE LlegarRefresco(e) \/ AtenderRefresco(e) \/ Perder(e)
    <2>1. UNCHANGED <<vuelo, almacen, cruce>>
      BY <1>3 DEF LlegarRefresco, AtenderRefresco, Perder, ClienteQuieto, boveda
    <2> QED
      BY <2>1, PropiasSiguen DEF IInvReuso
  <1> QED
    BY <1>1, <1>2, <1>3

LEMMA PasoDePropias == IInvPropias /\ [Next]_vars => Propias'
  <1> SUFFICES ASSUME IInvReuso, Propias, [Next]_vars PROVE Propias'
    BY DEF IInvPropias
  <1>1. Crece /\ IInv
    BY FilasQuedan DEF IInvReuso, IInv, Cliente
  <1>2. CASE LlegarCierre \/ UNCHANGED vars
    <2>1. UNCHANGED <<vuelo, almacen, cruce>>
      BY <1>2 DEF LlegarCierre, ClienteQuieto, boveda, vars
    <2> QED
      BY <1>1, <2>1, PropiasSiguen
  <1> QED
    BY <1>1, <1>2, PropiasDePeticion, PropiasDelVuelo, PropiasDelBloc, PropiasDeLaRed
    DEF Next

\* Whatever answers late, is lost or arrives while another flow waits for the storage: at
\* rest the storage holds the profile of the login on the screen, memory nothing else, and
\* the tokens are of that login unless a refresh was in flight when it was saved.
THEOREM PantallaSegura == Spec => []PantallaConSesion
  <1>1. Init => IInvPropias
    <2>1. Init => Propias
      BY DEF Init, Propias, Propio, EnTierra
    <2> QED
      BY <2>1, Inicio, InicioDeCopias DEF IInvPropias, IInvReuso
  <1>2. IInvPropias /\ [Next]_vars => IInvPropias'
    BY Paso, PasoDeCopias, PasoDePropias DEF IInvPropias, IInvReuso
  <1>3. IInvPropias => PantallaConSesion
    <2> SUFFICES ASSUME IInv, Propias, EnReposo, pantalla # 0
                 PROVE  /\ almacen.perfil = pantalla
                        /\ cache \in {0, almacen.ses}
                        /\ familia[almacen.ses] = pantalla \/ cruce
      BY DEF IInvPropias, IInvReuso, PantallaConSesion
    <2>1. \A f \in Flujos : ~ Pendiente(f)
      BY DEF EnReposo, Pendiente
    <2>2. ~ Limpia
      BY <2>1 DEF Limpia
    <2>3. vuelo.fase = "libre"
      BY DEF EnReposo, EnTierra
    <2>4. almacen.perfil = pantalla /\ cache \in {0, almacen.ses}
      BY <2>2, <2>3 DEF IInv, Cliente, Perfiles, DePantalla, Memoria
    <2>5. almacen # Vacio
      BY <2>4 DEF Vacio
    <2> QED
      BY <2>4, <2>5 DEF Propias, Propio
  <1> QED
    BY <1>1, <1>2, <1>3, PTL DEF Spec
=============================================================================

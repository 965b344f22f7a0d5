-------------------------- MODULE OtpLinkingProofs --------------------------
(***************************************************************************)
(* Proofs about OtpLinking, for any clients, e-mails, requests, operators  *)
(* and bounds: among them how many accounts a client can get where its     *)
(* requests overlap, and that it gets one where they do not.               *)
(***************************************************************************)
EXTENDS OtpLinking, FiniteSetTheorems, TLAPS

USE DEF Codigos, Emitidos, Cuentas, Abiertas

LEMMA InitIInv == Init => IInv
    BY CotasAssumption DEF Init, IInv, TypeOK, CuentaRespaldada, SolicitudCoherente,
        LimiteDeFallos, Libre, SinOperacion

\* What the phase of a request says of its record.
LEMMA SolicitudAbierta ==
    ASSUME IInv, NEW r \in Solicitudes
    PROVE  /\ solicitud[r].fase \in {"correcta", "erronea"} =>
                solicitud[r] \in [fase : {"correcta", "erronea"}, cliente : Clientes,
                                  correo : Correos, codigo : Emitidos, visto : 0 .. MaxFallos - 1]
           /\ solicitud[r].fase \in {"cliente", "correo"} =>
                solicitud[r] \in [fase : {"cliente", "correo"}, cliente : Clientes,
                                  correo : Correos, codigo : {0}, visto : {0}]
    BY DEF IInv, TypeOK, Solicitadas, Libre

\* The same for a request that has compared an answer, field by field.
LEMMA RespuestaComparada ==
    ASSUME IInv, NEW r \in Solicitudes, solicitud[r].fase \in {"correcta", "erronea"}
    PROVE  /\ solicitud[r].codigo \in Emitidos
           /\ solicitud[r].codigo \in Codigos
           /\ solicitud[r].cliente \in Clientes
           /\ solicitud[r].correo \in Correos
           /\ solicitud[r].visto \in 0 .. MaxFallos - 1
           /\ titular[solicitud[r].codigo] = solicitud[r].cliente
<1>1. /\ solicitud[r].codigo \in Emitidos
      /\ solicitud[r].cliente \in Clientes
      /\ solicitud[r].correo \in Correos
      /\ solicitud[r].visto \in 0 .. MaxFallos - 1
    BY SolicitudAbierta
<1>2. Emitidos \subseteq Codigos
    BY CotasAssumption DEF IInv, TypeOK
<1>3. titular[solicitud[r].codigo] = solicitud[r].cliente
    BY DEF IInv, SolicitudCoherente
<1> QED
    BY <1>1, <1>2, <1>3

LEMMA OperacionAbierta ==
    ASSUME IInv, NEW o \in Operadores, operacion[o].fase # "libre"
    PROVE  operacion[o] \in [fase : {"alta", "leida", "marcada"}, cliente : Clientes,
                             vivos : SUBSET Emitidos]
    BY DEF IInv, TypeOK, SinOperacion

\* A step that only opens, advances or drops an operation.
LEMMA OperacionIInv ==
    ASSUME IInv, NEW o \in Operadores, NEW n, operacion' = [operacion EXCEPT ![o] = n],
           n \in [fase : {"alta", "leida", "marcada"}, cliente : Clientes,
                  vivos : SUBSET Emitidos] \union {SinOperacion},
           UNCHANGED <<registrado, cuenta, codigos, usuarios, solicitud>>
    PROVE  IInv'
    BY DEF IInv, TypeOK, CuentaRespaldada, SolicitudCoherente, LimiteDeFallos, codigos,
        usuarios, Solicitadas

LEMMA AbrirOperacionIInv ==
    ASSUME IInv, NEW o \in Operadores, NEW c \in Clientes,
           AbrirAlta(o, c) \/ AbrirRegeneracion(o, c)
    PROVE  IInv'
<1>1. PICK n \in [fase : {"alta", "leida", "marcada"}, cliente : Clientes, vivos : SUBSET Emitidos] :
            operacion' = [operacion EXCEPT ![o] = n]
    BY DEF AbrirAlta, AbrirRegeneracion
<1> QED
    BY <1>1, OperacionIInv DEF AbrirAlta, AbrirRegeneracion

LEMMA InvalidarCodigosIInv ==
    ASSUME IInv, NEW o \in Operadores, InvalidarCodigos(o)
    PROVE  IInv'
<1> DEFINE n == [operacion[o] EXCEPT !.fase = "marcada", !.vivos = Vivos(operacion[o].cliente)]
<1>1. operacion[o] \in [fase : {"alta", "leida", "marcada"}, cliente : Clientes,
                        vivos : SUBSET Emitidos]
    BY OperacionAbierta DEF InvalidarCodigos
<1>2. n \in [fase : {"alta", "leida", "marcada"}, cliente : Clientes, vivos : SUBSET Emitidos]
    BY <1>1 DEF Vivos
<1>3. operacion' = [operacion EXCEPT ![o] = n]
    BY DEF InvalidarCodigos, IInv, TypeOK
<1> QED
    BY <1>2, <1>3, OperacionIInv DEF InvalidarCodigos

LEMMA AbandonarOperacionIInv ==
    ASSUME IInv, NEW o \in Operadores, AbandonarOperacion(o)
    PROVE  IInv'
    BY OperacionIInv DEF AbandonarOperacion

\* A step that issues a code and may consume others.
LEMMA EmitirCodigoIInv ==
    ASSUME IInv, NEW o \in Operadores, NEW c \in Clientes, EmitirCodigo(c),
           operacion' = [operacion EXCEPT ![o] = SinOperacion],
           registrado' \subseteq Clientes,
           consumido' \in [Codigos -> BOOLEAN],
           \A k \in Codigos : consumido[k] => consumido'[k],
           UNCHANGED <<cuenta, intentos, vencido, usuarios, solicitud>>
    PROVE  IInv'
<1> DEFINE k0 == emitidos + 1
<1>1. /\ k0 \in Codigos
      /\ emitidos' = k0
      /\ emitidos' \in 0 .. MaxCodigos
      /\ Emitidos \subseteq Emitidos'
      /\ Emitidos \subseteq Codigos
      /\ \A k \in Emitidos : k # k0
    BY CotasAssumption DEF IInv, TypeOK, EmitirCodigo
<1>2. /\ titular' \in [Codigos -> Clientes \union {Nadie}]
      /\ \A k \in Emitidos : titular'[k] = titular[k]
    BY <1>1 DEF IInv, TypeOK, EmitirCodigo
<1>3. /\ UNCHANGED <<cuenta, intentos, vencido, cuentas, correo, origen, solicitud>>
    BY DEF usuarios
<1>4. solicitud' \in [Solicitudes -> Solicitadas' \union {Libre}]
    BY <1>1, <1>3 DEF IInv, TypeOK, Solicitadas
<1>5. operacion' \in [Operadores ->
            [fase : {"alta", "leida", "marcada"}, cliente : Clientes, vivos : SUBSET Emitidos']
              \union {SinOperacion}]
    BY <1>1 DEF IInv, TypeOK
<1>6. origen' \in [Cuentas -> 0 .. emitidos']
    BY <1>1, <1>3, CotasAssumption DEF IInv, TypeOK
<1>7. TypeOK'
    BY <1>1, <1>2, <1>3, <1>4, <1>5, <1>6 DEF IInv, TypeOK
<1>8. CuentaRespaldada'
  <2>1. ASSUME NEW u \in Abiertas
        PROVE  origen'[u] \in Emitidos' /\ consumido'[origen'[u]]
    BY <1>1, <1>3 DEF IInv, CuentaRespaldada
  <2>2. ASSUME NEW d \in Clientes, cuenta'[d] # 0 PROVE titular'[origen'[cuenta'[d]]] = d
    <3>1. cuenta[d] \in Abiertas
      BY <1>3, <2>2 DEF IInv, TypeOK
    <3> QED
      BY <1>2, <1>3, <2>2, <3>1 DEF IInv, CuentaRespaldada
  <2> QED
    BY <1>3, <2>1, <2>2 DEF CuentaRespaldada
<1>9. SolicitudCoherente'
  <2>1. ASSUME NEW r \in Solicitudes, solicitud'[r].fase \in {"correcta", "erronea"}
        PROVE  titular'[solicitud'[r].codigo] = solicitud'[r].cliente
    <3>1. solicitud[r].codigo \in Emitidos
      BY <1>3, <2>1, SolicitudAbierta
    <3> QED
      BY <1>2, <1>3, <2>1, <3>1 DEF IInv, SolicitudCoherente
  <2> QED
    BY <2>1 DEF SolicitudCoherente
<1>10. LimiteDeFallos'
    BY <1>3 DEF IInv, LimiteDeFallos
<1> QED
    BY <1>7, <1>8, <1>9, <1>10 DEF IInv

LEMMA ConfirmarAltaIInv ==
    ASSUME IInv, NEW o \in Operadores, ConfirmarAlta(o)
    PROVE  IInv'
<1>1. operacion[o].cliente \in Clientes
    BY OperacionAbierta DEF ConfirmarAlta
<1>2. registrado' \subseteq Clientes /\ UNCHANGED consumido
    BY <1>1 DEF ConfirmarAlta, IInv, TypeOK
<1> QED
    BY <1>1, <1>2, EmitirCodigoIInv DEF ConfirmarAlta, IInv, TypeOK

LEMMA ConfirmarRegeneracionIInv ==
    ASSUME IInv, NEW o \in Operadores, ConfirmarRegeneracion(o)
    PROVE  IInv'
<1>1. operacion[o].cliente \in Clientes
    BY OperacionAbierta DEF ConfirmarRegeneracion
<1>2. consumido' = [k \in Codigos |-> consumido[k] \/ k \in operacion[o].vivos]
    BY DEF ConfirmarRegeneracion
<1>3. consumido' \in [Codigos -> BOOLEAN] /\ \A k \in Codigos : consumido[k] => consumido'[k]
    BY <1>2
<1>4. registrado' \subseteq Clientes
    BY DEF ConfirmarRegeneracion, IInv, TypeOK
<1> QED
    BY <1>1, <1>3, <1>4, EmitirCodigoIInv DEF ConfirmarRegeneracion

LEMMA VencerIInv ==
    ASSUME IInv, NEW k \in Emitidos, Vencer(k)
    PROVE  IInv'
<1>1. vencido' \in [Codigos -> BOOLEAN]
    BY DEF IInv, TypeOK, Vencer
<1>2. UNCHANGED <<registrado, cuenta, emitidos, titular, consumido, intentos, cuentas, correo,
                  origen, solicitud, operacion>>
    BY DEF Vencer, usuarios
<1>3. TypeOK'
    BY <1>1, <1>2 DEF IInv, TypeOK, Solicitadas
<1> QED
    BY <1>2, <1>3 DEF IInv, CuentaRespaldada, SolicitudCoherente, LimiteDeFallos

\* A step that only opens, advances or drops a linking request.
LEMMA SolicitudIInv ==
    ASSUME IInv, NEW r \in Solicitudes, NEW n \in Solicitadas \union {Libre}, Avanzar(r, n),
           n.fase \in {"correcta", "erronea"} => titular[n.codigo] = n.cliente,
           UNCHANGED <<registrado, cuenta, codigos, usuarios, operacion>>
    PROVE  IInv'
<1>1. solicitud' = [solicitud EXCEPT ![r] = n]
    BY DEF Avanzar
<1>2. UNCHANGED <<registrado, cuenta, emitidos, titular, consumido, intentos, vencido, cuentas,
                  correo, origen, operacion>>
    BY DEF codigos, usuarios
<1>3. TypeOK'
    BY <1>1, <1>2 DEF IInv, TypeOK, Solicitadas
<1>4. SolicitudCoherente'
    BY <1>1, <1>2 DEF IInv, TypeOK, SolicitudCoherente
<1> QED
    BY <1>2, <1>3, <1>4 DEF IInv, CuentaRespaldada, LimiteDeFallos

LEMMA LecturasIInv ==
    ASSUME IInv, NEW r \in Solicitudes,
           \/ \E c \in Clientes, e \in Correos : LeerCliente(r, c, e)
           \/ LeerCorreo(r)
           \/ \E k \in Emitidos, a \in {"correcta", "erronea"} : LeerCodigo(r, k, a)
           \/ Abandonar(r)
    PROVE  IInv'
<1>1. CASE \E c \in Clientes, e \in Correos : LeerCliente(r, c, e)
  <2>1. PICK c \in Clientes, e \in Correos : LeerCliente(r, c, e)
    BY <1>1
  <2> DEFINE n == [Libre EXCEPT !.fase = "cliente", !.cliente = c, !.correo = e]
  <2>2. n \in Solicitadas /\ n.fase = "cliente"
    BY DEF Solicitadas, Libre
  <2> QED
    BY <2>1, <2>2, SolicitudIInv DEF LeerCliente
<1>2. CASE LeerCorreo(r)
  <2> DEFINE n == [solicitud[r] EXCEPT !.fase = "correo"]
  <2>1. n \in Solicitadas /\ n.fase = "correo"
    BY <1>2, SolicitudAbierta DEF LeerCorreo, Solicitadas
  <2> QED
    BY <1>2, <2>1, SolicitudIInv DEF LeerCorreo
<1>3. CASE \E k \in Emitidos, a \in {"correcta", "erronea"} : LeerCodigo(r, k, a)
  <2>1. PICK k \in Emitidos, a \in {"correcta", "erronea"} : LeerCodigo(r, k, a)
    BY <1>3
  <2> DEFINE n == [solicitud[r] EXCEPT !.fase = a, !.codigo = k, !.visto = intentos[k]]
  <2>2. k \in Codigos /\ intentos[k] \in 0 .. MaxFallos - 1
    <3>1. k \in Codigos
      BY CotasAssumption DEF IInv, TypeOK
    <3>2. ~consumido[k]
      BY <2>1 DEF LeerCodigo, EsUltimo, Vivos
    <3>3. intentos[k] \in 0 .. MaxFallos /\ intentos[k] < MaxFallos
      BY <3>1, <3>2 DEF IInv, TypeOK, LimiteDeFallos
    <3> QED
      BY <3>1, <3>3, CotasAssumption
  <2>3. solicitud[r] \in [fase : {"cliente", "correo"}, cliente : Clientes,
                          correo : Correos, codigo : {0}, visto : {0}]
    BY <2>1, SolicitudAbierta DEF LeerCodigo
  <2>4. n \in [fase : {"correcta", "erronea"}, cliente : Clientes, correo : Correos,
               codigo : Emitidos, visto : 0 .. MaxFallos - 1]
    BY <2>2, <2>3
  <2>5. n.codigo = k /\ n.cliente = solicitud[r].cliente
    BY <2>3
  <2>6. titular[k] = solicitud[r].cliente
    BY <2>1 DEF LeerCodigo, EsUltimo, Vivos
  <2>7. n \in Solicitadas
    BY <2>4 DEF Solicitadas
  <2> HIDE DEF n
  <2>8. Avanzar(r, n) /\ UNCHANGED <<registrado, cuenta, codigos, usuarios, operacion>>
    BY <2>1 DEF LeerCodigo, n
  <2> QED
    BY <2>5, <2>6, <2>7, <2>8, SolicitudIInv
<1>4. CASE Abandonar(r)
  <2>1. Libre.fase = "libre"
    BY DEF Libre
  <2> QED
    BY <1>4, <2>1, SolicitudIInv DEF Abandonar
<1> QED
    BY <1>1, <1>2, <1>3, <1>4

LEMMA ConfirmarFalloIInv ==
    ASSUME IInv, NEW r \in Solicitudes, ConfirmarFallo(r)
    PROVE  IInv'
<1> DEFINE k == solicitud[r].codigo
           n == solicitud[r].visto + 1
<1>1. /\ k \in Emitidos
      /\ k \in Codigos
      /\ solicitud[r].visto \in 0 .. MaxFallos - 1
    BY RespuestaComparada DEF ConfirmarFallo, IInv, TypeOK
<1>2. /\ intentos' = [intentos EXCEPT ![k] = n]
      /\ consumido' = [consumido EXCEPT ![k] = @ \/ n >= MaxFallos]
      /\ solicitud' = [solicitud EXCEPT ![r] = Libre]
      /\ UNCHANGED <<registrado, cuenta, emitidos, titular, vencido, cuentas, correo, origen,
                     operacion>>
    BY DEF ConfirmarFallo, Avanzar, usuarios, IInv, TypeOK
<1>3. n \in 0 .. MaxFallos /\ (~(n >= MaxFallos) => n < MaxFallos)
    BY <1>1, CotasAssumption
<1> HIDE DEF n, k
<1>4. /\ intentos' \in [Codigos -> 0 .. MaxFallos]
      /\ LimiteDeFallos'
    BY <1>1, <1>2, <1>3 DEF IInv, TypeOK, LimiteDeFallos
<1>5. consumido' \in [Codigos -> BOOLEAN] /\ \A j \in Codigos : consumido[j] => consumido'[j]
    BY <1>1, <1>2 DEF IInv, TypeOK
<1>6. solicitud' \in [Solicitudes -> Solicitadas' \union {Libre}]
    BY <1>2 DEF IInv, TypeOK, Solicitadas
<1>7. TypeOK'
    BY <1>2, <1>4, <1>5, <1>6 DEF IInv, TypeOK
<1>8. CuentaRespaldada'
    BY <1>2, <1>5 DEF IInv, TypeOK, CuentaRespaldada
<1>9. SolicitudCoherente'
  <2>1. ASSUME NEW q \in Solicitudes, solicitud'[q].fase \in {"correcta", "erronea"}
        PROVE  titular'[solicitud'[q].codigo] = solicitud'[q].cliente
    <3>1. q # r /\ solicitud'[q] = solicitud[q]
      BY <1>2, <2>1 DEF IInv, TypeOK, Libre
    <3> QED
      BY <1>2, <2>1, <3>1 DEF IInv, SolicitudCoherente
  <2> QED
    BY <2>1 DEF SolicitudCoherente
<1> QED
    BY <1>4, <1>7, <1>8, <1>9 DEF IInv

LEMMA ConfirmarVinculacionIInv ==
    ASSUME IInv, NEW r \in Solicitudes, ConfirmarVinculacion(r)
    PROVE  IInv'
<1> DEFINE k == solicitud[r].codigo
           c == solicitud[r].cliente
           u == cuentas + 1
<1>1. /\ k \in Emitidos
      /\ k \in Codigos
      /\ c \in Clientes
      /\ solicitud[r].correo \in Correos
      /\ titular[k] = c
    BY RespuestaComparada DEF ConfirmarVinculacion
<1>2. /\ consumido' = [consumido EXCEPT ![k] = TRUE]
      /\ cuentas' = u
      /\ correo' = [correo EXCEPT ![u] = solicitud[r].correo]
      /\ origen' = [origen EXCEPT ![u] = k]
      /\ cuenta' = [cuenta EXCEPT ![c] = u]
      /\ solicitud' = [solicitud EXCEPT ![r] = Libre]
      /\ UNCHANGED <<registrado, emitidos, titular, intentos, vencido, operacion>>
    BY DEF ConfirmarVinculacion, Avanzar
<1>0. cuentas \in 0 .. MaxCuentas /\ cuentas < MaxCuentas
    BY DEF ConfirmarVinculacion, IInv, TypeOK
<1>3. /\ u \in Cuentas
      /\ cuentas' \in 0 .. MaxCuentas
      /\ 0 .. cuentas \subseteq 0 .. cuentas'
      /\ u \in 0 .. cuentas'
      /\ u # 0
      /\ Abiertas' = Abiertas \union {u}
      /\ u \notin Abiertas
      /\ Abiertas \subseteq Cuentas
    BY <1>2, <1>0, CotasAssumption
<1> HIDE DEF k, c, u
<1>4. consumido' \in [Codigos -> BOOLEAN] /\ \A j \in Codigos : consumido[j] => consumido'[j]
    BY <1>1, <1>2 DEF IInv, TypeOK
<1>5. cuenta' \in [Clientes -> 0 .. cuentas']
    BY <1>1, <1>2, <1>3 DEF IInv, TypeOK
<1>6. solicitud' \in [Solicitudes -> Solicitadas' \union {Libre}]
    BY <1>2 DEF IInv, TypeOK, Solicitadas
<1>7. /\ correo' \in [Cuentas -> Correos \union {Nadie}]
      /\ origen' \in [Cuentas -> 0 .. emitidos']
    BY <1>1, <1>2, <1>3, CotasAssumption DEF IInv, TypeOK
<1>8. TypeOK'
    BY <1>2, <1>3, <1>4, <1>5, <1>6, <1>7 DEF IInv, TypeOK
<1>9. CuentaRespaldada'
  <2>1. ASSUME NEW v \in Abiertas' PROVE origen'[v] \in Emitidos' /\ consumido'[origen'[v]]
    <3>1. CASE v = u
      BY <1>1, <1>2, <1>3, <3>1 DEF IInv, TypeOK
    <3>2. CASE v # u
      <4>1. v \in Abiertas /\ v \in Cuentas /\ origen'[v] = origen[v]
        BY <1>2, <1>3, <3>2 DEF IInv, TypeOK
      <4>2. origen[v] \in Emitidos /\ consumido[origen[v]]
        BY <4>1 DEF IInv, CuentaRespaldada
      <4>3. origen[v] \in Codigos
        BY <4>2, CotasAssumption DEF IInv, TypeOK
      <4> QED
        BY <1>2, <1>4, <4>1, <4>2, <4>3
    <3> QED
      BY <3>1, <3>2
  <2>2. ASSUME NEW d \in Clientes, cuenta'[d] # 0 PROVE titular'[origen'[cuenta'[d]]] = d
    <3>1. CASE d = c
      BY <1>1, <1>2, <1>3, <3>1 DEF IInv, TypeOK
    <3>2. CASE d # c
      <4>1. cuenta'[d] = cuenta[d] /\ cuenta[d] \in Abiertas
        BY <1>2, <2>2, <3>2 DEF IInv, TypeOK
      <4>2. origen'[cuenta[d]] = origen[cuenta[d]]
        BY <1>2, <1>3, <4>1 DEF IInv, TypeOK
      <4> QED
        BY <1>2, <2>2, <4>1, <4>2 DEF IInv, CuentaRespaldada
    <3> QED
      BY <3>1, <3>2
  <2> QED
    BY <2>1, <2>2 DEF CuentaRespaldada
<1>10. SolicitudCoherente'
    BY <1>2 DEF IInv, TypeOK, SolicitudCoherente, Libre
<1>11. LimiteDeFallos'
    BY <1>2, <1>4 DEF IInv, LimiteDeFallos
<1> QED
    BY <1>8, <1>9, <1>10, <1>11 DEF IInv

LEMMA NextIInv == IInv /\ [Next]_vars => IInv'
<1> SUFFICES ASSUME IInv, [Next]_vars PROVE IInv'
    OBVIOUS
<1>1. CASE UNCHANGED vars
  <2>1. UNCHANGED <<registrado, cuenta, emitidos, titular, consumido, intentos, vencido,
                    cuentas, correo, origen, solicitud, operacion>>
    BY <1>1 DEF vars, codigos, usuarios
  <2>2. TypeOK'
    BY <2>1 DEF IInv, TypeOK, Solicitadas
  <2> QED
    BY <2>1, <2>2 DEF IInv, CuentaRespaldada, SolicitudCoherente, LimiteDeFallos
<1>2. CASE Next
    BY <1>2, AbrirOperacionIInv, InvalidarCodigosIInv, AbandonarOperacionIInv, ConfirmarAltaIInv,
       ConfirmarRegeneracionIInv, VencerIInv, LecturasIInv, ConfirmarFalloIInv,
       ConfirmarVinculacionIInv DEF Next
<1> QED
    BY <1>1, <1>2

\* The inductive invariant holds in every reachable state.
THEOREM Invariante == Spec => []IInv
    BY InitIInv, NextIInv, PTL DEF Spec

\* Rows, requests and histories keep their types.
THEOREM TipoCorrecto == Spec => []TypeOK
<1>1. IInv => TypeOK
    BY DEF IInv
<1> QED
    BY <1>1, Invariante, PTL

\* The account of a client rests on a consumed code that was issued to it.
THEOREM RespaldoSeguro == Spec => []CuentaRespaldada
<1>1. IInv => CuentaRespaldada
    BY DEF IInv
<1> QED
    BY <1>1, Invariante, PTL

\* A code whose count of failed attempts is at the limit is consumed.
THEOREM LimiteSeguro == Spec => []LimiteDeFallos
<1>1. IInv => LimiteDeFallos
    BY DEF IInv
<1> QED
    BY <1>1, Invariante, PTL

\* A linked client whose requests have drained keeps its account.
THEOREM VinculoSeguro == Spec => VinculoFirme
<1>1. ASSUME IInv, [Next]_vars, NEW c \in Clientes, Vinculado(c)
      PROVE  Vinculado(c)' /\ cuenta'[c] = cuenta[c]
  <2>1. cuenta[c] # 0 /\ \A r \in Solicitudes : solicitud[r].cliente # c
    BY <1>1 DEF Vinculado
  <2>2. ASSUME NEW r \in Solicitudes, NEW n, Avanzar(r, n), n.cliente # c, UNCHANGED cuenta
        PROVE  Vinculado(c)' /\ cuenta'[c] = cuenta[c]
    BY <1>1, <2>1, <2>2 DEF Avanzar, Vinculado, IInv, TypeOK
  <2>3. ASSUME UNCHANGED <<cuenta, solicitud>>
        PROVE  Vinculado(c)' /\ cuenta'[c] = cuenta[c]
    BY <2>1, <2>3 DEF Vinculado
  <2>4. Libre.cliente # c
    BY NadieAssumption DEF Libre
  <2>5. ASSUME NEW r \in Solicitudes, NEW d \in Clientes, NEW e \in Correos, LeerCliente(r, d, e)
        PROVE  Vinculado(c)' /\ cuenta'[c] = cuenta[c]
    <3> DEFINE n == [Libre EXCEPT !.fase = "cliente", !.cliente = d, !.correo = e]
    <3>1. n.cliente = d /\ d # c
      BY <2>1, <2>5 DEF LeerCliente, Libre
    <3> QED
      BY <2>2, <2>5, <3>1 DEF LeerCliente
  <2>6. ASSUME NEW r \in Solicitudes, LeerCorreo(r)
        PROVE  Vinculado(c)' /\ cuenta'[c] = cuenta[c]
    <3> DEFINE n == [solicitud[r] EXCEPT !.fase = "correo"]
    <3>1. n.cliente # c
      BY <1>1, <2>1, <2>6, SolicitudAbierta DEF LeerCorreo
    <3> QED
      BY <2>2, <2>6, <3>1 DEF LeerCorreo
  <2>7. ASSUME NEW r \in Solicitudes, NEW k \in Emitidos, NEW a \in {"correcta", "erronea"},
               LeerCodigo(r, k, a)
        PROVE  Vinculado(c)' /\ cuenta'[c] = cuenta[c]
    <3> DEFINE n == [solicitud[r] EXCEPT !.fase = a, !.codigo = k, !.visto = intentos[k]]
    <3>1. n.cliente # c
      BY <1>1, <2>1, <2>7, SolicitudAbierta DEF LeerCodigo
    <3> QED
      BY <2>2, <2>7, <3>1 DEF LeerCodigo
  <2>8. ASSUME NEW r \in Solicitudes, ConfirmarFallo(r) \/ Abandonar(r)
        PROVE  Vinculado(c)' /\ cuenta'[c] = cuenta[c]
    BY <2>2, <2>4, <2>8 DEF ConfirmarFallo, Abandonar
  <2>9. ASSUME NEW r \in Solicitudes, ConfirmarVinculacion(r)
        PROVE  Vinculado(c)' /\ cuenta'[c] = cuenta[c]
    <3>1. cuenta' = [cuenta EXCEPT ![solicitud[r].cliente] = cuentas + 1]
      BY <2>9 DEF ConfirmarVinculacion
    <3>2. cuenta'[c] = cuenta[c]
      BY <1>1, <2>1, <3>1 DEF IInv, TypeOK
    <3>3. solicitud' = [solicitud EXCEPT ![r] = Libre]
      BY <2>9 DEF ConfirmarVinculacion, Avanzar
    <3> QED
      BY <1>1, <2>1, <2>4, <3>2, <3>3 DEF Vinculado, IInv, TypeOK
  <2>10. ASSUME NEW o \in Operadores,
                \/ \E d \in Clientes : AbrirAlta(o, d) \/ AbrirRegeneracion(o, d)
                \/ ConfirmarAlta(o) \/ InvalidarCodigos(o)
                \/ ConfirmarRegeneracion(o) \/ AbandonarOperacion(o)
         PROVE  UNCHANGED <<cuenta, solicitud>>
    BY <2>10 DEF AbrirAlta, AbrirRegeneracion, ConfirmarAlta, InvalidarCodigos,
       ConfirmarRegeneracion, AbandonarOperacion
  <2>11. ASSUME NEW k \in Emitidos, Vencer(k) PROVE UNCHANGED <<cuenta, solicitud>>
    BY <2>11 DEF Vencer
  <2>12. CASE UNCHANGED vars
    BY <2>3, <2>12 DEF vars
  <2>13. CASE Next
    BY <2>3, <2>5, <2>6, <2>7, <2>8, <2>9, <2>10, <2>11, <2>13 DEF Next
  <2> QED
    BY <1>1, <2>12, <2>13
<1>2. IInv /\ [Next]_vars =>
        [\A c \in Clientes : Vinculado(c) => Vinculado(c)' /\ cuenta'[c] = cuenta[c]]_vars
    BY <1>1
<1> QED
    BY <1>2, Invariante, PTL DEF Spec, VinculoFirme

\* How a step of the module can touch the codes, the accounts and the requests:
\* consumed codes stay consumed, new requests match codes that are alive, and a
\* new account comes from a request that had matched its code.
LEMMA PasoCodigo ==
    ASSUME IInv, [Next]_vars, NEW k \in Emitidos, Muerto(k)
    PROVE  /\ Muerto(k)'
           /\ \A u \in Abiertas' \ Abiertas : origen'[u] # k
<1>1. /\ consumido[k]
      /\ k \in Codigos
      /\ \A r \in Solicitudes : ~(solicitud[r].fase = "correcta" /\ solicitud[r].codigo = k)
    BY CotasAssumption DEF Muerto, IInv, TypeOK
<1>2. ASSUME NEW r \in Solicitudes, NEW n, Avanzar(r, n),
             ~(n.fase = "correcta" /\ n.codigo = k), consumido'[k], UNCHANGED cuentas
      PROVE  Muerto(k)' /\ \A u \in Abiertas' \ Abiertas : origen'[u] # k
  <2>1. solicitud' = [solicitud EXCEPT ![r] = n]
    BY <1>2 DEF Avanzar
  <2> QED
    BY <1>1, <1>2, <2>1 DEF Muerto, IInv, TypeOK
<1>3. ASSUME consumido'[k], UNCHANGED <<cuentas, solicitud>>
      PROVE  Muerto(k)' /\ \A u \in Abiertas' \ Abiertas : origen'[u] # k
  BY <1>1, <1>3 DEF Muerto
<1>4. ASSUME NEW r \in Solicitudes, NEW d \in Clientes, NEW e \in Correos, LeerCliente(r, d, e)
      PROVE  Muerto(k)' /\ \A u \in Abiertas' \ Abiertas : origen'[u] # k
  <2> DEFINE n == [Libre EXCEPT !.fase = "cliente", !.cliente = d, !.correo = e]
  <2>1. n.fase = "cliente"
    BY DEF Libre
  <2> QED
    BY <1>1, <1>2, <1>4, <2>1 DEF LeerCliente, codigos, usuarios
<1>5. ASSUME NEW r \in Solicitudes, LeerCorreo(r)
      PROVE  Muerto(k)' /\ \A u \in Abiertas' \ Abiertas : origen'[u] # k
  <2> DEFINE n == [solicitud[r] EXCEPT !.fase = "correo"]
  <2>1. n.fase = "correo"
    BY <1>5, SolicitudAbierta DEF LeerCorreo
  <2> QED
    BY <1>1, <1>2, <1>5, <2>1 DEF LeerCorreo, codigos, usuarios
<1>6. ASSUME NEW r \in Solicitudes, NEW j \in Emitidos, NEW a \in {"correcta", "erronea"},
             LeerCodigo(r, j, a)
      PROVE  Muerto(k)' /\ \A u \in Abiertas' \ Abiertas : origen'[u] # k
  <2> DEFINE n == [solicitud[r] EXCEPT !.fase = a, !.codigo = j, !.visto = intentos[j]]
  <2>1. n.codigo = j
    BY <1>6, SolicitudAbierta DEF LeerCodigo
  <2>2. j # k
    BY <1>1, <1>6 DEF LeerCodigo, EsUltimo, Vivos
  <2> QED
    BY <1>1, <1>2, <1>6, <2>1, <2>2 DEF LeerCodigo, codigos, usuarios
<1>7. ASSUME NEW r \in Solicitudes, ConfirmarFallo(r) \/ Abandonar(r)
      PROVE  Muerto(k)' /\ \A u \in Abiertas' \ Abiertas : origen'[u] # k
  <2>1. Libre.fase # "correcta"
    BY DEF Libre
  <2>2. consumido'[k]
    BY <1>1, <1>7 DEF ConfirmarFallo, Abandonar, codigos, IInv, TypeOK
  <2> QED
    BY <1>2, <1>7, <2>1, <2>2 DEF ConfirmarFallo, Abandonar, usuarios
<1>8. ASSUME NEW r \in Solicitudes, ConfirmarVinculacion(r)
      PROVE  Muerto(k)' /\ \A u \in Abiertas' \ Abiertas : origen'[u] # k
  <2>1. solicitud[r].codigo # k
    BY <1>1, <1>8 DEF ConfirmarVinculacion
  <2>2. /\ consumido' = [consumido EXCEPT ![solicitud[r].codigo] = TRUE]
        /\ cuentas' = cuentas + 1
        /\ origen' = [origen EXCEPT ![cuentas + 1] = solicitud[r].codigo]
        /\ solicitud' = [solicitud EXCEPT ![r] = Libre]
        /\ cuentas \in 0 .. MaxCuentas
        /\ cuentas < MaxCuentas
        /\ origen \in [Cuentas -> 0 .. emitidos]
    BY <1>8 DEF ConfirmarVinculacion, Avanzar, IInv, TypeOK
  <2>3. Abiertas' \ Abiertas = {cuentas + 1} /\ cuentas + 1 \in Cuentas
    BY <2>2, CotasAssumption
  <2>4. origen'[cuentas + 1] = solicitud[r].codigo
    BY <2>2, <2>3
  <2>5. Muerto(k)'
    BY <1>1, <2>2 DEF Muerto, IInv, TypeOK, Libre
  <2> QED
    BY <2>1, <2>3, <2>4, <2>5
<1>9. ASSUME NEW o \in Operadores,
             \/ \E d \in Clientes : AbrirAlta(o, d) \/ AbrirRegeneracion(o, d)
             \/ ConfirmarAlta(o) \/ InvalidarCodigos(o)
             \/ ConfirmarRegeneracion(o) \/ AbandonarOperacion(o)
      PROVE  consumido'[k] /\ UNCHANGED <<cuentas, solicitud>>
  BY <1>1, <1>9 DEF AbrirAlta, AbrirRegeneracion, ConfirmarAlta, InvalidarCodigos,
     ConfirmarRegeneracion, AbandonarOperacion, codigos, usuarios
<1>10. ASSUME NEW j \in Emitidos, Vencer(j) PROVE consumido'[k] /\ UNCHANGED <<cuentas, solicitud>>
  BY <1>1, <1>10 DEF Vencer, usuarios
<1>11. CASE UNCHANGED vars
  BY <1>1, <1>3, <1>11 DEF vars, codigos, usuarios
<1>12. CASE Next
  BY <1>3, <1>4, <1>5, <1>6, <1>7, <1>8, <1>9, <1>10, <1>12 DEF Next
<1> QED
  BY <1>11, <1>12

\* A dead code opens no account, whatever commits late.
THEOREM CodigoMuertoSeguro == Spec => CodigoMuertoNoVincula
<1>1. IInv /\ [Next]_vars =>
        [\A k \in Emitidos : Muerto(k) =>
            /\ Muerto(k)'
            /\ \A u \in Abiertas' \ Abiertas : origen'[u] # k]_vars
    BY PasoCodigo
<1> QED
    BY <1>1, Invariante, PTL DEF Spec, CodigoMuertoNoVincula

-----------------------------------------------------------------------------
(* Live codes.  Each was issued by some operator, and no operator issues   *)
(* two that are alive: what an operator issued before is among the codes   *)
(* its next regeneration consumes.                                         *)

\* f names an operator for each of the live codes vivas of c.
EmisoresDe(c, f, vivas, ops) ==
    /\ f \in [vivas -> Operadores]
    /\ \A j, k \in vivas : f[j] = f[k] => j = k
    /\ \A o \in Operadores : ops[o].fase = "marcada" /\ ops[o].cliente = c =>
            \A k \in vivas : f[k] = o => k \in ops[o].vivos

Emisores == \A c \in Clientes : \E f : EmisoresDe(c, f, Vivos(c), operacion)

\* Only registered clients have codes and regenerations.
SoloRegistrados ==
    /\ \A k \in Emitidos : titular[k] \in registrado
    /\ \A o \in Operadores : operacion[o].fase \in {"leida", "marcada"} =>
            operacion[o].cliente \in registrado

InvEmisores == IInv /\ SoloRegistrados /\ Emisores

\* A step after which no other code is alive, and no operator has a regeneration that
\* consumes fewer, leaves the operators of the codes as they were.
LEMMA EmisoresQuietos ==
    ASSUME Emisores, NEW c \in Clientes, Vivos(c)' \subseteq Vivos(c),
           \A o \in Operadores :
              operacion'[o].fase = "marcada" /\ operacion'[o].cliente = c =>
                  \/ operacion'[o] = operacion[o]
                  \/ Vivos(c)' \subseteq operacion'[o].vivos
    PROVE  \E f : EmisoresDe(c, f, Vivos(c)', operacion')
<1>1. PICK f : EmisoresDe(c, f, Vivos(c), operacion)
    BY DEF Emisores
<1> DEFINE g == [k \in Vivos(c)' |-> f[k]]
<1>2. /\ g \in [Vivos(c)' -> Operadores]
      /\ \A j, k \in Vivos(c)' : g[j] = g[k] => j = k
    BY <1>1 DEF EmisoresDe
<1>3. ASSUME NEW o \in Operadores, operacion'[o].fase = "marcada", operacion'[o].cliente = c,
             NEW k \in Vivos(c)', g[k] = o
      PROVE  k \in operacion'[o].vivos
    BY <1>1, <1>3 DEF EmisoresDe
<1> HIDE DEF g
<1>4. EmisoresDe(c, g, Vivos(c)', operacion')
    BY <1>2, <1>3 DEF EmisoresDe
<1> QED
    BY <1>4

\* An operator that issues a code had no other of that client alive, or consumes it.
LEMMA EmisoresNuevos ==
    ASSUME IInv, Emisores, NEW o \in Operadores, NEW d \in Clientes, EmitirCodigo(d),
           operacion' = [operacion EXCEPT ![o] = SinOperacion],
           \A k \in Codigos : consumido[k] => consumido'[k],
           \/ Vivos(d) = {}
           \/ /\ operacion[o].fase = "marcada" /\ operacion[o].cliente = d
              /\ \A k \in operacion[o].vivos : consumido'[k]
    PROVE  Emisores'
<1> SUFFICES ASSUME NEW c \in Clientes PROVE \E f : EmisoresDe(c, f, Vivos(c)', operacion')
    BY DEF Emisores
<1> DEFINE k0 == emitidos + 1
<1>1. /\ emitidos' = k0 /\ titular' = [titular EXCEPT ![k0] = d]
      /\ emitidos \in 0 .. MaxCodigos /\ emitidos < MaxCodigos /\ MaxCodigos \in Nat
      /\ DOMAIN titular = Codigos
    BY CotasAssumption DEF EmitirCodigo, IInv, TypeOK
<1>2. Emitidos' = Emitidos \union {k0} /\ Emitidos \subseteq Codigos /\ k0 \in Codigos
      /\ k0 \notin Emitidos
    BY <1>1
<1>3. \A k \in Emitidos : titular'[k] = titular[k] /\ (consumido[k] => consumido'[k])
    BY <1>1, <1>2
<1>4. titular'[k0] = d
    BY <1>1, <1>2
<1> HIDE DEF k0
<1>5. \A p \in Operadores : operacion'[p] = IF p = o THEN SinOperacion ELSE operacion[p]
    BY DEF IInv, TypeOK
<1>6. SinOperacion.fase # "marcada"
    BY DEF SinOperacion
<1>7. CASE c # d
  <2>1. Vivos(c)' \subseteq Vivos(c)
    BY <1>2, <1>3, <1>4, <1>7 DEF Vivos
  <2> QED
    BY <1>5, <1>6, <2>1, EmisoresQuietos
<1>8. CASE c = d
  <2>1. PICK f : EmisoresDe(c, f, Vivos(c), operacion)
    BY DEF Emisores
  <2>2. Vivos(c)' \subseteq Vivos(c) \union {k0} /\ k0 \notin Vivos(c)
    BY <1>2, <1>3 DEF Vivos
  <2>3. \A k \in Vivos(c)' \ {k0} : f[k] # o
    <3> SUFFICES ASSUME NEW k \in Vivos(c)' \ {k0}, f[k] = o PROVE FALSE
      OBVIOUS
    <3>1. k \in Vivos(c) /\ ~ consumido'[k]
      BY <2>2 DEF Vivos
    <3> QED
      BY <1>8, <2>1, <3>1 DEF EmisoresDe
  <2> DEFINE g == [k \in Vivos(c)' |-> IF k = k0 THEN o ELSE f[k]]
  <2>4. /\ g \in [Vivos(c)' -> Operadores]
        /\ \A j, k \in Vivos(c)' : g[j] = g[k] => j = k
    <3>1. \A k \in Vivos(c)' : k # k0 => k \in Vivos(c) /\ f[k] \in Operadores /\ f[k] # o
      BY <2>1, <2>2, <2>3 DEF EmisoresDe
    <3> QED
      BY <2>1, <3>1 DEF EmisoresDe
  <2>5. ASSUME NEW p \in Operadores, operacion'[p].fase = "marcada", operacion'[p].cliente = c,
               NEW k \in Vivos(c)', g[k] = p
        PROVE  k \in operacion'[p].vivos
    <3>1. p # o /\ operacion'[p] = operacion[p]
      BY <1>5, <1>6, <2>5
    <3>2. k \in Vivos(c) /\ f[k] = p
      BY <2>2, <2>5, <3>1
    <3> QED
      BY <2>1, <2>5, <3>1, <3>2 DEF EmisoresDe
  <2> HIDE DEF g
  <2>6. EmisoresDe(c, g, Vivos(c)', operacion')
    BY <2>4, <2>5 DEF EmisoresDe
  <2> QED
    BY <2>6
<1> QED
    BY <1>7, <1>8

\* A step that issues no code and writes no operation.
LEMMA SinEmitir ==
    ASSUME InvEmisores, UNCHANGED <<registrado, emitidos, titular, operacion>>,
           \A k \in Codigos : consumido[k] => consumido'[k]
    PROVE  SoloRegistrados' /\ Emisores'
<1>1. SoloRegistrados'
    BY DEF InvEmisores, SoloRegistrados
<1>2. ASSUME NEW c \in Clientes PROVE Vivos(c)' \subseteq Vivos(c)
  <2>1. Emitidos \subseteq Codigos
    BY CotasAssumption DEF InvEmisores, IInv, TypeOK
  <2> QED
    BY <2>1 DEF Vivos
<1>3. Emisores'
    BY <1>2, EmisoresQuietos DEF InvEmisores, Emisores
<1> QED
    BY <1>1, <1>3

\* A step that only writes an operation.
LEMMA SoloOperacion ==
    ASSUME InvEmisores, NEW o \in Operadores, NEW n, operacion' = [operacion EXCEPT ![o] = n],
           UNCHANGED <<registrado, codigos>>,
           n.fase \in {"leida", "marcada"} => n.cliente \in registrado,
           n.fase = "marcada" => n.vivos = Vivos(n.cliente)
    PROVE  SoloRegistrados' /\ Emisores'
<1>1. \A p \in Operadores : operacion'[p] = IF p = o THEN n ELSE operacion[p]
    BY DEF InvEmisores, IInv, TypeOK
<1>2. SoloRegistrados'
    BY <1>1 DEF InvEmisores, SoloRegistrados, codigos
<1>3. \A c \in Clientes : Vivos(c)' = Vivos(c)
    BY DEF Vivos, codigos
<1>4. ASSUME NEW c \in Clientes PROVE \E f : EmisoresDe(c, f, Vivos(c)', operacion')
  <2>1. ASSUME NEW p \in Operadores, operacion'[p].fase = "marcada", operacion'[p].cliente = c
        PROVE  operacion'[p] = operacion[p] \/ Vivos(c)' \subseteq operacion'[p].vivos
    BY <1>1, <1>3, <2>1
  <2>2. Vivos(c)' \subseteq Vivos(c)
    BY <1>3
  <2> QED
    BY <2>1, <2>2, EmisoresQuietos DEF InvEmisores
<1> QED
    BY <1>2, <1>4 DEF Emisores

\* A code is issued to a client that is registered by then.
LEMMA RegistradosTrasEmitir ==
    ASSUME InvEmisores, NEW o \in Operadores, NEW d \in registrado', EmitirCodigo(d),
           operacion' = [operacion EXCEPT ![o] = SinOperacion], registrado \subseteq registrado'
    PROVE  SoloRegistrados'
<1>1. /\ emitidos' = emitidos + 1 /\ titular' = [titular EXCEPT ![emitidos + 1] = d]
      /\ emitidos \in 0 .. MaxCodigos /\ emitidos < MaxCodigos /\ MaxCodigos \in Nat
      /\ DOMAIN titular = Codigos
    BY CotasAssumption DEF EmitirCodigo, InvEmisores, IInv, TypeOK
<1>2. \A k \in Emitidos' : titular'[k] \in registrado'
    BY <1>1 DEF InvEmisores, SoloRegistrados
<1>3. \A p \in Operadores : operacion'[p] = IF p = o THEN SinOperacion ELSE operacion[p]
    BY DEF InvEmisores, IInv, TypeOK
<1>4. SinOperacion.fase \notin {"leida", "marcada"}
    BY DEF SinOperacion
<1> QED
    BY <1>2, <1>3, <1>4 DEF InvEmisores, SoloRegistrados

LEMMA PasoEmisores ==
    ASSUME InvEmisores, [Next]_vars
    PROVE  SoloRegistrados' /\ Emisores'
<1>1. CASE UNCHANGED vars
    BY <1>1, SinEmitir DEF vars, codigos
<1>2. ASSUME NEW o \in Operadores, NEW c \in Clientes, AbrirAlta(o, c) \/ AbrirRegeneracion(o, c)
      PROVE  SoloRegistrados' /\ Emisores'
  <2>1. CASE AbrirAlta(o, c)
    <3> DEFINE n == [fase |-> "alta", cliente |-> c, vivos |-> {}]
    <3>1. n.fase = "alta"
      OBVIOUS
    <3> QED
      BY <2>1, <3>1, SoloOperacion DEF AbrirAlta
  <2>2. CASE AbrirRegeneracion(o, c)
    <3> DEFINE n == [fase |-> "leida", cliente |-> c, vivos |-> {}]
    <3>1. n.fase = "leida" /\ n.cliente = c
      OBVIOUS
    <3> QED
      BY <2>2, <3>1, SoloOperacion DEF AbrirRegeneracion
  <2> QED
    BY <1>2, <2>1, <2>2
<1>3. ASSUME NEW o \in Operadores, InvalidarCodigos(o)
      PROVE  SoloRegistrados' /\ Emisores'
  <2> DEFINE n == [operacion[o] EXCEPT !.fase = "marcada", !.vivos = Vivos(operacion[o].cliente)]
  <2>1. operacion[o] \in [fase : {"alta", "leida", "marcada"}, cliente : Clientes,
                          vivos : SUBSET Emitidos]
    BY <1>3, OperacionAbierta DEF InvalidarCodigos, InvEmisores
  <2>2. n.cliente = operacion[o].cliente /\ n.vivos = Vivos(operacion[o].cliente)
    BY <2>1
  <2>3. operacion[o].cliente \in registrado
    BY <1>3 DEF InvalidarCodigos, InvEmisores, SoloRegistrados
  <2>4. operacion' = [operacion EXCEPT ![o] = n] /\ UNCHANGED <<registrado, codigos>>
    BY <1>3 DEF InvalidarCodigos, InvEmisores, IInv, TypeOK
  <2> HIDE DEF n
  <2> QED
    BY <2>2, <2>3, <2>4, SoloOperacion
<1>4. ASSUME NEW o \in Operadores, AbandonarOperacion(o)
      PROVE  SoloRegistrados' /\ Emisores'
  <2>1. SinOperacion.fase = "libre"
    BY DEF SinOperacion
  <2> QED
    BY <1>4, <2>1, SoloOperacion DEF AbandonarOperacion
<1>5. ASSUME NEW o \in Operadores, ConfirmarAlta(o) \/ ConfirmarRegeneracion(o)
      PROVE  SoloRegistrados' /\ Emisores'
  <2> DEFINE d == operacion[o].cliente
  <2>1. d \in Clientes
    BY <1>5, OperacionAbierta DEF ConfirmarAlta, ConfirmarRegeneracion, InvEmisores
  <2>2. EmitirCodigo(d) /\ operacion' = [operacion EXCEPT ![o] = SinOperacion]
    BY <1>5 DEF ConfirmarAlta, ConfirmarRegeneracion
  <2>3. \A k \in Codigos : consumido[k] => consumido'[k]
    BY <1>5 DEF ConfirmarAlta, ConfirmarRegeneracion
  <2>4. CASE ConfirmarAlta(o)
    <3>1. Vivos(d) = {}
      BY <2>4 DEF ConfirmarAlta, InvEmisores, SoloRegistrados, Vivos
    <3> QED
      BY <2>1, <2>2, <2>3, <3>1, EmisoresNuevos, RegistradosTrasEmitir, <2>4
         DEF InvEmisores, ConfirmarAlta
  <2>5. CASE ConfirmarRegeneracion(o)
    <3>1. /\ operacion[o].fase = "marcada"
          /\ \A k \in operacion[o].vivos : consumido'[k]
      <4>1. operacion[o].vivos \subseteq Codigos
        BY <2>5, OperacionAbierta, CotasAssumption
           DEF ConfirmarRegeneracion, InvEmisores, IInv, TypeOK
      <4> QED
        BY <2>5, <4>1 DEF ConfirmarRegeneracion
    <3>2. d \in registrado'
      BY <2>5 DEF ConfirmarRegeneracion, InvEmisores, SoloRegistrados
    <3> QED
      BY <2>1, <2>2, <2>3, <2>5, <3>1, <3>2, EmisoresNuevos, RegistradosTrasEmitir
         DEF InvEmisores, ConfirmarRegeneracion
  <2> QED
    BY <1>5, <2>4, <2>5
<1>6. ASSUME NEW k \in Emitidos, Vencer(k) PROVE SoloRegistrados' /\ Emisores'
    BY <1>6, SinEmitir DEF Vencer
<1>7. ASSUME NEW r \in Solicitudes,
             \/ \E c \in Clientes, e \in Correos : LeerCliente(r, c, e)
             \/ LeerCorreo(r)
             \/ \E k \in Emitidos, a \in {"correcta", "erronea"} : LeerCodigo(r, k, a)
             \/ ConfirmarFallo(r) \/ ConfirmarVinculacion(r) \/ Abandonar(r)
      PROVE  SoloRegistrados' /\ Emisores'
  <2>1. UNCHANGED <<registrado, emitidos, titular, operacion>>
    BY <1>7 DEF LeerCliente, LeerCorreo, LeerCodigo, ConfirmarFallo, ConfirmarVinculacion,
       Abandonar, codigos
  <2>2. \A k \in Codigos : consumido[k] => consumido'[k]
    BY <1>7 DEF LeerCliente, LeerCorreo, LeerCodigo, ConfirmarFallo, ConfirmarVinculacion,
       Abandonar, codigos, InvEmisores, IInv, TypeOK
  <2> QED
    BY <2>1, <2>2, SinEmitir
<1> QED
    BY <1>1, <1>2, <1>3, <1>4, <1>5, <1>6, <1>7 DEF Next

\* However many regenerations overlap, no more codes of a client are alive than
\* operators can be regenerating.
THEOREM CodigosVivosSeguros == Spec => []CodigosVivosAcotados
<1>1. Init => InvEmisores
  <2> SUFFICES ASSUME Init PROVE SoloRegistrados /\ Emisores
    BY InitIInv DEF InvEmisores
  <2>1. Emitidos = {} /\ \A c \in Clientes : Vivos(c) = {}
    BY DEF Init, Vivos
  <2>2. SoloRegistrados
    BY <2>1 DEF Init, SoloRegistrados, SinOperacion
  <2>3. ASSUME NEW c \in Clientes PROVE EmisoresDe(c, [k \in {} |-> k], Vivos(c), operacion)
    BY <2>1 DEF EmisoresDe
  <2> QED
    BY <2>2, <2>3 DEF Emisores
<1>2. InvEmisores /\ [Next]_vars => InvEmisores'
    BY PasoEmisores, NextIInv DEF InvEmisores
<1>3. InvEmisores => CodigosVivosAcotados
  <2> SUFFICES ASSUME Emisores, NEW c \in Clientes
               PROVE  Cardinality(Vivos(c)) <= Cardinality(Operadores)
    BY DEF InvEmisores, CodigosVivosAcotados
  <2>1. PICK f : EmisoresDe(c, f, Vivos(c), operacion)
    BY DEF Emisores
  <2>2. f \in Injection(Vivos(c), Operadores)
    BY <2>1 DEF EmisoresDe, Injection, IsInjective
  <2> QED
    BY <2>2, FS_Injection, FinitudAssumption
<1> QED
    BY <1>1, <1>2, <1>3, PTL DEF Spec
-----------------------------------------------------------------------------
(* Accounts of a client.  Requests that overlap can redeem one code more    *)
(* than once, but all of them passed the check for an account before the    *)
(* first opened one: an account takes the place of an open request.         *)

CuentasDe(c) == {u \in Abiertas : titular[origen[u]] = c}
SolicitudesDe(c) == {r \in Solicitudes : solicitud[r].cliente = c}

\* Accounts are opened for clients, who have one from then on.
DeVinculados ==
    \A u \in Abiertas :
        titular[origen[u]] \in Clientes /\ cuenta[titular[origen[u]]] # 0

Cupo(c) ==
    Cardinality(CuentasDe(c)) + Cardinality(SolicitudesDe(c)) <= Cardinality(Solicitudes)

InvCuentas == IInv /\ DeVinculados /\ \A c \in Clientes : Cupo(c)

LEMMA ConjuntosFinitos ==
    ASSUME IInv, NEW c
    PROVE  /\ IsFiniteSet(CuentasDe(c)) /\ Cardinality(CuentasDe(c)) \in Nat
           /\ IsFiniteSet(SolicitudesDe(c)) /\ Cardinality(SolicitudesDe(c)) \in Nat
           /\ Cardinality(SolicitudesDe(c)) <= Cardinality(Solicitudes)
           /\ Cardinality(Solicitudes) \in Nat
<1>1. IsFiniteSet(1 .. cuentas)
  <2>1. cuentas \in Int
    BY DEF IInv, TypeOK
  <2> QED
    BY <2>1, FS_Interval
<1>2. CuentasDe(c) \subseteq 1 .. cuentas /\ SolicitudesDe(c) \subseteq Solicitudes
    BY DEF CuentasDe, SolicitudesDe
<1> QED
    BY <1>1, <1>2, FinitudAssumption, FS_Subset, FS_CardinalityType

\* After the step, request r is about nobody, about the client it was about, or about
\* one without an account.
Renueva(r) ==
    \/ solicitud'[r].cliente = Nadie
    \/ solicitud'[r].cliente = solicitud[r].cliente
    \/ cuenta[solicitud'[r].cliente] = 0

\* A step that opens no account.
LEMMA SinCuentaNueva ==
    ASSUME InvCuentas, IInv', UNCHANGED <<cuenta, cuentas, origen>>,
           \A k \in Emitidos : titular'[k] = titular[k],
           \A r \in Solicitudes : Renueva(r)
    PROVE  InvCuentas'
<1>1. \A u \in Abiertas : origen[u] \in Emitidos /\ titular'[origen'[u]] = titular[origen[u]]
    BY DEF InvCuentas, IInv, CuentaRespaldada
<1>2. DeVinculados'
    BY <1>1 DEF InvCuentas, DeVinculados
<1>3. ASSUME NEW c \in Clientes PROVE Cupo(c)'
  <2>1. CuentasDe(c)' = CuentasDe(c)
    BY <1>1 DEF CuentasDe
  <2>2. IInv
    BY DEF InvCuentas
  <2>3. /\ Cardinality(CuentasDe(c)) \in Nat /\ Cardinality(SolicitudesDe(c)) \in Nat
        /\ IsFiniteSet(SolicitudesDe(c)) /\ Cardinality(Solicitudes) \in Nat
    BY <2>2, ConjuntosFinitos
  <2>4. SolicitudesDe(c)' \subseteq Solicitudes
    BY DEF SolicitudesDe
  <2>5. /\ Cardinality(SolicitudesDe(c)') \in Nat
        /\ Cardinality(SolicitudesDe(c)') <= Cardinality(Solicitudes)
    BY FinitudAssumption, FS_Subset, FS_CardinalityType, <2>4
  <2>6. CASE cuenta[c] = 0
    <3>1. CuentasDe(c) = {}
      BY <2>6 DEF InvCuentas, DeVinculados, CuentasDe
    <3> QED
      BY <2>1, <2>5, <3>1, FS_EmptySet, <2>3 DEF Cupo
  <2>7. CASE cuenta[c] # 0
    <3>1. SolicitudesDe(c)' \subseteq SolicitudesDe(c)
      BY <2>7, NadieAssumption DEF SolicitudesDe, Renueva
    <3>2. Cardinality(SolicitudesDe(c)') <= Cardinality(SolicitudesDe(c))
      BY <2>3, <3>1, FS_Subset
    <3>3. Cupo(c)
      BY DEF InvCuentas
    <3> QED
      BY <2>1, <2>3, <2>5, <3>2, <3>3 DEF Cupo
  <2> QED
    BY <2>6, <2>7
<1> QED
    BY <1>2, <1>3 DEF InvCuentas

LEMMA ConfirmarVinculacionCuentas ==
    ASSUME InvCuentas, IInv', NEW r \in Solicitudes, ConfirmarVinculacion(r)
    PROVE  InvCuentas'
<1> DEFINE k == solicitud[r].codigo
           d == solicitud[r].cliente
           u == cuentas + 1
<1>1. IInv /\ solicitud[r].fase = "correcta"
    BY DEF InvCuentas, ConfirmarVinculacion
<1>2. k \in Emitidos /\ d \in Clientes /\ titular[k] = d
    BY <1>1, RespuestaComparada
<1>3. /\ cuentas' = u
      /\ origen' = [origen EXCEPT ![u] = k]
      /\ cuenta' = [cuenta EXCEPT ![d] = u]
      /\ solicitud' = [solicitud EXCEPT ![r] = Libre]
      /\ titular' = titular
      /\ cuentas < MaxCuentas
    BY DEF ConfirmarVinculacion, Avanzar
<1>4. /\ cuentas \in Nat /\ u \in Cuentas
      /\ origen \in [Cuentas -> 0 .. emitidos] /\ cuenta \in [Clientes -> 0 .. cuentas]
      /\ DOMAIN solicitud = Solicitudes
    BY <1>1, <1>3, CotasAssumption DEF IInv, TypeOK
<1>5. Abiertas' = Abiertas \union {u} /\ u \notin Abiertas /\ Abiertas \subseteq Cuentas
    BY <1>3, <1>4, CotasAssumption
<1> HIDE DEF k, d, u
<1>6. \A v \in Abiertas : origen'[v] = origen[v]
    BY <1>3, <1>4, <1>5
<1>7. origen'[u] = k /\ cuenta'[d] = u /\ u # 0
    BY <1>2, <1>3, <1>4 DEF u
<1>8. DeVinculados'
  <2>1. ASSUME NEW v \in Abiertas
        PROVE  titular'[origen'[v]] \in Clientes /\ cuenta'[titular'[origen'[v]]] # 0
    <3>1. titular[origen[v]] \in Clientes /\ cuenta[titular[origen[v]]] # 0
      BY <2>1 DEF InvCuentas, DeVinculados
    <3> QED
      BY <1>3, <1>4, <1>6, <1>7, <2>1, <3>1
  <2>2. titular'[origen'[u]] \in Clientes /\ cuenta'[titular'[origen'[u]]] # 0
    BY <1>2, <1>3, <1>7
  <2> QED
    BY <1>5, <2>1, <2>2 DEF DeVinculados
<1>9. ASSUME NEW c \in Clientes PROVE Cupo(c)'
  <2>1. CuentasDe(c)' = IF c = d THEN CuentasDe(c) \union {u} ELSE CuentasDe(c)
    BY <1>2, <1>3, <1>5, <1>6, <1>7 DEF CuentasDe
  <2>2. SolicitudesDe(c)' = IF c = d THEN SolicitudesDe(c) \ {r} ELSE SolicitudesDe(c)
    BY <1>3, <1>4, NadieAssumption DEF SolicitudesDe, Libre, d
  <2>3. u \notin CuentasDe(c) /\ (c = d => r \in SolicitudesDe(c))
    BY <1>5 DEF CuentasDe, SolicitudesDe, d
  <2>4. /\ IsFiniteSet(CuentasDe(c)) /\ Cardinality(CuentasDe(c)) \in Nat
        /\ IsFiniteSet(SolicitudesDe(c)) /\ Cardinality(SolicitudesDe(c)) \in Nat
        /\ Cardinality(Solicitudes) \in Nat
    BY <1>1, ConjuntosFinitos
  <2>5. c = d => /\ Cardinality(CuentasDe(c)') = Cardinality(CuentasDe(c)) + 1
                 /\ Cardinality(SolicitudesDe(c)') = Cardinality(SolicitudesDe(c)) - 1
    <3> SUFFICES ASSUME c = d
                 PROVE  /\ Cardinality(CuentasDe(c)') = Cardinality(CuentasDe(c)) + 1
                        /\ Cardinality(SolicitudesDe(c)') = Cardinality(SolicitudesDe(c)) - 1
      OBVIOUS
    <3>1. Cardinality(CuentasDe(c) \union {u}) = Cardinality(CuentasDe(c)) + 1
      BY <2>3, <2>4, FS_AddElement
    <3>2. Cardinality(SolicitudesDe(c) \ {r}) = Cardinality(SolicitudesDe(c)) - 1
      BY <2>3, <2>4, FS_RemoveElement
    <3> QED
      BY <2>1, <2>2, <3>1, <3>2
  <2>6. Cupo(c)
    BY DEF InvCuentas
  <2> QED
    BY <2>1, <2>2, <2>4, <2>5, <2>6 DEF Cupo
<1> QED
    BY <1>8, <1>9 DEF InvCuentas

LEMMA PasoCuentas == InvCuentas /\ [Next]_vars => InvCuentas'
<1> SUFFICES ASSUME InvCuentas, [Next]_vars PROVE InvCuentas'
    OBVIOUS
<1>1. IInv /\ IInv'
    BY NextIInv DEF InvCuentas
<1>2. /\ emitidos \in Nat /\ Emitidos \subseteq Codigos /\ DOMAIN titular = Codigos
      /\ DOMAIN solicitud = Solicitudes
    BY <1>1, CotasAssumption DEF IInv, TypeOK
<1>3. ASSUME NEW r \in Solicitudes, NEW n, Avanzar(r, n),
             n.cliente \in {Nadie, solicitud[r].cliente} \/ cuenta[n.cliente] = 0,
             UNCHANGED <<cuenta, titular, usuarios>>
      PROVE  InvCuentas'
  <2>1. ASSUME NEW q \in Solicitudes PROVE Renueva(q)
    BY <1>2, <1>3, <2>1 DEF Avanzar, Renueva
  <2> QED
    BY <1>1, <1>3, <2>1, SinCuentaNueva DEF usuarios
<1>4. ASSUME NEW r \in Solicitudes, NEW c \in Clientes, NEW e \in Correos, LeerCliente(r, c, e)
      PROVE  InvCuentas'
  <2> DEFINE n == [Libre EXCEPT !.fase = "cliente", !.cliente = c, !.correo = e]
  <2>1. n.cliente = c /\ cuenta[c] = 0
    BY <1>4 DEF LeerCliente, Libre
  <2> QED
    BY <1>3, <1>4, <2>1 DEF LeerCliente, codigos
<1>5. ASSUME NEW r \in Solicitudes, LeerCorreo(r) PROVE InvCuentas'
  <2> DEFINE n == [solicitud[r] EXCEPT !.fase = "correo"]
  <2>1. n.cliente = solicitud[r].cliente
    BY <1>1, <1>5, SolicitudAbierta DEF LeerCorreo
  <2> QED
    BY <1>3, <1>5, <2>1 DEF LeerCorreo, codigos
<1>6. ASSUME NEW r \in Solicitudes, NEW k \in Emitidos, NEW a \in {"correcta", "erronea"},
             LeerCodigo(r, k, a)
      PROVE  InvCuentas'
  <2> DEFINE n == [solicitud[r] EXCEPT !.fase = a, !.codigo = k, !.visto = intentos[k]]
  <2>1. n.cliente = solicitud[r].cliente
    BY <1>1, <1>6, SolicitudAbierta DEF LeerCodigo
  <2> QED
    BY <1>3, <1>6, <2>1 DEF LeerCodigo, codigos
<1>7. ASSUME NEW r \in Solicitudes, ConfirmarFallo(r) \/ Abandonar(r) PROVE InvCuentas'
  <2>1. Libre.cliente = Nadie
    BY DEF Libre
  <2> QED
    BY <1>3, <1>7, <2>1 DEF ConfirmarFallo, Abandonar, codigos
<1>8. ASSUME UNCHANGED <<cuenta, solicitud, usuarios>>,
             \A k \in Emitidos : titular'[k] = titular[k]
      PROVE  InvCuentas'
    BY <1>1, <1>8, SinCuentaNueva DEF Renueva, usuarios
<1>9. ASSUME NEW o \in Operadores,
             \/ \E c \in Clientes : AbrirAlta(o, c) \/ AbrirRegeneracion(o, c)
             \/ ConfirmarAlta(o) \/ InvalidarCodigos(o)
             \/ ConfirmarRegeneracion(o) \/ AbandonarOperacion(o)
      PROVE  InvCuentas'
  <2>1. UNCHANGED <<cuenta, solicitud, usuarios>>
    BY <1>9 DEF AbrirAlta, AbrirRegeneracion, ConfirmarAlta, InvalidarCodigos,
       ConfirmarRegeneracion, AbandonarOperacion
  <2>2. \/ titular' = titular
        \/ \E c : titular' = [titular EXCEPT ![emitidos + 1] = c]
    BY <1>9 DEF AbrirAlta, AbrirRegeneracion, ConfirmarAlta, InvalidarCodigos,
       ConfirmarRegeneracion, AbandonarOperacion, EmitirCodigo, codigos
  <2>3. ASSUME NEW c, titular' = [titular EXCEPT ![emitidos + 1] = c], NEW k \in Emitidos
        PROVE  titular'[k] = titular[k]
    <3>1. k \in DOMAIN titular /\ k # emitidos + 1
      BY <1>2
    <3> QED
      BY <2>3, <3>1
  <2>4. \A k \in Emitidos : titular'[k] = titular[k]
    BY <2>2, <2>3
  <2> QED
    BY <1>8, <2>1, <2>4
<1>10. ASSUME NEW k \in Emitidos, Vencer(k) PROVE InvCuentas'
    BY <1>8, <1>10 DEF Vencer
<1>11. CASE UNCHANGED vars
    BY <1>8, <1>11 DEF vars, codigos
<1>12. CASE Next
    BY <1>1, <1>4, <1>5, <1>6, <1>7, <1>9, <1>10, <1>12, ConfirmarVinculacionCuentas DEF Next
<1> QED
    BY <1>11, <1>12

LEMMA InicioCuentas == Init => InvCuentas
<1> SUFFICES ASSUME Init PROVE DeVinculados /\ \A c \in Clientes : Cupo(c)
    BY InitIInv DEF InvCuentas
<1>1. Abiertas = {}
    BY DEF Init
<1>2. ASSUME NEW c \in Clientes PROVE Cupo(c)
  <2>1. CuentasDe(c) = {}
    BY <1>1 DEF CuentasDe
  <2> QED
    BY <2>1, InitIInv, ConjuntosFinitos, FS_EmptySet DEF Cupo
<1> QED
    BY <1>1, <1>2 DEF DeVinculados

\* Whatever codes are issued to a client and however its requests overlap, it gets at
\* most one account for each request that can be open at a time.
THEOREM CuentasAcotadas ==
    Spec => [](\A c \in Clientes : Cardinality(CuentasDe(c)) <= Cardinality(Solicitudes))
<1>1. InvCuentas => \A c \in Clientes : Cardinality(CuentasDe(c)) <= Cardinality(Solicitudes)
  <2> SUFFICES ASSUME InvCuentas, NEW c \in Clientes
               PROVE  Cardinality(CuentasDe(c)) <= Cardinality(Solicitudes)
    OBVIOUS
  <2>1. IInv /\ Cupo(c)
    BY DEF InvCuentas
  <2> QED
    BY <2>1, ConjuntosFinitos DEF Cupo
<1> QED
    BY <1>1, InicioCuentas, PasoCuentas, PTL DEF Spec

\* A code can only open a second account where linking requests overlap.
THEOREM UnicoUsoSinSolape ==
    Spec => [](Cardinality(Solicitudes) = 1 => CodigoUnicoUso)
<1>1. InvCuentas => (Cardinality(Solicitudes) = 1 => CodigoUnicoUso)
  <2> SUFFICES ASSUME InvCuentas, Cardinality(Solicitudes) = 1, NEW k \in Emitidos
               PROVE  Cardinality({u \in Abiertas : origen[u] = k}) <= 1
    BY DEF CodigoUnicoUso
  <2> DEFINE S == {u \in Abiertas : origen[u] = k}
             c == titular[k]
  <2>1. IInv
    BY DEF InvCuentas
  <2>2. S \subseteq CuentasDe(c)
    BY DEF CuentasDe
  <2>3. Cardinality(S) <= Cardinality(CuentasDe(c)) /\ Cardinality(S) \in Nat
    BY <2>1, <2>2, ConjuntosFinitos, FS_Subset, FS_CardinalityType
  <2>4. CASE S = {}
    BY <2>4, FS_EmptySet
  <2>5. CASE S # {}
    <3>1. c \in Clientes
      BY <2>5 DEF InvCuentas, DeVinculados
    <3>2. Cupo(c)
      BY <3>1 DEF InvCuentas
    <3> QED
      BY <2>1, <2>3, <3>2, ConjuntosFinitos DEF Cupo
  <2> QED
    BY <2>4, <2>5
<1> QED
    BY <1>1, InicioCuentas, PasoCuentas, PTL DEF Spec
=============================================================================

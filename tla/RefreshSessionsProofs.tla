----------------------- MODULE RefreshSessionsProofs ------------------------
(***************************************************************************)
(* Safety of RefreshSessions for any number of rows and open requests.     *)
(* IInv is inductive: to bound the row a token descends from it must also  *)
(* know that families are rows of their own and that an open request has   *)
(* read an inserted row.  CierreFinal says what it takes for a family to   *)
(* die at once.                                                            *)
(***************************************************************************)
EXTENDS RefreshSessions, FiniteSetTheorems, TLAPS

LEMMA InitIInv == Init => IInv
  BY CotasAssumption
  DEF Init, IInv, TypeOK, Descendencia, TablaCoherente, Sesiones, Emitidas, Libre

\* An open request has read an inserted row.
LEMMA FilaLeida ==
    ASSUME IInv, NEW r \in Solicitudes, solicitud[r] # Libre
    PROVE  /\ solicitud[r].fase \in {"vigente", "reuso"}
           /\ solicitud[r].ses \in Emitidas
  BY DEF IInv, TypeOK

LEMMA FaseAbierta ==
    ASSUME NEW r \in Solicitudes, solicitud[r].fase \in {"vigente", "reuso"}
    PROVE  solicitud[r] # Libre
  BY DEF Libre

\* Releasing a request leaves every other one as it was.
LEMMA ResponderTipo ==
    ASSUME IInv, NEW r \in Solicitudes, NEW c \in {0, 200, 401, 500}, Responder(r, c),
           emitidas' \in Nat, emitidas <= emitidas'
    PROVE  /\ solicitud' \in [Solicitudes ->
                {Libre} \union [fase : {"vigente", "reuso"}, ses : Emitidas']]
           /\ respuesta' \in {0, 200, 401, 500}
           /\ \A q \in Solicitudes : solicitud'[q] \in {Libre, solicitud[q]}
  BY DEF IInv, TypeOK, Responder, Emitidas

\* Inserting row n of family f: either a login's or the successor of a row that
\* is revoked in the same commit.
LEMMA EmitirIInv ==
    ASSUME IInv, NEW f \in 1 .. emitidas + 1, NEW p \in 0 .. emitidas, Emitir(f, p),
           p = 0 => f = emitidas + 1,
           p # 0 => f = familia[p] /\ revocado'[p],
           revocado' \in [Sesiones -> BOOLEAN],
           \A s \in Sesiones : revocado'[s] <=> (revocado[s] \/ s = p),
           UNCHANGED <<vencida, activo, invalidada>>,
           solicitud' \in [Solicitudes ->
                {Libre} \union [fase : {"vigente", "reuso"}, ses : Emitidas']],
           respuesta' \in {0, 200, 401, 500},
           \A q \in Solicitudes : solicitud'[q] \in {Libre, solicitud[q]}
    PROVE  IInv'
  <1> DEFINE n == emitidas + 1
  <1>1. /\ emitidas \in Nat /\ n \in Sesiones /\ emitidas' = n
        /\ Emitidas = 1 .. emitidas /\ Emitidas' = 1 .. n
        /\ Emitidas \subseteq Sesiones
    BY CotasAssumption DEF IInv, TypeOK, Emitir, Emitidas, Sesiones
  <1>2. /\ familia' = [familia EXCEPT ![n] = f]
        /\ padre' = [padre EXCEPT ![n] = p]
        /\ familia \in [Sesiones -> 0 .. MaxSesiones]
        /\ padre \in [Sesiones -> 0 .. MaxSesiones]
    BY DEF Emitir, IInv, TypeOK
  <1>3. familia'[n] = f /\ padre'[n] = p
    BY <1>1, <1>2
  <1>4. \A s \in Emitidas : familia'[s] = familia[s] /\ padre'[s] = padre[s]
    BY <1>1, <1>2
  <1>5. \A s \in Emitidas : familia[s] \in Emitidas /\ familia[familia[s]] = familia[s]
    BY DEF IInv, TablaCoherente
  <1> HIDE DEF n
  <1>6. TypeOK'
    <2>1. f \in 0 .. MaxSesiones /\ p \in 0 .. MaxSesiones /\ n \in 0 .. MaxSesiones
      BY <1>1, CotasAssumption DEF Sesiones, n
    <2>2. /\ familia' \in [Sesiones -> 0 .. MaxSesiones]
          /\ padre' \in [Sesiones -> 0 .. MaxSesiones]
      BY <1>2, <2>1
    <2>3. emitidas' \in 0 .. MaxSesiones
      BY <1>1, <2>1
    <2> QED
      BY <2>2, <2>3 DEF IInv, TypeOK
  <1>7. Descendencia'
    <2> SUFFICES ASSUME NEW s \in 1 .. n
                 PROVE  /\ padre'[s] < s
                        /\ padre'[s] = 0 => familia'[s] = s
                        /\ padre'[s] # 0 =>
                             revocado'[padre'[s]] /\ familia'[s] = familia'[padre'[s]]
      BY <1>1 DEF Descendencia
    <2>1. CASE s = n
      <3>1. p # 0 => p \in Emitidas
        BY <1>1
      <3> QED
        BY <1>1, <1>3, <1>4, <2>1, <3>1 DEF n
    <2>2. CASE s \in Emitidas
      <3>1. /\ padre[s] < s
            /\ padre[s] = 0 => familia[s] = s
            /\ padre[s] # 0 => revocado[padre[s]] /\ familia[s] = familia[padre[s]]
        BY <2>2 DEF IInv, Descendencia
      <3>2. padre[s] # 0 => padre[s] \in Emitidas
        BY <1>1, <1>2, <2>2, <3>1
      <3> QED
        BY <1>1, <1>4, <2>2, <3>1, <3>2
    <2> QED
      BY <1>1, <2>1, <2>2 DEF n
  <1>8. TablaCoherente'
    <2>1. ASSUME NEW s \in 1 .. n
          PROVE  familia'[s] \in 1 .. n /\ familia'[familia'[s]] = familia'[s]
      <3>1. CASE s = n /\ p = 0
        BY <1>1, <1>3, <3>1 DEF n
      <3>2. CASE s = n /\ p # 0
        <4>1. p \in Emitidas
          BY <1>1, <3>2
        <4> QED
          BY <1>1, <1>3, <1>4, <1>5, <3>2, <4>1 DEF n
      <3>3. CASE s \in Emitidas
        BY <1>1, <1>4, <1>5, <3>3 DEF n
      <3> QED
        BY <1>1, <3>1, <3>2, <3>3 DEF n
    <2>2. ASSUME NEW s \in Sesiones \ (1 .. n) PROVE ~revocado'[s] /\ ~vencida'[s]
      <3>1. s \notin Emitidas /\ s # p
        BY <1>1, <2>2 DEF n, Sesiones
      <3>2. ~revocado[s] /\ ~vencida[s]
        BY <2>2, <3>1 DEF IInv, TablaCoherente
      <3> QED
        BY <2>2, <3>1, <3>2
    <2>3. \A q \in Solicitudes :
            solicitud'[q].fase = "reuso" => revocado'[solicitud'[q].ses]
      <3> TAKE q \in Solicitudes
      <3> SUFFICES ASSUME solicitud'[q].fase = "reuso"
                   PROVE  revocado'[solicitud'[q].ses]
        OBVIOUS
      <3>1. solicitud'[q] = solicitud[q]
        BY DEF Libre
      <3>2. solicitud[q].ses \in Emitidas
        BY <3>1, FaseAbierta, FilaLeida
      <3>3. revocado[solicitud[q].ses]
        BY <3>1 DEF IInv, TablaCoherente
      <3> QED
        BY <1>1, <3>1, <3>2, <3>3
    <2> QED
      BY <1>1, <2>1, <2>2, <2>3 DEF TablaCoherente
  <1> QED
    BY <1>6, <1>7, <1>8 DEF IInv

LEMMA LoginIInv == ASSUME IInv, Login PROVE IInv'
  <1>1. emitidas \in Nat
    BY DEF IInv, TypeOK
  <1>2. /\ Emitir(emitidas + 1, 0)
        /\ UNCHANGED <<revocado, vencida, activo, solicitud, respuesta, invalidada>>
    BY DEF Login
  <1>3. \A s \in Sesiones : revocado'[s] <=> (revocado[s] \/ s = 0)
    BY <1>2, CotasAssumption DEF IInv, TypeOK, Sesiones
  <1>4. solicitud' \in [Solicitudes ->
            {Libre} \union [fase : {"vigente", "reuso"}, ses : Emitidas']]
    BY <1>1, <1>2 DEF IInv, TypeOK, Emitir, Emitidas
  <1>5. respuesta' \in {0, 200, 401, 500} /\ revocado' \in [Sesiones -> BOOLEAN]
    BY <1>2 DEF IInv, TypeOK
  <1>6. \A q \in Solicitudes : solicitud'[q] \in {Libre, solicitud[q]}
    BY <1>2
  <1>7. emitidas + 1 \in 1 .. emitidas + 1 /\ 0 \in 0 .. emitidas
    BY <1>1
  <1> QED
    BY <1>2, <1>3, <1>4, <1>5, <1>6, <1>7, EmitirIInv

LEMMA ConfirmarRotacionIInv ==
    ASSUME IInv, NEW r \in Solicitudes, ConfirmarRotacion(r) PROVE IInv'
  <1> DEFINE p == solicitud[r].ses
  <1>1. emitidas \in Nat
    BY DEF IInv, TypeOK
  <1>2. /\ revocado' = [revocado EXCEPT ![p] = TRUE]
        /\ Emitir(familia[p], p)
        /\ Responder(r, 200)
        /\ UNCHANGED <<vencida, activo, invalidada>>
    BY DEF ConfirmarRotacion
  <1>3. p \in Emitidas
    BY FaseAbierta, FilaLeida DEF ConfirmarRotacion
  <1> HIDE DEF p
  <1>4. p \in Sesiones /\ p \in 0 .. emitidas /\ p # 0 /\ familia[p] \in 1 .. emitidas + 1
    BY <1>1, <1>3, CotasAssumption DEF IInv, TypeOK, TablaCoherente, Emitidas, Sesiones
  <1>5. /\ revocado' \in [Sesiones -> BOOLEAN]
        /\ revocado'[p]
        /\ \A s \in Sesiones : revocado'[s] <=> (revocado[s] \/ s = p)
    BY <1>2, <1>4 DEF IInv, TypeOK
  <1>6. emitidas' \in Nat /\ emitidas <= emitidas'
    BY <1>1, <1>2 DEF Emitir
  <1>7. /\ solicitud' \in [Solicitudes ->
                {Libre} \union [fase : {"vigente", "reuso"}, ses : Emitidas']]
        /\ respuesta' \in {0, 200, 401, 500}
        /\ \A q \in Solicitudes : solicitud'[q] \in {Libre, solicitud[q]}
    BY <1>2, <1>6, ResponderTipo
  <1> QED
    BY <1>2, <1>4, <1>5, <1>7, EmitirIInv

\* A step that inserts nothing and un-revokes nothing keeps the table's part of
\* the invariant.
LEMMA TablaFijaIInv ==
    ASSUME IInv, TypeOK', UNCHANGED <<emitidas, familia, padre>>,
           \A s \in Emitidas : revocado[s] => revocado'[s],
           \A s \in Sesiones \ Emitidas : ~revocado'[s] /\ ~vencida'[s],
           \A q \in Solicitudes :
                solicitud'[q].fase = "reuso" => revocado'[solicitud'[q].ses]
    PROVE  IInv'
  <1>1. Emitidas' = Emitidas
    BY DEF Emitidas
  <1>2. \A s \in Emitidas : padre[s] # 0 => padre[s] \in Emitidas
    BY CotasAssumption DEF IInv, TypeOK, Descendencia, Emitidas, Sesiones
  <1>3. Descendencia'
    BY <1>1, <1>2 DEF IInv, Descendencia
  <1>4. TablaCoherente'
    BY <1>1 DEF IInv, TablaCoherente
  <1> QED
    BY <1>3, <1>4 DEF IInv

LEMMA RevocarFamiliaTipo ==
    ASSUME IInv, NEW f, RevocarFamilia(f)
    PROVE  /\ revocado' \in [Sesiones -> BOOLEAN]
           /\ invalidada' \in [Sesiones -> BOOLEAN]
  <1>1. revocado' \in [Sesiones -> BOOLEAN]
    BY DEF RevocarFamilia
  <1>2. invalidada' \in [Sesiones -> BOOLEAN]
    <2>1. invalidada' = [invalidada EXCEPT ![f] = TRUE]
      BY DEF RevocarFamilia
    <2>2. invalidada \in [Sesiones -> BOOLEAN]
      BY DEF IInv, TypeOK
    <2>3. ASSUME NEW s \in Sesiones PROVE invalidada'[s] \in BOOLEAN
      BY <2>1, <2>2
    <2>4. DOMAIN invalidada' = Sesiones /\ invalidada' = [s \in Sesiones |-> invalidada'[s]]
      BY <2>1, <2>2
    <2> QED
      BY <2>3, <2>4
  <1> QED
    BY <1>1, <1>2

LEMMA RevocarPorReusoIInv ==
    ASSUME IInv, NEW r \in Solicitudes, RevocarPorReuso(r) PROVE IInv'
  <1>1. /\ RevocarFamilia(familia[solicitud[r].ses])
        /\ Responder(r, 401)
        /\ UNCHANGED <<emitidas, familia, vencida, activo, padre>>
    BY DEF RevocarPorReuso
  <1>2. /\ solicitud' \in [Solicitudes ->
                {Libre} \union [fase : {"vigente", "reuso"}, ses : Emitidas']]
        /\ respuesta' \in {0, 200, 401, 500}
        /\ \A q \in Solicitudes : solicitud'[q] \in {Libre, solicitud[q]}
    BY <1>1, ResponderTipo DEF IInv, TypeOK
  <1>3. TypeOK'
    BY <1>1, <1>2, RevocarFamiliaTipo DEF IInv, TypeOK, Emitidas
  <1>4. \A s \in Sesiones : revocado'[s] <=> (revocado[s] \/ s \in DeFamilia(familia[solicitud[r].ses]))
    BY <1>1 DEF RevocarFamilia
  <1>5. \A q \in Solicitudes : solicitud'[q].fase = "reuso" =>
            solicitud[q] # Libre /\ revocado[solicitud[q].ses] /\ solicitud'[q] = solicitud[q]
    BY <1>2 DEF Libre, IInv, TablaCoherente
  <1>6. Emitidas \subseteq Sesiones
    BY CotasAssumption DEF IInv, TypeOK, Emitidas, Sesiones
  <1>7. \A q \in Solicitudes : solicitud'[q].fase = "reuso" => revocado'[solicitud'[q].ses]
    BY <1>4, <1>5, <1>6, FilaLeida
  <1>8. \A s \in Sesiones \ Emitidas : ~revocado'[s] /\ ~vencida'[s]
    BY <1>1, <1>4 DEF IInv, TablaCoherente, DeFamilia
  <1> QED
    BY <1>1, <1>3, <1>4, <1>6, <1>7, <1>8, TablaFijaIInv

LEMMA CerrarSesionIInv ==
    ASSUME IInv, NEW s \in Emitidas, CerrarSesion(s) PROVE IInv'
  <1>1. /\ RevocarFamilia(familia[s])
        /\ UNCHANGED <<emitidas, familia, vencida, activo, solicitud, respuesta, padre>>
    BY DEF CerrarSesion
  <1>2. TypeOK'
    BY <1>1, RevocarFamiliaTipo DEF IInv, TypeOK, Emitidas
  <1>3. \A t \in Sesiones : revocado'[t] <=> (revocado[t] \/ t \in DeFamilia(familia[s]))
    BY <1>1 DEF RevocarFamilia
  <1>4. Emitidas \subseteq Sesiones
    BY CotasAssumption DEF IInv, TypeOK, Emitidas, Sesiones
  <1>5. \A q \in Solicitudes : solicitud'[q].fase = "reuso" => revocado'[solicitud'[q].ses]
    BY <1>1, <1>3, <1>4, FaseAbierta, FilaLeida DEF IInv, TablaCoherente
  <1>6. \A t \in Sesiones \ Emitidas : ~revocado'[t] /\ ~vencida'[t]
    BY <1>1, <1>3 DEF IInv, TablaCoherente, DeFamilia
  <1> QED
    BY <1>1, <1>2, <1>3, <1>4, <1>5, <1>6, TablaFijaIInv

LEMMA RechazarInactivoIInv ==
    ASSUME IInv, NEW r \in Solicitudes, RechazarInactivo(r) PROVE IInv'
  <1>1. /\ revocado' = [revocado EXCEPT ![solicitud[r].ses] = TRUE]
        /\ Responder(r, 401)
        /\ UNCHANGED <<emitidas, familia, vencida, activo, padre, invalidada>>
    BY DEF RechazarInactivo
  <1>2. /\ solicitud' \in [Solicitudes ->
                {Libre} \union [fase : {"vigente", "reuso"}, ses : Emitidas']]
        /\ respuesta' \in {0, 200, 401, 500}
        /\ \A q \in Solicitudes : solicitud'[q] \in {Libre, solicitud[q]}
    BY <1>1, ResponderTipo DEF IInv, TypeOK
  <1>3. solicitud[r].ses \in Emitidas
    BY FaseAbierta, FilaLeida DEF RechazarInactivo
  <1>4. Emitidas \subseteq Sesiones
    BY CotasAssumption DEF IInv, TypeOK, Emitidas, Sesiones
  <1>5. \A t \in Sesiones : revocado'[t] <=> (revocado[t] \/ t = solicitud[r].ses)
    BY <1>1, <1>3, <1>4 DEF IInv, TypeOK
  <1>6. TypeOK'
    <2>1. revocado' \in [Sesiones -> BOOLEAN]
      BY <1>1 DEF IInv, TypeOK
    <2> QED
      BY <1>1, <1>2, <2>1 DEF IInv, TypeOK
  <1>7. \A q \in Solicitudes : solicitud'[q].fase = "reuso" =>
            solicitud[q] # Libre /\ revocado[solicitud[q].ses] /\ solicitud'[q] = solicitud[q]
    BY <1>2 DEF Libre, IInv, TablaCoherente
  <1>8. \A q \in Solicitudes : solicitud'[q].fase = "reuso" => revocado'[solicitud'[q].ses]
    BY <1>4, <1>5, <1>7, FilaLeida
  <1>9. \A t \in Sesiones \ Emitidas : ~revocado'[t] /\ ~vencida'[t]
    BY <1>1, <1>3, <1>5 DEF IInv, TablaCoherente
  <1> QED
    BY <1>1, <1>4, <1>5, <1>6, <1>8, <1>9, TablaFijaIInv

\* A request reads an inserted row, and takes it for reused only if it is revoked.
LEMMA LeerSesionIInv ==
    ASSUME IInv, NEW r \in Solicitudes, NEW s \in Emitidas, LeerSesion(r, s) PROVE IInv'
  <1> DEFINE lectura == [fase |-> IF revocado[s] THEN "reuso" ELSE "vigente", ses |-> s]
  <1>1. /\ solicitud' = [solicitud EXCEPT ![r] = lectura]
        /\ UNCHANGED <<tabla, activo, respuesta, invalidada>>
    BY DEF LeerSesion
  <1>2. /\ lectura \in [fase : {"vigente", "reuso"}, ses : Emitidas]
        /\ lectura.fase = "reuso" => revocado[lectura.ses]
    OBVIOUS
  <1> HIDE DEF lectura
  <1>3. TypeOK'
    BY <1>1, <1>2 DEF IInv, TypeOK, tabla, Emitidas
  <1>4. \A q \in Solicitudes : solicitud'[q].fase = "reuso" => revocado'[solicitud'[q].ses]
    BY <1>1, <1>2 DEF IInv, TypeOK, TablaCoherente, tabla
  <1> QED
    BY <1>1, <1>3, <1>4, TablaFijaIInv DEF IInv, TablaCoherente, tabla

\* The other steps only release a request, answer it, or let time pass.
LEMMA OtrosIInv ==
    ASSUME IInv,
           \/ DesactivarUsuario
           \/ \E s \in Emitidas : Vencer(s)
           \/ \E r \in Solicitudes :
                \/ \E s \in Emitidas : FallarPorVencida(r, s)
                \/ RechazarToken(r)
                \/ Abandonar(r)
           \/ UNCHANGED vars
    PROVE  IInv'
  <1>1. UNCHANGED <<emitidas, familia, revocado, padre, invalidada>>
    BY DEF DesactivarUsuario, Vencer, FallarPorVencida, RechazarToken,
           Abandonar, Responder, vars, tabla
  <1>6. activo' = activo \/ activo' = FALSE
    BY DEF DesactivarUsuario, Vencer, FallarPorVencida, RechazarToken,
           Abandonar, Responder, vars, tabla
  <1>7. respuesta' \in {respuesta, 401, 500}
    BY DEF DesactivarUsuario, Vencer, FallarPorVencida, RechazarToken,
           Abandonar, Responder, vars, tabla
  <1>8. activo' \in BOOLEAN
    BY <1>6, Zenon DEF IInv, TypeOK
  <1>9. respuesta' \in {0, 200, 401, 500}
    BY <1>7 DEF IInv, TypeOK
  <1>2. /\ solicitud' \in [Solicitudes ->
                {Libre} \union [fase : {"vigente", "reuso"}, ses : Emitidas]]
        /\ \A q \in Solicitudes : solicitud'[q] \in {Libre, solicitud[q]}
    BY DEF IInv, TypeOK, DesactivarUsuario, Vencer, FallarPorVencida, RechazarToken,
           Abandonar, Responder, vars, tabla
  <1>3. /\ vencida' \in [Sesiones -> BOOLEAN]
        /\ \A s \in Sesiones \ Emitidas : ~vencida'[s]
    <2>1. vencida' = vencida \/ \E s \in Emitidas : vencida' = [vencida EXCEPT ![s] = TRUE]
      BY DEF DesactivarUsuario, Vencer, FallarPorVencida, RechazarToken, Abandonar, vars, tabla
    <2>2. CASE vencida' = vencida
      BY <2>2 DEF IInv, TypeOK, TablaCoherente
    <2>3. ASSUME NEW s \in Emitidas, vencida' = [vencida EXCEPT ![s] = TRUE]
          PROVE  /\ vencida' \in [Sesiones -> BOOLEAN]
                 /\ \A t \in Sesiones \ Emitidas : ~vencida'[t]
      <3>1. vencida \in [Sesiones -> BOOLEAN] /\ \A t \in Sesiones \ Emitidas : ~vencida[t]
        BY DEF IInv, TypeOK, TablaCoherente
      <3>2. vencida' \in [Sesiones -> BOOLEAN]
        BY <2>3, <3>1
      <3>3. ASSUME NEW t \in Sesiones \ Emitidas PROVE ~vencida'[t]
        <4>1. vencida'[t] = vencida[t]
          BY <2>3, <3>1
        <4> QED
          BY <3>1, <4>1
      <3> QED
        BY <3>2, <3>3
    <2> QED
      BY <2>1, <2>2, <2>3
  <1>4. TypeOK'
    BY <1>1, <1>2, <1>3, <1>8, <1>9 DEF IInv, TypeOK, Emitidas
  <1>5. \A q \in Solicitudes : solicitud'[q].fase = "reuso" => revocado'[solicitud'[q].ses]
    BY <1>1, <1>2 DEF IInv, TablaCoherente, Libre
  <1> QED
    BY <1>1, <1>3, <1>4, <1>5, TablaFijaIInv DEF IInv, TablaCoherente

LEMMA NextIInv == IInv /\ [Next]_vars => IInv'
  BY LoginIInv, ConfirmarRotacionIInv, RevocarPorReusoIInv, CerrarSesionIInv,
     RechazarInactivoIInv, LeerSesionIInv, OtrosIInv DEF Next

-----------------------------------------------------------------------------
\* IInv holds in every reachable state.
THEOREM Invariante == Spec => []IInv
  BY InitIInv, NextIInv, PTL DEF Spec

\* Rows, requests and histories keep their types.
THEOREM TipoCorrecto == Spec => []TypeOK
  <1>1. IInv => TypeOK
    BY DEF IInv
  <1> QED
    BY <1>1, Invariante, PTL

\* A step that inserts no row of the family, un-revokes none of its rows and
\* starts no rotation of one keeps the family dead.
LEMMA SigueMuerta ==
    ASSUME IInv, NEW f \in Emitidas, Muerta(f),
           \A s \in Emitidas' : s \in Emitidas \/ familia'[s] # f,
           \A s \in Emitidas : familia'[s] = familia[s] /\ (revocado[s] => revocado'[s]),
           \A r \in Solicitudes : solicitud'[r].fase = "vigente" =>
                \/ solicitud'[r] = solicitud[r]
                \/ solicitud'[r].ses \in Emitidas /\ ~revocado[solicitud'[r].ses]
    PROVE  Muerta(f)'
  <1>1. \A s \in DeFamilia(f)' : revocado'[s]
    BY DEF Muerta, DeFamilia
  <1>2. ASSUME NEW r \in Solicitudes, solicitud'[r].fase = "vigente"
        PROVE  familia'[solicitud'[r].ses] # f
    <2>1. CASE solicitud'[r] = solicitud[r]
      <3>1. solicitud[r].ses \in Emitidas
        BY <1>2, <2>1, FaseAbierta, FilaLeida
      <3> QED
        BY <1>2, <2>1, <3>1 DEF Muerta
    <2>2. CASE solicitud'[r].ses \in Emitidas /\ ~revocado[solicitud'[r].ses]
      BY <2>2 DEF Muerta, DeFamilia
    <2> QED
      BY <1>2, <2>1, <2>2
  <1> QED
    BY <1>1, <1>2 DEF Muerta

\* A dead family stays dead: no token of it brings a session back.
LEMMA PasoMuerta ==
    ASSUME IInv, [Next]_vars, NEW f \in Emitidas, familia[f] = f, Muerta(f)
    PROVE  Muerta(f)'
  <1>0. /\ emitidas \in Nat
        /\ Emitidas = 1 .. emitidas
        /\ Emitidas \subseteq Sesiones
        /\ familia \in [Sesiones -> 0 .. MaxSesiones]
        /\ revocado \in [Sesiones -> BOOLEAN]
        /\ DOMAIN solicitud = Solicitudes
    BY CotasAssumption DEF IInv, TypeOK, Emitidas, Sesiones
  <1>1. CASE Login
    <2>1. /\ emitidas' = emitidas + 1
          /\ familia' = [familia EXCEPT ![emitidas + 1] = emitidas + 1]
          /\ UNCHANGED <<revocado, solicitud>>
      BY <1>1 DEF Login, Emitir
    <2>2. Emitidas' = 1 .. emitidas + 1
      BY <2>1 DEF Emitidas
    <2>3. emitidas + 1 \in Sesiones
      BY <1>0, <1>1, CotasAssumption DEF Login, Emitir, Sesiones
    <2>4. \A s \in Emitidas' : s \in Emitidas \/ familia'[s] # f
      BY <1>0, <2>1, <2>2, <2>3
    <2>5. \A s \in Emitidas : familia'[s] = familia[s] /\ (revocado[s] => revocado'[s])
      BY <1>0, <2>1
    <2> QED
      BY <2>1, <2>4, <2>5, SigueMuerta
  <1>2. ASSUME NEW r \in Solicitudes, ConfirmarRotacion(r) PROVE Muerta(f)'
    <2> DEFINE p == solicitud[r].ses
    <2>1. /\ solicitud[r].fase = "vigente"
          /\ revocado' = [revocado EXCEPT ![p] = TRUE]
          /\ emitidas < MaxSesiones
          /\ emitidas' = emitidas + 1
          /\ familia' = [familia EXCEPT ![emitidas + 1] = familia[p]]
          /\ solicitud' = [solicitud EXCEPT ![r] = Libre]
      BY <1>2 DEF ConfirmarRotacion, Emitir, Responder
    <2>2. familia[p] # f
      BY <2>1 DEF Muerta
    <2> HIDE DEF p
    <2>3. Emitidas' = 1 .. emitidas + 1 /\ emitidas + 1 \in Sesiones
      BY <1>0, <2>1, CotasAssumption DEF Emitidas, Sesiones
    <2>4. \A s \in Emitidas' : s \in Emitidas \/ familia'[s] # f
      BY <1>0, <2>1, <2>2, <2>3
    <2>5. \A s \in Emitidas : familia'[s] = familia[s] /\ (revocado[s] => revocado'[s])
      BY <1>0, <2>1
    <2>6. \A q \in Solicitudes : solicitud'[q].fase = "vigente" => solicitud'[q] = solicitud[q]
      BY <1>0, <2>1 DEF Libre
    <2> QED
      BY <2>4, <2>5, <2>6, SigueMuerta
  <1>3. ASSUME UNCHANGED <<emitidas, familia>>,
               \A s \in Emitidas : revocado[s] => revocado'[s],
               \A r \in Solicitudes : solicitud'[r].fase = "vigente" =>
                    \/ solicitud'[r] = solicitud[r]
                    \/ solicitud'[r].ses \in Emitidas /\ ~revocado[solicitud'[r].ses]
        PROVE  Muerta(f)'
    BY <1>3, SigueMuerta DEF Emitidas
  <1>4. ASSUME NEW r \in Solicitudes,
               RevocarPorReuso(r) \/ RechazarInactivo(r) \/ RechazarToken(r) \/ Abandonar(r)
        PROVE  Muerta(f)'
    <2>1. UNCHANGED <<emitidas, familia>> /\ solicitud' = [solicitud EXCEPT ![r] = Libre]
      BY <1>4 DEF RevocarPorReuso, RechazarInactivo, RechazarToken, Abandonar, Responder, tabla
    <2>2. \A q \in Solicitudes : solicitud'[q].fase = "vigente" => solicitud'[q] = solicitud[q]
      BY <1>0, <2>1 DEF Libre
    <2>3. \A s \in Emitidas : revocado[s] => revocado'[s]
      BY <1>0, <1>4 DEF RevocarPorReuso, RechazarInactivo, RechazarToken, Abandonar,
                       RevocarFamilia, tabla
    <2> QED
      BY <1>3, <2>1, <2>2, <2>3
  <1>5. ASSUME NEW r \in Solicitudes, NEW s \in Emitidas,
               LeerSesion(r, s) \/ FallarPorVencida(r, s)
        PROVE  Muerta(f)'
    <2>1. CASE LeerSesion(r, s)
      <3>1. UNCHANGED <<emitidas, familia, revocado>>
        BY <2>1 DEF LeerSesion, tabla
      <3>2. \A q \in Solicitudes : solicitud'[q].fase = "vigente" =>
                \/ solicitud'[q] = solicitud[q]
                \/ solicitud'[q].ses \in Emitidas /\ ~revocado[solicitud'[q].ses]
        BY <1>0, <2>1 DEF LeerSesion
      <3> QED
        BY <1>3, <3>1, <3>2
    <2>2. CASE FallarPorVencida(r, s)
      <3>1. UNCHANGED <<emitidas, familia, revocado>>
            /\ solicitud' = [solicitud EXCEPT ![r] = Libre]
        BY <2>2 DEF FallarPorVencida, Responder, tabla
      <3>2. \A q \in Solicitudes : solicitud'[q].fase = "vigente" => solicitud'[q] = solicitud[q]
        BY <1>0, <3>1 DEF Libre
      <3> QED
        BY <1>3, <3>1, <3>2
    <2> QED
      BY <1>5, <2>1, <2>2
  <1>6. ASSUME NEW s \in Emitidas, CerrarSesion(s) \/ Vencer(s) PROVE Muerta(f)'
    <2>1. UNCHANGED <<emitidas, familia, solicitud>>
      BY <1>6 DEF CerrarSesion, Vencer
    <2>2. \A t \in Emitidas : revocado[t] => revocado'[t]
      BY <1>0, <1>6 DEF CerrarSesion, Vencer, RevocarFamilia
    <2> QED
      BY <1>3, <2>1, <2>2
  <1>7. CASE DesactivarUsuario \/ UNCHANGED vars
    <2>1. UNCHANGED <<emitidas, familia, revocado, solicitud>>
      BY <1>7 DEF DesactivarUsuario, vars, tabla
    <2> QED
      BY <1>3, <2>1
  <1> QED
    BY <1>1, <1>2, <1>4, <1>5, <1>6, <1>7 DEF Next

\* No token of a family whose rows are all revoked, and that no open request has
\* read as usable, ever brings a session back.
THEOREM FamiliaMuertaSegura == Spec => FamiliaMuertaNoRevive
  <1>1. IInv /\ [Next]_vars =>
          [\A f \in Emitidas : familia[f] = f /\ Muerta(f) => Muerta(f)']_vars
    BY PasoMuerta
  <1> QED
    BY <1>1, Invariante, PTL DEF Spec, FamiliaMuertaNoRevive

-----------------------------------------------------------------------------
(* How many successors a token can have.                                    *)

\* The open requests that have read s while it was usable.
Lectoras(s) == {r \in Solicitudes : solicitud[r].fase = "vigente" /\ solicitud[r].ses = s}

\* A request that can still insert a successor of s counts as one.
Cupo(s) ==
    Cardinality(Sucesoras(s)) + Cardinality(Lectoras(s)) <= Cardinality(Solicitudes)

InvSucesion == IInv /\ \A s \in Emitidas : Cupo(s)

LEMMA LectorasFinitas ==
    ASSUME NEW S \in SUBSET Solicitudes
    PROVE  /\ IsFiniteSet(S) /\ Cardinality(S) \in Nat
           /\ Cardinality(S) <= Cardinality(Solicitudes)
           /\ Cardinality(Solicitudes) \in Nat
  BY FS_Subset, FS_CardinalityType, CotasAssumption

LEMMA SucesorasFinitas ==
    ASSUME IInv, NEW s
    PROVE  IsFiniteSet(Sucesoras(s)) /\ Cardinality(Sucesoras(s)) \in Nat
  <1>1. IsFiniteSet(Emitidas)
    BY FS_Interval, CotasAssumption DEF IInv, TypeOK, Emitidas
  <1>2. IsFiniteSet(Sucesoras(s))
    BY <1>1, FS_Subset DEF Sucesoras
  <1> QED
    BY <1>2, FS_CardinalityType

\* A token that is not revoked has no successor.
LEMMA SucesorasDeVigente ==
    ASSUME IInv, NEW s \in Emitidas, ~revocado[s] PROVE Sucesoras(s) = {}
  <1>1. s # 0
    BY CotasAssumption DEF IInv, TypeOK, Emitidas
  <1> QED
    BY <1>1 DEF IInv, Descendencia, Sucesoras

\* Before the first successor there is room for every request.
LEMMA CupoSinSucesoras == ASSUME NEW s, Sucesoras(s)' = {} PROVE Cupo(s)'
  <1>1. Cardinality(Sucesoras(s)') = 0
    BY FS_EmptySet
  <1>2. Lectoras(s)' \subseteq Solicitudes
    BY DEF Lectoras
  <1> QED
    BY <1>1, <1>2, LectorasFinitas DEF Cupo

\* Requests that end without a successor leave room.
LEMMA CupoMenosLectoras ==
    ASSUME IInv, NEW s, Cupo(s), Sucesoras(s)' = Sucesoras(s),
           Lectoras(s)' \subseteq Lectoras(s)
    PROVE  Cupo(s)'
  <1>1. Lectoras(s) \subseteq Solicitudes
    BY DEF Lectoras
  <1>2. Cardinality(Lectoras(s)') <= Cardinality(Lectoras(s))
    BY <1>1, LectorasFinitas, FS_Subset
  <1>3. Cardinality(Lectoras(s)') \in Nat /\ Cardinality(Lectoras(s)) \in Nat
    BY <1>1, LectorasFinitas
  <1> QED
    BY <1>2, <1>3, SucesorasFinitas, LectorasFinitas DEF Cupo

\* A request that inserts a successor is not going to insert another.
LEMMA CupoOtraSucesora ==
    ASSUME IInv, NEW s, Cupo(s), NEW r \in Lectoras(s), NEW n,
           Sucesoras(s)' = Sucesoras(s) \union {n}, Lectoras(s)' = Lectoras(s) \ {r}
    PROVE  Cupo(s)'
  <1>1. Lectoras(s) \subseteq Solicitudes
    BY DEF Lectoras
  <1>2. Cardinality(Lectoras(s)) \in Nat /\ IsFiniteSet(Lectoras(s))
    BY <1>1, LectorasFinitas
  <1>3. Cardinality(Lectoras(s) \ {r}) = Cardinality(Lectoras(s)) - 1
    BY <1>2, FS_RemoveElement
  <1>4. Cardinality(Sucesoras(s) \union {n})
            \in {Cardinality(Sucesoras(s)), Cardinality(Sucesoras(s)) + 1}
    BY SucesorasFinitas, FS_AddElement
  <1>5. Cardinality(Sucesoras(s)) \in Nat /\ Cardinality(Solicitudes) \in Nat
    BY SucesorasFinitas, LectorasFinitas
  <1> QED
    BY <1>2, <1>3, <1>4, <1>5 DEF Cupo

\* A row just inserted has no successor.
LEMMA SucesorasDeNueva ==
    ASSUME IInv', NEW s, s = emitidas', s \in Nat
    PROVE  Sucesoras(s)' = {}
  <1>1. ASSUME NEW t \in Emitidas', padre'[t] = s PROVE FALSE
    BY <1>1 DEF IInv, Descendencia, Emitidas
  <1> QED
    BY <1>1 DEF Sucesoras

LEMMA CupoLeerSesion ==
    ASSUME InvSucesion, NEW r \in Solicitudes, NEW x \in Emitidas, LeerSesion(r, x),
           NEW s \in Emitidas
    PROVE  Cupo(s)'
  <1>1. /\ Sucesoras(s)' = Sucesoras(s)
        /\ solicitud[r] = Libre
        /\ solicitud' = [solicitud EXCEPT ![r] =
                [fase |-> IF revocado[x] THEN "reuso" ELSE "vigente", ses |-> x]]
        /\ DOMAIN solicitud = Solicitudes
    BY DEF LeerSesion, Sucesoras, Emitidas, tabla, InvSucesion, IInv, TypeOK
  <1>2. CASE s = x /\ ~revocado[x]
    BY <1>1, <1>2, SucesorasDeVigente, CupoSinSucesoras DEF InvSucesion
  <1>3. CASE s # x \/ revocado[x]
    <2>1. Lectoras(s)' \subseteq Lectoras(s)
      BY <1>1, <1>3 DEF Lectoras
    <2> QED
      BY <1>1, <2>1, CupoMenosLectoras DEF InvSucesion
  <1> QED
    BY <1>2, <1>3

LEMMA CupoLogin ==
    ASSUME InvSucesion, Login, IInv', NEW s \in Emitidas' PROVE Cupo(s)'
  <1>1. /\ emitidas \in Nat /\ emitidas' = emitidas + 1
        /\ emitidas + 1 \in Sesiones
        /\ padre' = [padre EXCEPT ![emitidas + 1] = 0]
        /\ padre \in [Sesiones -> 0 .. MaxSesiones]
        /\ solicitud' = solicitud
        /\ Emitidas \subseteq Sesiones
    BY CotasAssumption DEF Login, Emitir, InvSucesion, IInv, TypeOK, Sesiones, Emitidas
  <1>2. CASE s = emitidas + 1
    BY <1>1, <1>2, SucesorasDeNueva, CupoSinSucesoras
  <1>3. CASE s \in Emitidas
    <2>1. Sucesoras(s)' = Sucesoras(s)
      BY <1>1, <1>3 DEF Sucesoras, Emitidas
    <2>2. Lectoras(s)' = Lectoras(s)
      BY <1>1 DEF Lectoras
    <2> QED
      BY <1>3, <2>1, <2>2, CupoMenosLectoras DEF InvSucesion
  <1> QED
    BY <1>1, <1>2, <1>3 DEF Emitidas

LEMMA CupoConfirmarRotacion ==
    ASSUME InvSucesion, NEW r \in Solicitudes, ConfirmarRotacion(r), IInv',
           NEW s \in Emitidas'
    PROVE  Cupo(s)'
  <1>1. /\ emitidas \in Nat /\ emitidas' = emitidas + 1
        /\ emitidas + 1 \in Sesiones
        /\ padre' = [padre EXCEPT ![emitidas + 1] = solicitud[r].ses]
        /\ padre \in [Sesiones -> 0 .. MaxSesiones]
        /\ solicitud[r].fase = "vigente"
        /\ solicitud' = [solicitud EXCEPT ![r] = Libre]
        /\ DOMAIN solicitud = Solicitudes
        /\ Emitidas \subseteq Sesiones
    BY CotasAssumption DEF ConfirmarRotacion, Emitir, Responder, InvSucesion, IInv, TypeOK,
                           Sesiones, Emitidas
  <1>2. CASE s = emitidas + 1
    BY <1>1, <1>2, SucesorasDeNueva, CupoSinSucesoras
  <1>3. CASE s \in Emitidas /\ s = solicitud[r].ses
    <2>1. Sucesoras(s)' = Sucesoras(s) \union {emitidas + 1}
      BY <1>1, <1>3 DEF Sucesoras, Emitidas
    <2>2. r \in Lectoras(s) /\ Lectoras(s)' = Lectoras(s) \ {r}
      BY <1>1, <1>3 DEF Lectoras, Libre
    <2> QED
      BY <1>3, <2>1, <2>2, CupoOtraSucesora DEF InvSucesion
  <1>4. CASE s \in Emitidas /\ s # solicitud[r].ses
    <2>1. Sucesoras(s)' = Sucesoras(s)
      BY <1>1, <1>4 DEF Sucesoras, Emitidas
    <2>2. Lectoras(s)' = Lectoras(s)
      BY <1>1, <1>4 DEF Lectoras, Libre
    <2> QED
      BY <1>4, <2>1, <2>2, CupoMenosLectoras DEF InvSucesion
  <1> QED
    BY <1>1, <1>2, <1>3, <1>4 DEF Emitidas

\* Every other step inserts no row and makes no request read a usable one.
LEMMA CupoOtros ==
    ASSUME InvSucesion, UNCHANGED <<emitidas, padre>>, NEW s \in Emitidas,
           \A q \in Solicitudes : solicitud'[q] \in {Libre, solicitud[q]}
    PROVE  Cupo(s)'
  <1>1. Sucesoras(s)' = Sucesoras(s)
    BY DEF Sucesoras, Emitidas
  <1>2. Lectoras(s)' \subseteq Lectoras(s)
    BY DEF Lectoras, Libre
  <1> QED
    BY <1>1, <1>2, CupoMenosLectoras DEF InvSucesion

LEMMA PasoSucesion ==
    ASSUME InvSucesion, [Next]_vars PROVE InvSucesion'
  <1>1. IInv'
    BY NextIInv DEF InvSucesion
  <1>2. ASSUME NEW s \in Emitidas' PROVE Cupo(s)'
    <2>1. CASE Login
      BY <1>1, <2>1, CupoLogin
    <2>2. ASSUME NEW r \in Solicitudes, ConfirmarRotacion(r) PROVE Cupo(s)'
      BY <1>1, <2>2, CupoConfirmarRotacion
    <2>3. ASSUME NEW r \in Solicitudes, NEW x \in Emitidas, LeerSesion(r, x)
          PROVE  Cupo(s)'
      <3>1. s \in Emitidas
        BY <2>3 DEF LeerSesion, tabla, Emitidas
      <3> QED
        BY <2>3, <3>1, CupoLeerSesion
    <2>4. ASSUME UNCHANGED <<emitidas, padre>>,
                 \A q \in Solicitudes : solicitud'[q] \in {Libre, solicitud[q]}
          PROVE  Cupo(s)'
      BY <2>4, CupoOtros DEF Emitidas
    <2>5. ASSUME NEW r \in Solicitudes,
                 \/ RevocarPorReuso(r) \/ RechazarInactivo(r) \/ RechazarToken(r)
                 \/ Abandonar(r) \/ \E x \in Emitidas : FallarPorVencida(r, x)
          PROVE  Cupo(s)'
      <3>1. UNCHANGED <<emitidas, padre>> /\ solicitud' = [solicitud EXCEPT ![r] = Libre]
        BY <2>5 DEF RevocarPorReuso, RechazarInactivo, RechazarToken, Abandonar,
                    FallarPorVencida, Responder, tabla
      <3> QED
        BY <2>4, <3>1 DEF InvSucesion, IInv, TypeOK
    <2>6. CASE UNCHANGED <<emitidas, padre, solicitud>>
      BY <2>4, <2>6
    <2> QED
      BY <2>1, <2>2, <2>3, <2>5, <2>6
      DEF Next, vars, tabla, DesactivarUsuario, CerrarSesion, Vencer
  <1> QED
    BY <1>1, <1>2 DEF InvSucesion

\* The row a session descends from is revoked, older, and of its family; and no row has
\* more successors than requests can be open at a time.
THEOREM SucesionSegura == Spec => []SucesionCoherente
  <1>1. Init => InvSucesion
    <2> SUFFICES ASSUME Init PROVE InvSucesion
      OBVIOUS
    <2>1. Emitidas = {}
      BY DEF Init, Emitidas
    <2> QED
      BY <2>1, InitIInv DEF InvSucesion
  <1>2. InvSucesion => SucesionCoherente
    <2> SUFFICES ASSUME InvSucesion, NEW s \in Emitidas
                 PROVE  Cardinality(Sucesoras(s)) <= Cardinality(Solicitudes)
      BY DEF InvSucesion, IInv, SucesionCoherente, SucesoresAcotados
    <2>1. /\ Cardinality(Sucesoras(s)) \in Nat
          /\ Cardinality(Lectoras(s)) \in Nat /\ Cardinality(Solicitudes) \in Nat
      <3>1. Lectoras(s) \subseteq Solicitudes
        BY DEF Lectoras
      <3> QED
        BY <3>1, SucesorasFinitas, LectorasFinitas DEF InvSucesion
    <2> QED
      BY <2>1 DEF InvSucesion, Cupo
  <1>3. InvSucesion /\ [Next]_vars => InvSucesion'
    BY PasoSucesion
  <1> QED
    BY <1>1, <1>2, <1>3, PTL DEF Spec

-----------------------------------------------------------------------------
\* A logout with a token of family f, or the detection of a reuse in it.
Cierra(f) ==
    \/ \E s \in Emitidas : familia[s] = f /\ CerrarSesion(s)
    \/ \E r \in Solicitudes : familia[solicitud[r].ses] = f /\ RevocarPorReuso(r)

\* No open request has read a row of f as usable.
SinRotaciones(f) ==
    \A r \in Solicitudes :
        solicitud[r].fase = "vigente" => familia[solicitud[r].ses] # f

\* Only a rotation in progress survives a logout or the detection of a reuse: with none
\* open they leave the family dead, and so it stays (FamiliaMuertaSegura).
THEOREM CierreFinal ==
    Spec => [][\A f \in Emitidas : Cierra(f) /\ SinRotaciones(f) => Muerta(f)']_vars
  <1>1. ASSUME IInv, NEW f \in Emitidas, Cierra(f), SinRotaciones(f)
        PROVE  Muerta(f)'
    <2>1. /\ RevocarFamilia(f) /\ UNCHANGED <<emitidas, familia>>
          /\ \A r \in Solicitudes : solicitud'[r] \in {solicitud[r], Libre}
      <3>1. ASSUME NEW s \in Emitidas, familia[s] = f, CerrarSesion(s)
            PROVE  RevocarFamilia(f) /\ UNCHANGED <<emitidas, familia, solicitud>>
        BY <3>1 DEF CerrarSesion
      <3>2. ASSUME NEW r \in Solicitudes, familia[solicitud[r].ses] = f, RevocarPorReuso(r)
            PROVE  /\ RevocarFamilia(f) /\ UNCHANGED <<emitidas, familia>>
                   /\ solicitud' = [solicitud EXCEPT ![r] = Libre]
        BY <3>2 DEF RevocarPorReuso, Responder
      <3>3. DOMAIN solicitud = Solicitudes
        BY <1>1 DEF IInv, TypeOK
      <3> QED
        BY <1>1, <3>1, <3>2, <3>3 DEF Cierra
    <2>2. DeFamilia(f)' = DeFamilia(f) /\ DeFamilia(f) \subseteq Sesiones
      BY <1>1, <2>1, CotasAssumption DEF DeFamilia, Emitidas, Sesiones, IInv, TypeOK
    <2>3. \A s \in DeFamilia(f)' : revocado'[s]
      BY <2>1, <2>2 DEF RevocarFamilia
    <2>4. Libre.fase # "vigente"
      BY DEF Libre
    <2>5. \A r \in Solicitudes :
              solicitud'[r].fase = "vigente" => familia'[solicitud'[r].ses] # f
      BY <1>1, <2>1, <2>4 DEF SinRotaciones
    <2> QED
      BY <2>3, <2>5 DEF Muerta
  <1>2. IInv /\ [Next]_vars =>
          [\A f \in Emitidas : Cierra(f) /\ SinRotaciones(f) => Muerta(f)']_vars
    BY <1>1
  <1> QED
    BY <1>2, Invariante, PTL DEF Spec
=============================================================================

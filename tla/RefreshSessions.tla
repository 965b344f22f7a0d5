-------------------------- MODULE RefreshSessions ---------------------------
(***************************************************************************)
(* Sessions of the API: the table `sesiones_auth`, written by login,       *)
(* POST /auth/refresh and POST /auth/logout.  A refresh token is a signed  *)
(* JWT that names its row (jti) and its family (fid); a rotation revokes   *)
(* the row and inserts another of the same family.                         *)
(*                                                                         *)
(* A request reads its row without locking it and commits later, so two    *)
(* requests, possibly in two API processes, interleave between them.       *)
(***************************************************************************)
EXTENDS Naturals, FiniteSets

CONSTANTS
    Solicitudes,   \* refresh requests that can be open at a time
    MaxLogins,     \* bound: families that the model opens
    MaxSesiones    \* bound: rows that the model inserts

ASSUME CotasAssumption ==
    MaxLogins \in Nat /\ MaxSesiones \in Nat /\ IsFiniteSet(Solicitudes)

VARIABLES
    emitidas,    \* rows inserted so far, numbered 1 .. emitidas
    familia,     \* family_id: the number of the family's first row
    revocado,    \* revocado
    vencida,     \* the token's exp, and expira_en, lie in the past
    activo,      \* usuarios.activo of the account
    solicitud,   \* what an open refresh request has read
    respuesta,   \* status code of the last answer to a refresh, 0 before the first
    padre,       \* history: the row whose rotation inserted this one, 0 for a login
    invalidada   \* history: families invalidated as a whole, by a reuse or a logout

tabla == <<emitidas, familia, revocado, vencida, padre>>
vars == <<tabla, activo, solicitud, respuesta, invalidada>>

Sesiones == 1 .. MaxSesiones
Emitidas == 1 .. emitidas

Libre == [fase |-> "libre", ses |-> 0]

Init ==
    /\ emitidas = 0
    /\ familia = [s \in Sesiones |-> 0]
    /\ revocado = [s \in Sesiones |-> FALSE]
    /\ vencida = [s \in Sesiones |-> FALSE]
    /\ activo = TRUE
    /\ solicitud = [r \in Solicitudes |-> Libre]
    /\ respuesta = 0
    /\ padre = [s \in Sesiones |-> 0]
    /\ invalidada = [s \in Sesiones |-> FALSE]

DeFamilia(f) == {s \in Emitidas : familia[s] = f}

\* UPDATE sesiones_auth SET revocado = TRUE WHERE family_id = :f
RevocarFamilia(f) ==
    /\ revocado' = [s \in Sesiones |-> revocado[s] \/ s \in DeFamilia(f)]
    /\ invalidada' = [invalidada EXCEPT ![f] = TRUE]

\* emitir_sesion: INSERT of a row of family f.
Emitir(f, p) ==
    /\ emitidas < MaxSesiones
    /\ emitidas' = emitidas + 1
    /\ familia' = [familia EXCEPT ![emitidas + 1] = f]
    /\ padre' = [padre EXCEPT ![emitidas + 1] = p]

Responder(r, codigo) ==
    /\ solicitud' = [solicitud EXCEPT ![r] = Libre]
    /\ respuesta' = codigo

-----------------------------------------------------------------------------
\* POST /auth/login with valid credentials opens a new family.
Login ==
    /\ activo
    /\ Cardinality({s \in Emitidas : padre[s] = 0}) < MaxLogins
    /\ Emitir(emitidas + 1, 0)
    /\ UNCHANGED <<revocado, vencida, activo, solicitud, respuesta, invalidada>>

\* Mutant: the row's revocado is not looked at.
LeerSesion_SinRevocado(r, s) ==
    /\ solicitud[r] = Libre
    /\ ~vencida[s]
    /\ solicitud' = [solicitud EXCEPT ![r] = [fase |-> "vigente", ses |-> s]]
    /\ UNCHANGED <<tabla, activo, respuesta, invalidada>>

\* rotar_sesion: SELECT by jti, without FOR UPDATE.
LeerSesion(r, s) ==
    /\ solicitud[r] = Libre
    /\ ~vencida[s]
    /\ solicitud' = [solicitud EXCEPT ![r] =
            [fase |-> IF revocado[s] THEN "reuso" ELSE "vigente", ses |-> s]]
    /\ UNCHANGED <<tabla, activo, respuesta, invalidada>>

\* A revoked token was presented: the family is revoked and the answer is 401.
RevocarPorReuso(r) ==
    LET f == familia[solicitud[r].ses]
    IN  /\ solicitud[r].fase = "reuso"
        /\ RevocarFamilia(f)
        /\ Responder(r, 401)
        /\ UNCHANGED <<emitidas, familia, vencida, activo, padre>>

\* Mutants of the rotation: the row read is not revoked; the new row opens a
\* family of its own.
ConfirmarRotacion_SinRevocar(r) ==
    LET s == solicitud[r].ses
    IN  /\ solicitud[r].fase = "vigente"
        /\ activo
        /\ Emitir(familia[s], s)
        /\ Responder(r, 200)
        /\ UNCHANGED <<revocado, vencida, activo, invalidada>>
ConfirmarRotacion_FamiliaNueva(r) ==
    LET s == solicitud[r].ses
    IN  /\ solicitud[r].fase = "vigente"
        /\ activo
        /\ revocado' = [revocado EXCEPT ![s] = TRUE]
        /\ Emitir(emitidas + 1, s)
        /\ Responder(r, 200)
        /\ UNCHANGED <<vencida, activo, invalidada>>

\* The row read is revoked and its successor inserted, in one commit.
ConfirmarRotacion(r) ==
    LET s == solicitud[r].ses
    IN  /\ solicitud[r].fase = "vigente"
        /\ activo
        /\ revocado' = [revocado EXCEPT ![s] = TRUE]
        /\ Emitir(familia[s], s)
        /\ Responder(r, 200)
        /\ UNCHANGED <<vencida, activo, invalidada>>

\* Mutant: the refusal tells an inactive account from an invalid session.
RechazarInactivo_Prohibido(r) ==
    /\ solicitud[r].fase = "vigente"
    /\ ~activo
    /\ revocado' = [revocado EXCEPT ![solicitud[r].ses] = TRUE]
    /\ Responder(r, 403)
    /\ UNCHANGED <<emitidas, familia, vencida, activo, padre, invalidada>>

\* The account is not active: the row is revoked, the answer is 401.
RechazarInactivo(r) ==
    /\ solicitud[r].fase = "vigente"
    /\ ~activo
    /\ revocado' = [revocado EXCEPT ![solicitud[r].ses] = TRUE]
    /\ Responder(r, 401)
    /\ UNCHANGED <<emitidas, familia, vencida, activo, padre, invalidada>>

\* Not a refresh token, or one without a row: 401.
RechazarToken(r) ==
    /\ solicitud[r] = Libre
    /\ Responder(r, 401)
    /\ UNCHANGED <<tabla, activo, invalidada>>

\* decode_token raises jwt.ExpiredSignatureError, which nothing catches.
FallarPorVencida(r, s) ==
    /\ solicitud[r] = Libre
    /\ vencida[s]
    /\ Responder(r, 500)
    /\ UNCHANGED <<tabla, activo, invalidada>>

\* The request dies before its commit.
Abandonar(r) ==
    /\ solicitud[r] # Libre
    /\ solicitud' = [solicitud EXCEPT ![r] = Libre]
    /\ UNCHANGED <<tabla, activo, respuesta, invalidada>>

\* POST /auth/logout: revocar_familia.  An expired token revokes nothing.
CerrarSesion(s) ==
    /\ ~vencida[s]
    /\ RevocarFamilia(familia[s])
    /\ UNCHANGED <<emitidas, familia, vencida, activo, solicitud, respuesta, padre>>

Vencer(s) ==
    /\ ~vencida[s]
    /\ vencida' = [vencida EXCEPT ![s] = TRUE]
    /\ UNCHANGED <<emitidas, familia, revocado, activo, solicitud, respuesta, padre, invalidada>>

\* The account is deactivated in the database; no endpoint does it.
DesactivarUsuario ==
    /\ activo
    /\ activo' = FALSE
    /\ UNCHANGED <<tabla, solicitud, respuesta, invalidada>>

-----------------------------------------------------------------------------
Next ==
    \/ Login
    \/ DesactivarUsuario
    \/ \E s \in Emitidas : CerrarSesion(s) \/ Vencer(s)
    \/ \E r \in Solicitudes :
        \/ \E s \in Emitidas : LeerSesion(r, s) \/ FallarPorVencida(r, s)
        \/ RevocarPorReuso(r)
        \/ ConfirmarRotacion(r)
        \/ RechazarInactivo(r)
        \/ RechazarToken(r)
        \/ Abandonar(r)

Spec == Init /\ [][Next]_vars
-----------------------------------------------------------------------------
(* Properties.                                                              *)

\* Rows, requests and histories keep their types.
TypeOK ==
    /\ emitidas \in 0 .. MaxSesiones
    /\ familia \in [Sesiones -> 0 .. MaxSesiones]
    /\ revocado \in [Sesiones -> BOOLEAN]
    /\ vencida \in [Sesiones -> BOOLEAN]
    /\ activo \in BOOLEAN
    /\ solicitud \in [Solicitudes ->
            {Libre} \union [fase : {"vigente", "reuso"}, ses : Emitidas]]
    /\ respuesta \in {0, 200, 401, 500}
    /\ padre \in [Sesiones -> 0 .. MaxSesiones]
    /\ invalidada \in [Sesiones -> BOOLEAN]

\* The row that a session descends from is revoked, is older, and is of its family.
Descendencia ==
    \A s \in Emitidas :
        /\ padre[s] < s
        /\ padre[s] = 0 => familia[s] = s
        /\ padre[s] # 0 => revocado[padre[s]] /\ familia[s] = familia[padre[s]]

\* The rows inserted by rotations of s.
Sucesoras(s) == {t \in Emitidas : padre[t] = s}

SucesoresAcotados ==
    \A s \in Emitidas : Cardinality(Sucesoras(s)) <= Cardinality(Solicitudes)

\* A token is never usable together with a successor, and a revocation of the family
\* reaches both.  A token presented several times at once may have several successors,
\* but never more than the requests open at a time: the readings that can still insert
\* one were all made before the first successor was there.
SucesionCoherente == Descendencia /\ SucesoresAcotados

\* Every row of f is revoked and no open request has read one as usable.
Muerta(f) ==
    /\ \A s \in DeFamilia(f) : revocado[s]
    /\ \A r \in Solicitudes :
        solicitud[r].fase = "vigente" => familia[solicitud[r].ses] # f

\* A dead family stays dead: no token of it, however old, brings a session back.
FamiliaMuertaNoRevive ==
    [][\A f \in Emitidas : familia[f] = f /\ Muerta(f) => Muerta(f)']_vars

\* sesion_service.py: "si un refresh token revocado es presentado, toda la
\* familia de tokens es inmediatamente invalidada", and revocar_familia:
\* "Revoca todas las sesiones de la familia asociada al token (logout)."
FamiliaInvalidadaSinSesiones ==
    \A f \in Emitidas : invalidada[f] => \A s \in DeFamilia(f) : revocado[s]

-----------------------------------------------------------------------------
(* The inductive invariant of RefreshSessionsProofs.                        *)

\* Families are rows of their own family; rows not yet inserted are blank; an
\* open request has read an inserted row, and a detected reuse a revoked one.
TablaCoherente ==
    /\ \A s \in Emitidas : familia[s] \in Emitidas /\ familia[familia[s]] = familia[s]
    /\ \A s \in Sesiones \ Emitidas : ~revocado[s] /\ ~vencida[s]
    /\ \A r \in Solicitudes : solicitud[r].fase = "reuso" => revocado[solicitud[r].ses]

IInv == TypeOK /\ Descendencia /\ TablaCoherente
=============================================================================

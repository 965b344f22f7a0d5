----------------------------- MODULE OtpLinking -----------------------------
(***************************************************************************)
(* How a client gets an account: an agent registers the client, which      *)
(* issues a code (codigos_vinculacion), or regenerates the code; the       *)
(* client redeems it in POST /auth/vinculacion.                            *)
(*                                                                         *)
(* Every row is read without a lock and written at a later commit, and a   *)
(* linking request reads the client, the e-mail and the code in three      *)
(* statements, so requests interleave between any two of them.  An early   *)
(* return and a request that dies leave the same trace, none: Abandonar.   *)
(***************************************************************************)
EXTENDS Naturals, FiniteSets

CONSTANTS
    Clientes,      \* identifications that agents register
    Correos,       \* e-mails, the client's own or the one of the request
    Solicitudes,   \* linking requests that can be open at a time
    Nadie,         \* no client, no e-mail
    Operadores,    \* registrations and regenerations that can be open at a time
    MaxFallos,     \* failed attempts that consume a code
    MaxCodigos,    \* bound: codes that the model issues
    MaxCuentas     \* bound: accounts that the model opens

ASSUME CotasAssumption ==
    /\ MaxFallos \in Nat \ {0}
    /\ MaxCodigos \in Nat /\ MaxCuentas \in Nat
ASSUME FinitudAssumption == IsFiniteSet(Operadores) /\ IsFiniteSet(Solicitudes)
ASSUME NadieAssumption == Nadie \notin Clientes \union Correos

VARIABLES
    registrado,    \* clients that have a row in `clientes`
    cuenta,        \* clientes.usuario_id; 0 is NULL
    emitidos,      \* codes issued so far, numbered in the order of created_at,
                   \* which is taken to be that of their commits
    titular,       \* cliente_id of each code
    consumido,     \* consumido
    intentos,      \* intentos_fallidos
    vencido,       \* expira_en lies in the past
    cuentas,       \* accounts opened so far, numbered 1 .. cuentas
    correo,        \* usuarios.email of each account
    solicitud,     \* what an open linking request has read
    operacion,     \* what an open registration or regeneration has read
    origen         \* history: the code each account was opened with

codigos == <<emitidos, titular, consumido, intentos, vencido>>
usuarios == <<cuentas, correo, origen>>
vars == <<registrado, cuenta, codigos, usuarios, solicitud, operacion>>

Codigos == 1 .. MaxCodigos
Emitidos == 1 .. emitidos
Cuentas == 1 .. MaxCuentas
Abiertas == 1 .. cuentas

Libre == [fase |-> "libre", cliente |-> Nadie, correo |-> Nadie, codigo |-> 0, visto |-> 0]
SinOperacion == [fase |-> "libre", cliente |-> Nadie, vivos |-> {}]

Init ==
    /\ registrado = {}
    /\ cuenta = [c \in Clientes |-> 0]
    /\ emitidos = 0
    /\ titular = [k \in Codigos |-> Nadie]
    /\ consumido = [k \in Codigos |-> FALSE]
    /\ intentos = [k \in Codigos |-> 0]
    /\ vencido = [k \in Codigos |-> FALSE]
    /\ cuentas = 0
    /\ correo = [u \in Cuentas |-> Nadie]
    /\ solicitud = [r \in Solicitudes |-> Libre]
    /\ operacion = [o \in Operadores |-> SinOperacion]
    /\ origen = [u \in Cuentas |-> 0]

\* Codes of c that a query WHERE cliente_id = :c AND consumido IS FALSE returns.
Vivos(c) == {k \in Emitidos : titular[k] = c /\ ~consumido[k]}

\* ... ORDER BY created_at DESC LIMIT 1
EsUltimo(k, c) == k \in Vivos(c) /\ \A j \in Vivos(c) : j <= k

CorreoLibre(e) == \A u \in Abiertas : correo[u] # e

-----------------------------------------------------------------------------
(* ClienteService: registrar and regenerar_otp.                             *)

EmitirCodigo(c) ==
    /\ emitidos < MaxCodigos
    /\ emitidos' = emitidos + 1
    /\ titular' = [titular EXCEPT ![emitidos + 1] = c]

AbrirAlta(o, c) ==
    /\ operacion[o] = SinOperacion
    /\ c \notin registrado
    /\ operacion' = [operacion EXCEPT ![o] = [fase |-> "alta", cliente |-> c, vivos |-> {}]]
    /\ UNCHANGED <<registrado, cuenta, codigos, usuarios, solicitud>>

\* The client and its first code in one commit.  Another registration of the
\* same identification makes the INSERT fail: 409.
ConfirmarAlta(o) ==
    LET c == operacion[o].cliente
    IN  /\ operacion[o].fase = "alta"
        /\ c \notin registrado
        /\ registrado' = registrado \union {c}
        /\ EmitirCodigo(c)
        /\ operacion' = [operacion EXCEPT ![o] = SinOperacion]
        /\ UNCHANGED <<cuenta, consumido, intentos, vencido, usuarios, solicitud>>

\* Only a client without an account gets another code.
AbrirRegeneracion(o, c) ==
    /\ operacion[o] = SinOperacion
    /\ c \in registrado
    /\ cuenta[c] = 0
    /\ operacion' = [operacion EXCEPT ![o] = [fase |-> "leida", cliente |-> c, vivos |-> {}]]
    /\ UNCHANGED <<registrado, cuenta, codigos, usuarios, solicitud>>

\* Mutant: nothing is invalidated.
InvalidarCodigos_Ninguno(o) ==
    /\ operacion[o].fase = "leida"
    /\ operacion' = [operacion EXCEPT ![o].fase = "marcada"]
    /\ UNCHANGED <<registrado, cuenta, codigos, usuarios, solicitud>>

\* UPDATE codigos_vinculacion SET consumido = TRUE WHERE cliente_id = :c AND
\* NOT consumido: the statement reaches the rows committed when it starts; where
\* it waits for another transaction's rows, that one commits first.
InvalidarCodigos(o) ==
    /\ operacion[o].fase = "leida"
    /\ operacion' = [operacion EXCEPT ![o].fase = "marcada",
                                      ![o].vivos = Vivos(operacion[o].cliente)]
    /\ UNCHANGED <<registrado, cuenta, codigos, usuarios, solicitud>>

ConfirmarRegeneracion(o) ==
    /\ operacion[o].fase = "marcada"
    /\ EmitirCodigo(operacion[o].cliente)
    /\ consumido' = [k \in Codigos |-> consumido[k] \/ k \in operacion[o].vivos]
    /\ operacion' = [operacion EXCEPT ![o] = SinOperacion]
    /\ UNCHANGED <<registrado, cuenta, intentos, vencido, usuarios, solicitud>>

AbandonarOperacion(o) ==
    /\ operacion[o] # SinOperacion
    /\ operacion' = [operacion EXCEPT ![o] = SinOperacion]
    /\ UNCHANGED <<registrado, cuenta, codigos, usuarios, solicitud>>

Vencer(k) ==
    /\ ~vencido[k]
    /\ vencido' = [vencido EXCEPT ![k] = TRUE]
    /\ UNCHANGED <<registrado, cuenta, emitidos, titular, consumido, intentos,
                   usuarios, solicitud, operacion>>

-----------------------------------------------------------------------------
(* POST /auth/vinculacion.                                                  *)

Avanzar(r, s) == solicitud' = [solicitud EXCEPT ![r] = s]

\* Mutant: a client that has an account is not refused.
LeerCliente_SinVinculo(r, c, e) ==
    /\ solicitud[r] = Libre
    /\ c \in registrado
    /\ Avanzar(r, [Libre EXCEPT !.fase = "cliente", !.cliente = c, !.correo = e])
    /\ UNCHANGED <<registrado, cuenta, codigos, usuarios, operacion>>

\* The client is registered and has no account yet.
LeerCliente(r, c, e) ==
    /\ solicitud[r] = Libre
    /\ c \in registrado
    /\ cuenta[c] = 0
    /\ Avanzar(r, [Libre EXCEPT !.fase = "cliente", !.cliente = c, !.correo = e])
    /\ UNCHANGED <<registrado, cuenta, codigos, usuarios, operacion>>

\* No account has the e-mail.
LeerCorreo(r) ==
    /\ solicitud[r].fase = "cliente"
    /\ CorreoLibre(solicitud[r].correo)
    /\ Avanzar(r, [solicitud[r] EXCEPT !.fase = "correo"])
    /\ UNCHANGED <<registrado, cuenta, codigos, usuarios, operacion>>

\* The newest code that is not consumed is read, and the answer compared with it.
LeerCodigo(r, k, respuesta) ==
    /\ solicitud[r].fase = "correo"
    /\ EsUltimo(k, solicitud[r].cliente)
    /\ ~vencido[k]
    /\ Avanzar(r, [solicitud[r] EXCEPT !.fase = respuesta, !.codigo = k, !.visto = intentos[k]])
    /\ UNCHANGED <<registrado, cuenta, codigos, usuarios, operacion>>

\* Mutants: the limit is off by one; consumido is assigned what the comparison
\* says.
ConfirmarFallo_UnoMas(r) ==
    LET k == solicitud[r].codigo
        n == solicitud[r].visto + 1
    IN  /\ solicitud[r].fase = "erronea"
        /\ intentos' = [intentos EXCEPT ![k] = n]
        /\ consumido' = [consumido EXCEPT ![k] = @ \/ n > MaxFallos]
        /\ Avanzar(r, Libre)
        /\ UNCHANGED <<registrado, cuenta, emitidos, titular, vencido, usuarios, operacion>>
ConfirmarFallo_Reabre(r) ==
    LET k == solicitud[r].codigo
        n == solicitud[r].visto + 1
    IN  /\ solicitud[r].fase = "erronea"
        /\ intentos' = [intentos EXCEPT ![k] = n]
        /\ consumido' = [consumido EXCEPT ![k] = n >= MaxFallos]
        /\ Avanzar(r, Libre)
        /\ UNCHANGED <<registrado, cuenta, emitidos, titular, vencido, usuarios, operacion>>

\* A wrong answer: the number read, plus one, is written, and the code is
\* consumed when that reaches the limit.
ConfirmarFallo(r) ==
    LET k == solicitud[r].codigo
        n == solicitud[r].visto + 1
    IN  /\ solicitud[r].fase = "erronea"
        /\ intentos' = [intentos EXCEPT ![k] = n]
        /\ consumido' = [consumido EXCEPT ![k] = @ \/ n >= MaxFallos]
        /\ Avanzar(r, Libre)
        /\ UNCHANGED <<registrado, cuenta, emitidos, titular, vencido, usuarios, operacion>>

\* Mutants: the session writes only the account; it writes all but the account.
ConfirmarVinculacion_SoloCuenta(r) ==
    LET s == solicitud[r]
        u == cuentas + 1
    IN  /\ s.fase = "correcta"
        /\ CorreoLibre(s.correo)
        /\ cuentas < MaxCuentas
        /\ cuentas' = u
        /\ correo' = [correo EXCEPT ![u] = s.correo]
        /\ origen' = [origen EXCEPT ![u] = s.codigo]
        /\ Avanzar(r, Libre)
        /\ UNCHANGED <<registrado, cuenta, codigos, operacion>>
ConfirmarVinculacion_SinInsertar(r) ==
    LET s == solicitud[r]
    IN  /\ s.fase = "correcta"
        /\ CorreoLibre(s.correo)
        /\ consumido' = [consumido EXCEPT ![s.codigo] = TRUE]
        /\ cuenta' = [cuenta EXCEPT ![s.cliente] = cuentas + 1]
        /\ Avanzar(r, Libre)
        /\ UNCHANGED <<registrado, emitidos, titular, intentos, vencido, usuarios, operacion>>

\* The right answer: the code is consumed, the account inserted and tied to the
\* client in one commit.  A duplicate e-mail makes the INSERT fail.  The session
\* of the new account is RefreshSessions!Login.
ConfirmarVinculacion(r) ==
    LET s == solicitud[r]
        u == cuentas + 1
    IN  /\ s.fase = "correcta"
        /\ CorreoLibre(s.correo)
        /\ cuentas < MaxCuentas
        /\ consumido' = [consumido EXCEPT ![s.codigo] = TRUE]
        /\ cuentas' = u
        /\ correo' = [correo EXCEPT ![u] = s.correo]
        /\ origen' = [origen EXCEPT ![u] = s.codigo]
        /\ cuenta' = [cuenta EXCEPT ![s.cliente] = u]
        /\ Avanzar(r, Libre)
        /\ UNCHANGED <<registrado, emitidos, titular, intentos, vencido, operacion>>

\* A refusal before any write, a failed INSERT, or a request that dies.
Abandonar(r) ==
    /\ solicitud[r] # Libre
    /\ Avanzar(r, Libre)
    /\ UNCHANGED <<registrado, cuenta, codigos, usuarios, operacion>>

-----------------------------------------------------------------------------
Next ==
    \/ \E o \in Operadores :
        \/ \E c \in Clientes : AbrirAlta(o, c) \/ AbrirRegeneracion(o, c)
        \/ ConfirmarAlta(o)
        \/ InvalidarCodigos(o)
        \/ ConfirmarRegeneracion(o)
        \/ AbandonarOperacion(o)
    \/ \E k \in Emitidos : Vencer(k)
    \/ \E r \in Solicitudes :
        \/ \E c \in Clientes, e \in Correos : LeerCliente(r, c, e)
        \/ LeerCorreo(r)
        \/ \E k \in Emitidos, a \in {"correcta", "erronea"} : LeerCodigo(r, k, a)
        \/ ConfirmarFallo(r)
        \/ ConfirmarVinculacion(r)
        \/ Abandonar(r)

Spec == Init /\ [][Next]_vars
-----------------------------------------------------------------------------
(* Properties.                                                              *)

Solicitadas ==
    [fase : {"cliente", "correo"}, cliente : Clientes, correo : Correos,
     codigo : {0}, visto : {0}]
    \union
    [fase : {"correcta", "erronea"}, cliente : Clientes, correo : Correos,
     codigo : Emitidos, visto : 0 .. MaxFallos - 1]

\* Rows, requests and histories keep their types.
TypeOK ==
    /\ registrado \subseteq Clientes
    /\ emitidos \in 0 .. MaxCodigos
    /\ cuentas \in 0 .. MaxCuentas
    /\ cuenta \in [Clientes -> 0 .. cuentas]
    /\ titular \in [Codigos -> Clientes \union {Nadie}]
    /\ consumido \in [Codigos -> BOOLEAN]
    /\ intentos \in [Codigos -> 0 .. MaxFallos]
    /\ vencido \in [Codigos -> BOOLEAN]
    /\ correo \in [Cuentas -> Correos \union {Nadie}]
    /\ solicitud \in [Solicitudes -> Solicitadas \union {Libre}]
    /\ operacion \in [Operadores ->
            [fase : {"alta", "leida", "marcada"}, cliente : Clientes, vivos : SUBSET Emitidos]
              \union {SinOperacion}]
    /\ origen \in [Cuentas -> 0 .. emitidos]

\* The account of a client was opened with a code issued to that client, and
\* that code is consumed.
CuentaRespaldada ==
    /\ \A c \in Clientes : cuenta[c] # 0 => titular[origen[cuenta[c]]] = c
    /\ \A u \in Abiertas : origen[u] \in Emitidos /\ consumido[origen[u]]

\* test_otp_bruteforce.py: the answer that completes the limit consumes the
\* code.  Overlapping answers may be counted as one, and a late commit may even
\* lower the count, yet a code whose count is at the limit is never alive.
LimiteDeFallos ==
    \A k \in Codigos : ~consumido[k] => intentos[k] < MaxFallos

\* Regenerations that overlap may each leave a code, but no more codes of a
\* client are alive than regenerations can overlap.
CodigosVivosAcotados ==
    \A c \in Clientes : Cardinality(Vivos(c)) <= Cardinality(Operadores)

\* k is consumed and no open request has matched it.
Muerto(k) ==
    /\ consumido[k]
    /\ \A r \in Solicitudes :
        ~(solicitud[r].fase = "correcta" /\ solicitud[r].codigo = k)

\* A dead code opens no account, however late a request that failed on it, or a
\* regeneration, commits.
CodigoMuertoNoVincula ==
    [][\A k \in Emitidos : Muerto(k) =>
        /\ Muerto(k)'
        /\ \A u \in Abiertas' \ Abiertas : origen'[u] # k]_vars

\* c has an account, and no open request passed the check for one before.
Vinculado(c) ==
    /\ cuenta[c] # 0
    /\ \A r \in Solicitudes : solicitud[r].cliente # c

\* Once the requests of a client have drained, its account is there to stay.
VinculoFirme ==
    [][\A c \in Clientes : Vinculado(c) => Vinculado(c)' /\ cuenta'[c] = cuenta[c]]_vars

\* _validar_y_consumir_otp_vinculacion: "Valida criptográficamente el OTP
\* activo ... y lo consume."  A code opens one account.
CodigoUnicoUso ==
    \A k \in Emitidos : Cardinality({u \in Abiertas : origen[u] = k}) <= 1

-----------------------------------------------------------------------------
(* The inductive invariant of OtpLinkingProofs.                             *)

\* A request that has compared an answer holds a code of its client.
SolicitudCoherente ==
    \A r \in Solicitudes : solicitud[r].fase \in {"correcta", "erronea"} =>
        titular[solicitud[r].codigo] = solicitud[r].cliente

IInv == TypeOK /\ CuentaRespaldada /\ SolicitudCoherente /\ LimiteDeFallos
=============================================================================

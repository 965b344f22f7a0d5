---------------------------- MODULE ClientSession ----------------------------
(***************************************************************************)
(* The Flutter client's side of a session, composed with the server's side *)
(* (RefreshSessions): ApiClient, which answers a 401 by refreshing once    *)
(* for all the requests that wait and repeating them; SessionVault, which  *)
(* keeps the tokens in memory and in secure storage; AuthBloc, which logs  *)
(* in and out.                                                             *)
(*                                                                         *)
(* Dart runs one thing at a time, so an action is what runs between two    *)
(* awaits.  The storage serves the calls, and answers them, in the order   *)
(* in which they are made: a call takes effect in the action that makes it *)
(* and the next action of that flow is its answer, when its turn comes.    *)
(*                                                                         *)
(* An access and a refresh token always travel together, so a pair of      *)
(* tokens is the number of its row in `sesiones_auth`; 0 is none.          *)
(* One running application is modelled: memory is not shared between tabs. *)
(***************************************************************************)
EXTENDS Naturals, FiniteSets, Sequences, SequencesExt

CONSTANTS
    Peticiones,    \* calls of the API that can be open at a time
    Envios,        \* POST /auth/refresh that can be on the wire at a time
    MaxLogins,     \* bound: logins
    MaxSesiones    \* bound: rows that the server inserts

ASSUME ClienteAssumption ==
    /\ MaxLogins \in Nat /\ MaxSesiones \in Nat
    /\ IsFiniteSet(Peticiones) /\ IsFiniteSet(Envios)
    /\ Peticiones \intersect {"vuelo", "entrada", "salida"} = {}

VARIABLES
    emitidas, familia, revocado, vencida, activo, solicitud, respuesta, padre,
    invalidada,    \* the server: see RefreshSessions
    envio,         \* each POST /auth/refresh on the wire
    cierre,        \* the token of a POST /auth/logout on the wire
    cache,         \* _cachedAccessToken and _cachedRefreshToken
    almacen,       \* the session in secure storage
    cola,          \* the flows that wait for an answer of the storage
    pantalla,      \* the login of AuthSuccess; 0 at the login page
    peticion,      \* _send and multipart
    vuelo,         \* _refreshInFlight and its _doRefresh
    entrada,       \* _onLoginSubmitted
    salida,        \* _onLogoutRequested
    perdidas,      \* history: families of the refreshes that the client gave up
    cruce          \* history: a refresh was in flight when the last login was saved

Servidor == INSTANCE RefreshSessions WITH Solicitudes <- Envios

servidor == <<emitidas, familia, revocado, vencida, activo, solicitud, respuesta,
              padre, invalidada>>
red == <<envio, cierre>>
boveda == <<cache, almacen, cola>>
bloc == <<pantalla, entrada, salida>>
vars == <<servidor, red, boveda, peticion, vuelo, bloc, perdidas, cruce>>

Tokens == 0 .. MaxSesiones

\* What the vault stores: the profile of the login (its family) and the tokens.
Vacio == [perfil |-> 0, ses |-> 0]

SinEnvio == [fase |-> "libre", ses |-> 0, esperado |-> FALSE]
EnTierra == [fase |-> "libre", ses |-> 0, leida |-> Vacio]
SinEntrada == [fase |-> "libre", ses |-> 0]

Init ==
    /\ Servidor!Init
    /\ envio = [e \in Envios |-> SinEnvio]
    /\ cierre = 0
    /\ cache = 0
    /\ almacen = Vacio
    /\ cola = <<>>
    /\ pantalla = 0
    /\ peticion = [p \in Peticiones |-> "libre"]
    /\ vuelo = EnTierra
    /\ entrada = SinEntrada
    /\ salida = "libre"
    /\ perdidas = {}
    /\ cruce = FALSE

-----------------------------------------------------------------------------
(* SessionVault.                                                            *)

\* A flow calls the storage; its turn to be answered.
Llamar(flujo) == cola' = Append(cola, flujo)

Turno(flujo) == cola # <<>> /\ Head(cola) = flujo

Atendido(flujo) == Turno(flujo) /\ cola' = Tail(cola)

AtendidoYLlama(flujo) == Turno(flujo) /\ cola' = Append(Tail(cola), flujo)

\* clearSession: memory at once, and the call to the storage.
LimpiarBoveda ==
    /\ cache' = 0
    /\ almacen' = Vacio

\* saveSession, in the same way.
Guardar(perfil, s) ==
    /\ cache' = s
    /\ almacen' = [perfil |-> perfil, ses |-> s]

-----------------------------------------------------------------------------
(* ApiClient: a request, its 401 and its repetition.                        *)

Enviar(p) ==
    /\ peticion[p] = "libre"
    /\ pantalla # 0
    /\ peticion' = [peticion EXCEPT ![p] = "enviada"]
    /\ UNCHANGED <<servidor, red, boveda, vuelo, bloc, perdidas, cruce>>

\* An answer other than 401, an error or a timeout ends the request; so does
\* whatever answers its repetition.
Contestada(p) ==
    /\ peticion[p] \in {"enviada", "reintento"}
    /\ peticion' = [peticion EXCEPT ![p] = "libre"]
    /\ UNCHANGED <<servidor, red, boveda, vuelo, bloc, perdidas, cruce>>

Esperar(p) == peticion' = [peticion EXCEPT ![p] = "espera"]

\* POST /auth/refresh with the token of row s.
Presentar(s) ==
    /\ \E e \in Envios :
        /\ envio[e] = SinEnvio
        /\ envio' = [envio EXCEPT ![e] = [fase |-> "camino", ses |-> s, esperado |-> TRUE]]
    /\ vuelo' = [EnTierra EXCEPT !.fase = "esperar", !.ses = s]

\* A 401 while a refresh is in flight: the request waits for that one.
CompartirRefresco(p) ==
    /\ peticion[p] = "enviada"
    /\ vuelo.fase # "libre"
    /\ Esperar(p)
    /\ UNCHANGED <<servidor, red, boveda, vuelo, bloc, perdidas, cruce>>

\* Mutant: _refreshInFlight is not looked at, each 401 makes a refresh.
IniciarRefresco_SinCompartir(p) ==
    /\ peticion[p] = "enviada"
    /\ cache # 0
    /\ Esperar(p)
    /\ Presentar(cache)
    /\ UNCHANGED <<servidor, cierre, boveda, bloc, perdidas, cruce>>

\* A 401 with none in flight: _doRefresh, with the refresh token in memory ...
IniciarRefresco(p) ==
    /\ peticion[p] = "enviada"
    /\ vuelo.fase = "libre"
    /\ cache # 0
    /\ Esperar(p)
    /\ Presentar(cache)
    /\ UNCHANGED <<servidor, cierre, boveda, bloc, perdidas, cruce>>

\* ... or, memory being empty, with the one that the storage is asked for.
PedirToken(p) ==
    /\ peticion[p] = "enviada"
    /\ vuelo.fase = "libre"
    /\ cache = 0
    /\ Esperar(p)
    /\ vuelo' = [EnTierra EXCEPT !.fase = "buscar", !.leida = almacen]
    /\ Llamar("vuelo")
    /\ UNCHANGED <<servidor, red, cache, almacen, bloc, perdidas, cruce>>

\* Mutant: _refreshInFlight keeps the flight that ended.
Reanudar_SinFinally(fase) ==
    /\ vuelo' = [EnTierra EXCEPT !.fase = "hecho"]
    /\ peticion' = [p \in Peticiones |->
            IF peticion[p] = "espera" THEN fase ELSE peticion[p]]

\* The flight is over: every request that waited for it goes on.
Reanudar(fase) ==
    /\ vuelo' = EnTierra
    /\ peticion' = [p \in Peticiones |->
            IF peticion[p] = "espera" THEN fase ELSE peticion[p]]

Repetir == Reanudar("reintento")

\* Each of them clears the session; `antes` are the calls already made.
FallarRefresco(antes) ==
    /\ Reanudar("borrar")
    /\ LimpiarBoveda
    /\ cola' = antes \o SetToSeq({p \in Peticiones : peticion[p] = "espera"})

\* The storage answers getRefreshToken.
BuscarToken ==
    /\ vuelo.fase = "buscar"
    /\ \/ /\ vuelo.leida # Vacio
          /\ Atendido("vuelo")
          /\ cache' = vuelo.leida.ses
          /\ Presentar(vuelo.leida.ses)
          /\ UNCHANGED <<almacen, peticion>>
       \/ /\ vuelo.leida = Vacio
          /\ Turno("vuelo")
          /\ FallarRefresco(Tail(cola))
          /\ UNCHANGED envio
    /\ UNCHANGED <<servidor, cierre, bloc, perdidas, cruce>>

Recoger(e) == envio' = [envio EXCEPT ![e] = SinEnvio]

\* 200: updateTokens puts the new tokens in memory and reads the storage.
RecibirTokens(e) ==
    /\ envio[e].fase = "vuelta" /\ envio[e].esperado
    /\ envio[e].ses # 0
    /\ Recoger(e)
    /\ cache' = envio[e].ses
    /\ vuelo' = [fase |-> "leer", ses |-> envio[e].ses, leida |-> almacen]
    /\ Llamar("vuelo")
    /\ UNCHANGED <<servidor, cierre, almacen, peticion, bloc, perdidas, cruce>>

RecibirRechazo(e) ==
    /\ envio[e].fase = "vuelta" /\ envio[e].esperado
    /\ envio[e].ses = 0
    /\ Recoger(e)
    /\ FallarRefresco(cola)
    /\ UNCHANGED <<servidor, cierre, bloc, perdidas, cruce>>

\* Nobody waits for the answer any more, or will write the tokens received.
Desistir ==
    /\ envio' = [e \in Envios |-> [envio[e] EXCEPT !.esperado = FALSE]]
    /\ perdidas' = perdidas \union {familia[s] : s \in {vuelo.ses} \ {0}}

\* 15 seconds without an answer, or no connection.
VencerRefresco ==
    /\ vuelo.fase = "esperar"
    /\ Desistir
    /\ FallarRefresco(cola)
    /\ UNCHANGED <<servidor, cierre, bloc, cruce>>

\* Mutant: the new tokens are kept in memory only.
LeerSesion_SoloMemoria ==
    /\ vuelo.fase = "leer"
    /\ Atendido("vuelo")
    /\ cache' = vuelo.ses
    /\ Repetir
    /\ UNCHANGED <<servidor, red, almacen, bloc, perdidas, cruce>>

\* updateTokens: the storage answers; the session read is saved with the new
\* tokens.  Without a session memory is left empty.
LeerSesion ==
    /\ vuelo.fase = "leer"
    /\ \/ /\ vuelo.leida = Vacio
          /\ Atendido("vuelo")
          /\ cache' = 0
          /\ Repetir
          /\ UNCHANGED almacen
       \/ /\ vuelo.leida # Vacio
          /\ AtendidoYLlama("vuelo")
          /\ Guardar(vuelo.leida.perfil, vuelo.ses)
          /\ vuelo' = [vuelo EXCEPT !.fase = "escribir"]
          /\ UNCHANGED peticion
    /\ UNCHANGED <<servidor, red, bloc, perdidas, cruce>>

\* The session is written.
GuardarTokens ==
    /\ vuelo.fase = "escribir"
    /\ Atendido("vuelo")
    /\ Repetir
    /\ UNCHANGED <<servidor, red, cache, almacen, bloc, perdidas, cruce>>

\* The session is deleted; notifyExpired makes _onSessionExpired clear again.
BorrarSesion(p) ==
    /\ peticion[p] = "borrar"
    /\ AtendidoYLlama(p)
    /\ LimpiarBoveda
    /\ peticion' = [peticion EXCEPT ![p] = "expirar"]
    /\ UNCHANGED <<servidor, red, vuelo, bloc, perdidas, cruce>>

-----------------------------------------------------------------------------
(* AuthBloc.                                                                *)

\* _onSessionExpired, once per notification, goes back to the login page.
ExpirarSesion(p) ==
    /\ peticion[p] = "expirar"
    /\ Atendido(p)
    /\ pantalla' = 0
    /\ peticion' = [peticion EXCEPT ![p] = "libre"]
    /\ UNCHANGED <<servidor, red, cache, almacen, vuelo, entrada, salida, perdidas, cruce>>

\* POST /auth/login, and the server's part of it.
Entrar ==
    /\ pantalla = 0
    /\ entrada = SinEntrada
    /\ Servidor!Login
    /\ entrada' = [fase |-> "respuesta", ses |-> emitidas + 1]
    /\ UNCHANGED <<red, boveda, peticion, vuelo, pantalla, salida, perdidas, cruce>>

\* The answer is lost, or comes too late.
PerderEntrada ==
    /\ entrada.fase = "respuesta"
    /\ entrada' = SinEntrada
    /\ UNCHANGED <<servidor, red, boveda, peticion, vuelo, pantalla, salida, perdidas, cruce>>

\* 200: clearSession, then saveSession, then the screen.
RecibirEntrada ==
    /\ entrada.fase = "respuesta"
    /\ entrada' = [entrada EXCEPT !.fase = "limpiar"]
    /\ Llamar("entrada")
    /\ LimpiarBoveda
    /\ UNCHANGED <<servidor, red, peticion, vuelo, pantalla, salida, perdidas, cruce>>

GuardarEntrada ==
    /\ entrada.fase = "limpiar"
    /\ AtendidoYLlama("entrada")
    /\ entrada' = [entrada EXCEPT !.fase = "escribir"]
    /\ Guardar(familia[entrada.ses], entrada.ses)
    /\ cruce' = (vuelo.fase # "libre")
    /\ UNCHANGED <<servidor, red, peticion, vuelo, pantalla, salida, perdidas>>

MostrarEntrada ==
    /\ entrada.fase = "escribir"
    /\ Atendido("entrada")
    /\ pantalla' = familia[entrada.ses]
    /\ entrada' = SinEntrada
    /\ UNCHANGED <<servidor, red, cache, almacen, peticion, vuelo, salida, perdidas, cruce>>

\* POST /auth/logout with the vault's refresh token; without one in memory or
\* in the storage, clearSession at once.
Salir ==
    /\ pantalla # 0
    /\ salida = "libre"
    /\ cierre = 0
    /\ \/ /\ cache # 0 \/ almacen # Vacio
          /\ cache' = IF cache # 0 THEN cache ELSE almacen.ses
          /\ cierre' = cache'
          /\ salida' = "esperar"
          /\ UNCHANGED <<almacen, cola>>
       \/ /\ cache = 0 /\ almacen = Vacio
          /\ salida' = "borrar"
          /\ Llamar("salida")
          /\ UNCHANGED <<cierre, cache, almacen>>
    /\ UNCHANGED <<servidor, envio, peticion, vuelo, pantalla, entrada, perdidas, cruce>>

\* Whatever the answer, an error or a timeout: clearSession, then the screen.
RecibirCierre ==
    /\ salida = "esperar"
    /\ salida' = "borrar"
    /\ LimpiarBoveda
    /\ Llamar("salida")
    /\ UNCHANGED <<servidor, red, peticion, vuelo, pantalla, entrada, perdidas, cruce>>

TerminarSalida ==
    /\ salida = "borrar"
    /\ salida' = "libre"
    /\ Atendido("salida")
    /\ pantalla' = 0
    /\ UNCHANGED <<servidor, red, cache, almacen, peticion, vuelo, entrada, perdidas, cruce>>

\* No refresh, login, logout or clearing of the session is half done.
EnReposo ==
    /\ vuelo = EnTierra
    /\ entrada = SinEntrada
    /\ salida = "libre"
    /\ \A p \in Peticiones : peticion[p] \notin {"borrar", "expirar"}

\* The page is reloaded, or the application restarted: memory is lost, and
\* _onCheckSession goes on with the session in the storage.
Recargar ==
    /\ cache' = almacen.ses
    /\ cola' = <<>>
    /\ pantalla' = almacen.perfil
    /\ peticion' = [p \in Peticiones |-> "libre"]
    /\ vuelo' = EnTierra
    /\ Desistir
    /\ entrada' = SinEntrada
    /\ salida' = "libre"
    /\ UNCHANGED <<servidor, cierre, almacen, cruce>>

-----------------------------------------------------------------------------
(* The wire and the server.                                                 *)

ClienteQuieto == UNCHANGED <<boveda, peticion, vuelo, bloc, perdidas, cruce>>

\* The server reads the row of the token presented ...
LlegarRefresco(e) ==
    /\ envio[e].fase = "camino"
    /\ Servidor!LeerSesion(e, envio[e].ses)
    /\ envio' = [envio EXCEPT ![e].fase = "servidor"]
    /\ UNCHANGED cierre /\ ClienteQuieto

\* ... and rotates the token, or refuses it, or fails.
Contestar(e, s) == envio' = [envio EXCEPT ![e].fase = "vuelta", ![e].ses = s]

AtenderRefresco(e) ==
    /\ \/ Servidor!ConfirmarRotacion(e) /\ Contestar(e, emitidas + 1)
       \/ Servidor!RevocarPorReuso(e) /\ Contestar(e, 0)
       \/ Servidor!Abandonar(e) /\ Contestar(e, 0)
    /\ UNCHANGED cierre /\ ClienteQuieto

\* The request is lost, or an answer that is lost or nobody waits for.
Perder(e) ==
    /\ envio[e].fase \in {"camino", "vuelta"}
    /\ Recoger(e)
    /\ UNCHANGED <<servidor, cierre>> /\ ClienteQuieto

\* The logout arrives, however late, or is lost.
LlegarCierre ==
    /\ cierre # 0
    /\ Servidor!CerrarSesion(cierre) \/ UNCHANGED servidor
    /\ cierre' = 0
    /\ UNCHANGED envio /\ ClienteQuieto

-----------------------------------------------------------------------------
Next ==
    \/ \E p \in Peticiones :
        \/ Enviar(p) \/ Contestada(p)
        \/ CompartirRefresco(p) \/ IniciarRefresco(p) \/ PedirToken(p)
        \/ BorrarSesion(p) \/ ExpirarSesion(p)
    \/ BuscarToken \/ VencerRefresco \/ LeerSesion \/ GuardarTokens
    \/ Entrar \/ PerderEntrada \/ RecibirEntrada \/ GuardarEntrada \/ MostrarEntrada
    \/ Salir \/ RecibirCierre \/ TerminarSalida
    \/ Recargar
    \/ \E e \in Envios :
        \/ RecibirTokens(e) \/ RecibirRechazo(e)
        \/ LlegarRefresco(e) \/ AtenderRefresco(e) \/ Perder(e)
    \/ LlegarCierre

Spec == Init /\ [][Next]_vars
-----------------------------------------------------------------------------
(* Properties.                                                              *)

\* Vault, flows and wire keep their types.
TypeOK ==
    /\ Servidor!TypeOK
    /\ envio \in [Envios -> [fase : {"libre", "camino", "servidor", "vuelta"}, ses : Tokens,
                             esperado : BOOLEAN]]
    /\ cierre \in Tokens
    /\ cache \in Tokens
    /\ almacen \in [perfil : Tokens, ses : Tokens]
    /\ cola \in Seq({"vuelo", "entrada", "salida"} \union Peticiones)
    /\ pantalla \in Tokens
    /\ peticion \in [Peticiones ->
            {"libre", "enviada", "espera", "reintento", "borrar", "expirar"}]
    /\ vuelo \in [fase : {"libre", "buscar", "esperar", "leer", "escribir"}, ses : Tokens,
                  leida : [perfil : Tokens, ses : Tokens]]
    /\ entrada \in [fase : {"libre", "respuesta", "limpiar", "escribir"}, ses : Tokens]
    /\ salida \in {"libre", "esperar", "borrar"}
    /\ perdidas \subseteq Tokens
    /\ cruce \in BOOLEAN

\* Requests that share one refresh, and a vault that stores what it refreshed,
\* never make the server take the user's own token for a stolen one: it does
\* only in a family that a logout closed, or in which the client gave up a
\* refresh that the server may have done.
ReusoNuncaPropio ==
    \A e \in Envios :
        solicitud[e].fase = "reuso" =>
            \/ invalidada[familia[solicitud[e].ses]]
            \/ familia[solicitud[e].ses] \in perdidas

\* At rest, the storage holds the profile of the login on the screen and memory no other
\* tokens than the storage: a reload goes on with what the client was using.  The tokens
\* are of that login too, unless a refresh was in flight when it was saved.
PantallaConSesion ==
    EnReposo /\ pantalla # 0 =>
        /\ almacen.perfil = pantalla
        /\ cache \in {0, almacen.ses}
        /\ familia[almacen.ses] = pantalla \/ cruce
=============================================================================

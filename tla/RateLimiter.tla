---------------------------- MODULE RateLimiter ----------------------------
(***************************************************************************)
(* The rate limiter of one API process (core/rate_limit.py) and the        *)
(* endpoints that use it: POST /auth/login, POST /auth/vinculacion and     *)
(* POST /auth/refresh.                                                     *)
(*                                                                         *)
(* A process runs one coroutine at a time, so what check_all does between  *)
(* two awaits is one step: the checks and the note in the burst history,   *)
(* then, only when the burst asks for it, a sleep, then the records, which *)
(* carry the time of the checks.  Requests interleave in the sleep and     *)
(* while a credential is verified.                                         *)
(*                                                                         *)
(* Time passes in ticks shorter than every window.  A history keeps, for   *)
(* each age in ticks, how many of its times are that age or younger: what  *)
(* the code counts of it is one of these numbers.  The times that have     *)
(* left the window of their key are never counted again and dropped.       *)
(***************************************************************************)
EXTENDS Naturals, FiniteSets

CONSTANTS
    Peticiones,       \* requests that can be open at a time
    Ips,
    Identidades,      \* an e-mail or an identity number, as typed
    Flujos,           \* endpoints that run check_all
    Maximo,           \* Maximo[c]: requests allowed per window of a kind of key
    Ventana,          \* Ventana[c]: ticks of that window
    UmbralFallos,     \* RATE_LIMIT_LOCKOUT_MAX_FAILS
    UmbralRafaga,     \* RATE_LIMIT_TARPIT_BURST_THRESHOLD
    DuracionBloqueo   \* RATE_LIMIT_LOCKOUT_DURATION_SECONDS, in ticks

\* Kinds of key, the literals in front of them in the cache.
Clases == {<<"ip", f>> : f \in Flujos \union {"refresh"}}
            \union {<<"id", f>> : f \in Flujos} \union {<<"burst">>, <<"failures">>}

\* A key of the cache: its kind, and the address or identity it is about.
Claves == {<<c, i>> : c \in {k \in Clases : k[1] \in {"ip", "burst"}}, i \in Ips}
            \union {<<c, u>> : c \in {k \in Clases : k[1] \in {"id", "failures"}},
                               u \in Identidades}

\* Ages that some window or lock can still see.
Duraciones == {Ventana[c] : c \in Clases} \union {DuracionBloqueo}

ASSUME LimitesAssumption ==
    /\ Maximo \in [Clases -> Nat]
    /\ Ventana \in [Clases -> Nat \ {0}]
    /\ UmbralFallos \in Nat \ {0}
    /\ UmbralRafaga \in Nat \ {0}
    /\ DuracionBloqueo \in Nat \ {0}
    /\ IsFiniteSet(Peticiones) /\ Peticiones # {}
    /\ \E n \in Duraciones : \A m \in Duraciones : m <= n    \* finitely many kinds
    /\ "refresh" \notin Flujos

EdadMaxima == CHOOSE n \in Duraciones : \A m \in Duraciones : m <= n
Edades == 0 .. EdadMaxima

VARIABLES
    historia,   \* historia[k][e]: times under key k that are at most e ticks old
    bloqueo,    \* bloqueo[u]: ticks left of the entry lockout:u, 0 without one
    peticion    \* what an open request is doing

vars == <<historia, bloqueo, peticion>>

Vacia == [e \in Edades |-> 0]

Fases == {"libre", "dormida", "verificando"}
Libre == [fase |-> "libre"]
Abiertas == [fase : Fases \ {"libre"}, flujo : Flujos, ip : Ips, id : Identidades,
             edad : Edades]

Init ==
    /\ historia = [k \in Claves |-> Vacia]
    /\ bloqueo = [u \in Identidades |-> 0]
    /\ peticion = [p \in Peticiones |-> Libre]

ClaveIp(f, i) == <<<<"ip", f>>, i>>
ClaveId(f, u) == <<<<"id", f>>, u>>
Rafaga(i) == <<<<"burst">>, i>>
Fallos(u) == <<<<"failures">>, u>>

\* [t for t in _get_history(key) if t > now - window]
Cuenta(h, k) == h[k][Ventana[k[1]] - 1]

\* Bound: times that a history can tell apart.  Past its threshold, or past what all
\* the open requests can add to a limit, one more changes no answer.
Tope(c) == IF c = <<"burst">> THEN UmbralRafaga
           ELSE IF c = <<"failures">> THEN UmbralFallos
           ELSE Maximo[c] + Cardinality(Peticiones)

\* _append_history, of a time that is e ticks old.
Anotar(h, k, e) ==
    [h EXCEPT ![k] = [d \in Edades |->
        IF e <= d /\ d < Ventana[k[1]] /\ h[k][d] < Tope(k[1]) THEN h[k][d] + 1 ELSE h[k][d]]]

Crecer(e) == IF e < EdadMaxima THEN e + 1 ELSE e
Abierta(p) == peticion[p] # Libre

-----------------------------------------------------------------------------
\* is_account_locked: an entry lockout:u whose time has not come.
IsAccountLocked(u) == bloqueo[u] > 0

\* check_ip and check_identity raise nothing.
CheckIp(f, i) == Cuenta(historia, ClaveIp(f, i)) < Maximo[<<"ip", f>>]
CheckIdentity(f, u) == Cuenta(historia, ClaveId(f, u)) < Maximo[<<"id", f>>]

\* Mutant: the limit is compared with > instead of >=.
Admite_UnoDeMas(f, i, u) ==
    /\ ~ IsAccountLocked(u)
    /\ Cuenta(historia, ClaveId(f, u)) <= Maximo[<<"id", f>>]
    /\ CheckIp(f, i)

\* Mutant: the lock is not looked at.
Admite_SinBloqueo(f, i, u) == CheckIdentity(f, u) /\ CheckIp(f, i)

\* The checks of check_all let the request through.
Admite(f, i, u) ==
    /\ ~ IsAccountLocked(u)
    /\ CheckIdentity(f, u)
    /\ CheckIp(f, i)

RecordIp(h, f, i, e) == Anotar(h, ClaveIp(f, i), e)
RecordIdentity(h, f, u, e) == Anotar(h, ClaveId(f, u), e)

\* The records of check_all carry the time of its checks.
Registrar(h, f, i, u, e) == RecordIdentity(RecordIp(h, f, i, e), f, u, e)

\* calculate_tarpit_delay is positive, once this request is in the burst.
Duerme(h, i) == Cuenta(h, Rafaga(i)) >= UmbralRafaga

\* check_all up to its end, or up to the sleep of apply_tarpitting.
ConsultarTodo(p, f, i, u) ==
    LET h == Anotar(historia, Rafaga(i), 0)
    IN /\ peticion[p] = Libre
       /\ Admite(f, i, u)
       /\ historia' = IF Duerme(h, i) THEN h ELSE Registrar(h, f, i, u, 0)
       /\ peticion' = [peticion EXCEPT ![p] =
              [fase |-> IF Duerme(h, i) THEN "dormida" ELSE "verificando",
               flujo |-> f, ip |-> i, id |-> u, edad |-> 0]]
       /\ UNCHANGED bloqueo

\* The sleep of apply_tarpitting ends.
Despertar(p) ==
    LET q == peticion[p]
    IN /\ Abierta(p) /\ q.fase = "dormida"
       /\ historia' = Registrar(historia, q.flujo, q.ip, q.id, q.edad)
       /\ peticion' = [peticion EXCEPT ![p].fase = "verificando"]
       /\ UNCHANGED bloqueo

Verificada(p) == Abierta(p) /\ peticion[p].fase = "verificando"

\* Mutant: a failure under a lock adds the duration to what is left of it.
Fallar_Acumula(p) ==
    LET u == peticion[p].id
        h == Anotar(historia, Fallos(u), 0)
    IN /\ Verificada(p)
       /\ historia' = h
       /\ bloqueo' = [bloqueo EXCEPT ![u] =
                        IF Cuenta(h, Fallos(u)) >= UmbralFallos THEN @ + DuracionBloqueo ELSE @]
       /\ peticion' = [peticion EXCEPT ![p] = Libre]

\* record_failure: the failure is noted now, and the account locked at the limit.
Fallar(p) ==
    LET u == peticion[p].id
        h == Anotar(historia, Fallos(u), 0)
    IN /\ Verificada(p)
       /\ historia' = h
       /\ bloqueo' = [bloqueo EXCEPT ![u] =
                        IF Cuenta(h, Fallos(u)) >= UmbralFallos THEN DuracionBloqueo ELSE @]
       /\ peticion' = [peticion EXCEPT ![p] = Libre]

\* record_success: failures and lock are forgotten.
Acertar(p) ==
    LET u == peticion[p].id
    IN /\ Verificada(p)
       /\ historia' = [historia EXCEPT ![Fallos(u)] = Vacia]
       /\ bloqueo' = [bloqueo EXCEPT ![u] = 0]
       /\ peticion' = [peticion EXCEPT ![p] = Libre]

\* vincular_cliente answers 400 for a missing e-mail without telling the limiter,
\* and any request may end so by an error of the database.
Abandonar(p) ==
    /\ Verificada(p)
    /\ peticion' = [peticion EXCEPT ![p] = Libre]
    /\ UNCHANGED <<historia, bloqueo>>

\* refresh_session: check_ip and record_ip with no await between them.
Refrescar(i) ==
    /\ CheckIp("refresh", i)
    /\ historia' = RecordIp(historia, "refresh", i, 0)
    /\ UNCHANGED <<bloqueo, peticion>>

\* The LRU cache drops an entry.  Which one depends on traffic that is not in
\* the model, so it may be any.
Desalojar(k) ==
    /\ historia[k] # Vacia
    /\ historia' = [historia EXCEPT ![k] = Vacia]
    /\ UNCHANGED <<bloqueo, peticion>>

DesalojarBloqueo(u) ==
    /\ bloqueo[u] > 0
    /\ bloqueo' = [bloqueo EXCEPT ![u] = 0]
    /\ UNCHANGED <<historia, peticion>>

\* The process restarts: the cache is in memory.
Reiniciar ==
    /\ historia' = [k \in Claves |-> Vacia]
    /\ bloqueo' = [u \in Identidades |-> 0]
    /\ peticion' = [p \in Peticiones |-> Libre]

\* A tick of the clock.
Latir ==
    /\ historia' = [k \in Claves |-> [e \in Edades |->
            IF e = 0 \/ e >= Ventana[k[1]] THEN 0 ELSE historia[k][e - 1]]]
    /\ bloqueo' = [u \in Identidades |-> IF bloqueo[u] = 0 THEN 0 ELSE bloqueo[u] - 1]
    /\ peticion' = [p \in Peticiones |->
            IF Abierta(p) THEN [peticion[p] EXCEPT !.edad = Crecer(@)] ELSE Libre]

Next ==
    \/ \E p \in Peticiones, f \in Flujos, i \in Ips, u \in Identidades :
            ConsultarTodo(p, f, i, u)
    \/ \E p \in Peticiones : Despertar(p) \/ Fallar(p) \/ Acertar(p) \/ Abandonar(p)
    \/ \E i \in Ips : Refrescar(i)
    \/ \E k \in Claves : Desalojar(k)
    \/ \E u \in Identidades : DesalojarBloqueo(u)
    \/ Reiniciar
    \/ Latir

Spec == Init /\ [][Next]_vars

\* Time does not stop.
FairSpec == Spec /\ WF_vars(Latir)

-----------------------------------------------------------------------------
TypeOK ==
    /\ historia \in [Claves -> [Edades -> Nat]]
    /\ bloqueo \in [Identidades -> 0 .. DuracionBloqueo]
    /\ peticion \in [Peticiones -> Abiertas \union {Libre}]

\* Requests that have passed the checks of key k and are not yet recorded in it.
SinRegistrar(k) == {p \in Peticiones :
    /\ Abierta(p) /\ peticion[p].fase = "dormida"
    /\ k \in {ClaveIp(peticion[p].flujo, peticion[p].ip),
              ClaveId(peticion[p].flujo, peticion[p].id)}}

\* A sleep between check and record lets requests pass on one count, but no more
\* than the others that are asleep at the time: a window never holds more than its
\* limit and the rest of the open requests.  A refresh, which does not sleep, never
\* passes its limit.
CuposAcotados ==
    /\ \A k \in Claves : k[1][1] \in {"ip", "id"} /\ k[1][2] \in Flujos =>
            Cuenta(historia, k) + Cardinality(SinRegistrar(k))
                <= Maximo[k[1]] + Cardinality(Peticiones) - 1
    /\ \A i \in Ips : Cuenta(historia, ClaveIp("refresh", i)) <= Maximo[<<"ip", "refresh">>]

\* A lock in force ends early only by the eviction of its entry, by a restart or by
\* the success of a request that was let in before the lock was set: a request let
\* in afterwards can never lift it.
BloqueoCedeAnteLoPrevio ==
    [][\A u \in Identidades : bloqueo[u] > bloqueo'[u] =>
            \/ Latir \/ Reiniciar \/ DesalojarBloqueo(u)
            \/ \E p \in Peticiones :
                    /\ Abierta(p) /\ peticion[p].id = u /\ peticion'[p] = Libre
                    /\ peticion[p].edad + bloqueo[u] >= DuracionBloqueo]_vars

\* A lock ends: the failures of requests still open can extend it, but nothing that
\* arrives while it holds, so an account is not locked out for ever by new attempts.
BloqueoTermina ==
    \A u \in Identidades : bloqueo[u] > 0 ~> bloqueo[u] = 0
=============================================================================

# SIGAD: specification and verification

SIGAD manages motor insurance policies: a FastAPI backend on PostgreSQL, a
worker process that reads uploaded documents by OCR and moves policies through
their term, and a Flutter client for agents (web) and insured clients (mobile).
This directory holds TLA+ modules of its core, TLC configurations that check
them, and TLAPS proofs of their main theorems. `PROJECT.json` maps every
definition to the source lines it models.

Run from this directory:

    tlc -workers 2 -config outbox.cfg MCDocumentOutbox
    tlapm DocumentOutboxProofs.tla

## 1. The system

Backend paths are below `src/backend/app/`.

| Component | State it keeps | Operations | What makes it hard |
|---|---|---|---|
| Document outbox, OCR worker (`workers/outbox_consumer.py`) | `documentos` (state, lease token, attempts), `resultados_extraccion` | lease, extract, commit under the token, record an error | crash between transactions, a stalled worker that comes back late |
| Watchdog (`workers/watchdog.py`) | none of its own; `documentos` | rescue every stale row in one UPDATE | races the late worker; the attempt limit |
| Process pool (`services/resilient_pool.py`) | one `ProcessPoolExecutor` per worker | run with a timeout, recreate | the child dies |
| Document endpoints (`api/v1/endpoints/documentos.py`) | stored files, the rows above | upload, review, status, download | file without row; review against a late result |
| Policies and scheduler (`workers/scheduler.py`, `api/v1/endpoints/polizas.py`) | `polizas` (state, first and last day) | issue, change state, the daily run | three queries and one commit, no locks, autoflush off |
| Sessions (`services/sesion_service.py`, `api/v1/endpoints/auth.py`) | `sesiones_auth` | login, refresh, logout | rotation read and committed apart, two API processes |
| Account linking (`endpoints/auth.py`, `services/cliente_service.py`) | `codigos_vinculacion`, `clientes.usuario_id` | issue, regenerate, consume a code | unlocked read, lost counter updates |
| Rate limiter (`core/rate_limit.py`) | in-memory history per API process | check, delay, record | check and record on both sides of an `await` |
| Extraction and policy schemas (`endpoints/esquemas*.py`) | versions, which one is active | create, activate | bulk update followed by an ORM write, no lock on the code |
| Extraction (`services/extraccion_service.py`, `storage_service.py`) | none | accept a file, choose a gate, apply a schema | limits of upload and extraction in two places |
| Portfolio (`services/cliente_service.py`, `endpoints/vehiculos.py`, `polizas.py`, `pagos.py`) | `clientes`, `vehiculos`, `polizas`, `pagos` | register, issue, pay, delete a client | deletion against an issue, under cascades; rounding; repeated payment |
| Identifications (`schemas/cliente.py`) | none | accept a cedula or a RUC | verifier digits |
| Catalogues, mail, audit, health probe | their tables | reads, single writes | nothing |
| Session client (`src/lib/core/network/api_client.dart`, `core/services/session_vault.dart`) | tokens in memory and in secure storage | send, refresh once, retry, clear | late answers, several tabs |

Everything interacts through PostgreSQL. The API runs as two uvicorn processes
(`docker-compose.yml`), so two requests are never serialised by the
interpreter; the worker container runs outbox, watchdog and scheduler as three
asyncio tasks of one process (`workers/worker_entrypoint.py`) and is restarted
whenever it ends. Nothing but the refresh of a token is retried by the client.

What makes each modelled component correct:

* outbox: one owner per leased row; a result exists exactly when the row says
  so, and from the last lease; a bounded number of leases; finished rows stay
  finished and corrections stay; every document ends;
* policies: transitions agree with the dates, whatever commits between the
  queries; a run undoes only a cancellation made while it was open; a run that commits
  leaves nothing undone; terms do end;
* sessions: a token and its successor are never usable together; successors of
  one token are bounded; a revoked family stays revoked;
* linking: an account rests on a consumed code of its own client; a consumed code
  opens no account; a linked client keeps its account; live codes are bounded;
* session client: it never presents a token twice of its own accord; what it remembers
  is what it stores, under the profile of the login it shows, with tokens of that login
  unless a refresh was in flight when the login was saved;
* rate limiter: a limit is passed by no more than the requests that were asleep; a
  lock is lifted only by who was let in before it, and every lock ends;
* schemas and extraction: versions without gaps, one active version of a code, files
  that are accepted can be read to their end unless a page that needs OCR cannot be
  drawn, the confidence says what was found;
* portfolio: no row refers to one that is gone, whatever is deleted meanwhile; a
  policy is lost only to the race that the code leaves open; a plan of installments
  fits its term; a receipt is that of one payment; a mistyped identification is
  refused.

## 2. Conventions

A database transaction is as many actions as it has points at which another
transaction can commit and be seen: one, where its statements lock the rows they
use (lease, fenced UPDATE, rescue); two, where the code reads through the ORM and
commits later (review, change of state, rotation). What a session has read is
kept in a variable of the request, so a stale value is used exactly as the code
uses it. PostgreSQL runs at READ COMMITTED, its default. Definitions keep the
source's Spanish names. Names of the form `X_Y` next to a definition `X` are
mutants: `X` with a plausible bug, used to show that a property can fail.

## 3. The modules

### DocumentOutbox, implementing DocumentLifecycle

`estado`, `lease`, `intentos`, `motivo` are columns of `documentos`; `vencido`
stands for `updated_at` being older than the watchdog's limit; `resultado` and
`campos` are the row of `resultados_extraccion`; `fase`, `doc`, `token` are the
local variables of a worker's `procesar_un_ciclo_outbox`, and `pool` its executor.
Tokens are numbered in the order they are drawn for a row (`uuid4` never repeats);
`arriendos` counts them.

| Action | Code |
|---|---|
| `GuardarArchivo`, `InsertarDocumento` | `cargar_documento`: the file, then the row |
| `Seleccionar`, `Arrendar` | SELECT ... FOR UPDATE SKIP LOCKED, then UPDATE and COMMIT |
| `Extraer`, `ExpirarExtraccion`, `FallarExtraccion`, `MorirHijo` | how a job in the pool ends |
| `Completar`, `RegistrarError`, `PerderArriendo` | the UPDATE ... WHERE lease_token = :lease_token |
| `FallarBaseDatos`, `Reiniciar` | a lost connection, a restart of the process |
| `Vencer`, `Rescatar` | time passes, the watchdog's UPDATE |
| `AbrirRevision`, `ConfirmarRevision`, `RechazarRevision` | the review endpoint: its read, its commit, its 422 |

`DocumentLifecycle` is what the queue promises to whoever looks at a row: taken,
then extracted once, failed, or handed back a bounded number of times; fields are
only replaced by a reviewer. `CumpleCicloDeVida` is the refinement under the
identity mapping of `estado`, `intentos` and `campos`.

### PolicyLifecycle

`estado`, `inicio`, `fin` are columns of `polizas`; `hoy` is the date; `fase`,
`ref`, `plan` are the run of the scheduler: how far it is, its `hoy`, and the
states it has set on the objects of its session; `peticion` is what an open
request has read. Because `autoflush=False`, a query sees the committed table
while the session's objects keep the states the run has set on them: `Consulta` states this once
for the three queries. A commit writes only the planned rows, by id. `movidas` is a
history variable: the policies whose state requests have written since the first query
of the last run, which are those that a run may overwrite or miss.

### RefreshSessions

Rows of `sesiones_auth` are numbered as they are inserted; `familia` is the number
of the family's first row. `solicitud` is what an open refresh has read: the row,
and whether it was revoked. `padre` and `invalidada` are history variables: no
action reads them except to bound the number of logins. `activo` is
`usuarios.activo`, which no endpoint clears; `DesactivarUsuario` is marked external.

### OtpLinking

Codes and accounts are numbered in the order of their commits (`created_at`, by which
the code picks the newest, is set just before). `solicitud` is what a linking request
has read so far: `LeerCliente`, `LeerCorreo` and `LeerCodigo` are its three SELECTs,
`ConfirmarFallo` and `ConfirmarVinculacion` its two possible commits. `operacion` is
an open registration or regeneration; `InvalidarCodigos` keeps the set of codes
its UPDATE reaches, since a code inserted meanwhile by another regeneration is not
among them. Requests that are refused or die write nothing: `Abandonar`. A
duplicate e-mail or identification is the guard that PostgreSQL's unique
constraint puts on the commit. `origen` is a history variable. The session issued after a link is
`RefreshSessions!Login`, and the rate limiter in front of the handler is a
component of its own.

### ClientSession, composed with RefreshSessions

The Flutter client of `src/lib/`, against the server: `Servidor` is
`RefreshSessions` with the calls on the wire (`envio`) as its open requests, and the
modules share the server's variables. A pair of tokens is the number of its row.
`cache` and `almacen` are the two copies of `SessionVault`; `peticion` is each call
of `_send` or `multipart`, `vuelo` the static `_refreshInFlight` with the `_doRefresh`
behind it, `entrada` and `salida` the handlers of `AuthBloc`, `pantalla` the login that
`AuthSuccess` shows. `perdidas` and `cruce` are history variables: the families of the
refreshes that the client gave up, and whether one was in flight when the last login
was saved.

An action is what the isolate runs between two awaits. The secure storage is
external: it is taken to serve and answer calls in the order in which they are made
(`cola`), as a platform channel does; how long it takes is open, so logins, answers
and timeouts fall between a call and its answer. The network loses or delays
anything; a timed-out call may still be served (`VencerRefresco`, then
`LlegarRefresco`). A 401 can come at any time. `CompartirRefresco` is the request
that finds a refresh in flight, `IniciarRefresco` and `PedirToken` the one that starts it,
`Reanudar` the completion of the shared future; `Recargar` is a reload in any state.
Tokens do not expire here: an expired refresh token is refused as
`RefreshSessions!Abandonar` is, with an error and no change.

### RateLimiter

One API process: `historia` and `bloqueo` are the entries of its `LRUCache`, `peticion`
what an open login or linking request is doing. A history is kept as counts by age:
`historia[k][e]` is how many of its times are at most `e` ticks old, so what the code
counts in a window is one of these numbers. A count stops where one more changes no
answer (`Tope`).

| Action | Code |
|---|---|
| `ConsultarTodo` | `check_all` up to its first `await`: lock, identity, address, burst |
| `Despertar` | the end of `apply_tarpitting`'s sleep, and the records |
| `Fallar`, `Acertar`, `Abandonar` | `record_failure`, `record_success`, an answer that tells the limiter nothing |
| `Refrescar` | `refresh_session`: check and record, no `await` between |
| `Desalojar`, `DesalojarBloqueo`, `Reiniciar` | the cache drops an entry; the process ends |
| `Latir` | a tick of the clock |

Which entry the cache drops depends on all traffic, so it may be any. With two
processes each has its own histories; the model is one of them, and what it says of a
limit holds per process.

### ExtractionSchemas, over Extraction

`esquema` are the committed rows of `esquemas_extraccion`, `cerrojo` the row locks of
open transactions, `alta` and `activacion` the open requests, `documento` one document
from its upload to its result. `ordenados` is a history variable: the codes in which an
activation has run alone and no race since. The two handlers of
`endpoints/esquemas_poliza.py` are the same statements on another table.

| Action | Code |
|---|---|
| `LeerVersion`, `ConfirmarAlta` | `crear_esquema`: SELECT max(version), INSERT and commit |
| `LeerEsquema` | `activar_esquema`: the row, and whether it was active |
| `EmpezarDesactivacion`, `Desactivar` | the bulk UPDATE: its snapshot, then row by row under locks |
| `ConfirmarActivacion` | the flush of `es_activo = True`, if that is a change, and the commit |
| `Abortar` | a deadlock that PostgreSQL breaks, a lost connection |
| `Guardar`, `Procesar` | `cargar_documento` (its checks); the worker's extraction with an active version |

`Extraction` has the pure part: what an upload accepts (`Guardable`), what a template
may hold (`PlantillaValida`), the two gates, `AplicarEsquema` and `Extraer`, and the
probe of a template (`Probar`). Upload and gate 2 share `MAX_PDF_PAGES_PERMITTED`
(`MaxPaginas`); gate 1 has its own literal (`PaginasDigitales`). A page may break
pdfplumber (`rota`), which only sends the file to gate 2, or be one that pdfium cannot
load or draw (`~ dibujable`), which gate 2 raises (`Legible`) and the upload does not
look at. A text is the set of marks that patterns look for.
`Rounding` is Python's `round`, which sends a tie to the even number.

### Portfolio, over Identification

`cliente`, `vehiculo` and `poliza` are the rows of their tables, a policy's with its
installments; `peticion` is what an open request has read. `Identification` is the
validation of `schemas/cliente.py`, digit by digit, and clients are named by it.

| Action | Code |
|---|---|
| `AbrirRegistro`, `ConfirmarRegistro` | `POST /clientes`: its checks, its INSERT |
| `AbrirVehiculo`, `ConfirmarVehiculo` | `POST /vehiculos` |
| `AbrirPoliza`, `ConfirmarPoliza` | `POST /polizas`: the row and its installments (`PlanCuotas`) |
| `AbrirPago`, `ConfirmarPago` | `POST .../registrar`: the row as loaded, then the columns that differ |
| `AbrirBorrado`, `ComprobarPolizas`, `ComprobarVehiculos`, `Borrar` | `ClienteService.eliminar`: three reads, then the DELETE and its cascades |
| `Abandonar` | a refusal, a constraint, an error: rollback |

`vistas` is a history column: the policies there were when a deletion looked for them.
The guards of the `Confirmar...` actions are the unique and foreign keys.

## 4. The runs

| Run | Bounds | Shows |
|---|---|---|
| `outbox` | 2 documents, 2 workers, 1 review, 3 attempts | type, exclusive selection, fencing, results, bounded leases, refinement, corrections; every document ends |
| `outbox_pool` | 1 of each | finding: a dead child leaves a broken pool |
| `policy_term` | 1 policy, 1 request at a time, days 0..3, notice 1, terms of up to 2 days | plans agree with dates, cancellations that a run found stay, expired policies leave force, a run that commits leaves nothing undone |
| `sessions_safety` | 2 refreshes, 2 logins, 4 rows | rotation, its successors, dead families |
| `sessions_dead` | the same | finding: a rotation survives the detection of a reuse, and a logout |
| `otp_safety` | 1 client, 3 e-mails, 2 links, 2 operators, 3 codes, 3 accounts, limit 2 | accounts, dead codes, firm links, the limit of failures, bounded live codes |
| `otp_once` | 2 links, 1 code, 2 accounts | finding: one code opens two accounts |
| `client_session` | 1 application, 2 requests, 2 refreshes on the wire, 2 logins, 3 rows | own tokens never taken for stolen ones, the vault has the session of the screen |
| `limiter` | 2 requests, 1 address, 1 identity, limits 2 (refresh 1), windows of 2 ticks, of failures 3, lock 2, thresholds 2 | limits, who lifts a lock, every lock ends |
| `schemas` | 3 rows of 1 code, 2 activations, 2 creations, 2 lists of rules, 9 files at the limits (2 pages for upload and both gates, side 4, 12 pixels) | versions, one active version, accepted files are read, confidence |
| `schemas_activa` | the same requests and rows | finding: two versions of a code end up active |
| `portfolio` | 2 requests, 3 identifications, 2 vehicles, 1 policy, terms 0, 1, 2, 9, 10 days of at most 9, period 2, at most 2 installments, 3 receipts | references, identifications, plans, receipts, who loses a policy |

Why the bounds are enough. Rows of `documentos` interact only through the
workers' choice of a row and the watchdog's single UPDATE, so two rows and two
workers reach every pairwise interleaving: a worker whose lease was given to the other, a
row skipped because it is locked. Three attempts is the code's own
`MAX_OCR_FAILED_ATTEMPTS`. The scheduler treats policies independently, so one
policy is enough for every property of one policy, and a request that stays open
across the run's steps reaches its races with the scheduler (two requests race only
with each other, which no property is about; the proofs allow any number). Four
days and terms of up to two days contain
a day before, on and after the first and the last day, and the notice period.
Two open refreshes and four rows contain two rotations of one token followed by
another rotation and a second family. For a linking request three accounts and three
e-mails let a third request exceed what two can do together, and three codes let a
third live code appear if regeneration fails to invalidate. For the client, two requests
share a refresh or race with one, two calls on the wire are a refresh given up and
the next, and three rows are a rotation and a second login.

In the limiter one address and one identity are enough because keys never mix and each
count is of one key; two requests give one asleep while another passes its checks or
fails under a lock; the windows keep the order of the code's, the lock shorter than the
window that counts failures, so a failure inside the window can meet an expired lock.
Of schemas, three rows are the active one, one to activate and one created meanwhile,
and two activations lock them in opposite orders and deadlock; a second code
would share no row. The files sit at each side of each limit and are read by each gate;
one has a page that is not drawn where OCR is needed, one where it is not. With
`PaginasDigitales = 1` TLC finds `AceptadoEsLegible` violated: the property is what holds
the three limits together.
In the portfolio one policy on two vehicles of three clients has a holder that owns
the vehicle and one that does not; the terms are refused at both ends, give a plan of
one, of the largest number of installments, and one cut by it; two requests are a
deletion against an issue, or two payments of one installment. The proofs cover all
other sizes of the modules that have them.

`UltimoDia`, `MaxLogins`, `MaxSesiones`, `MaxCodigos` and `MaxCuentas`
bound the model, not the code, as do the rows of `Filas` and the plates and numbers of
`Portfolio`, each used once: the code frees a plate or a number when its row is
deleted (`polizas.py:68-75` only looks for a living one), so nothing is said about a
number that is used again. `policy_term`, `otp_*`, `schemas*` and `portfolio` switch
deadlock checking off: after the last day, once the client is linked, when every row is
used and every client deleted, nothing more happens.

## 5. Fairness

* `DocumentOutbox!Equidad`: a worker's loop goes on (weak fairness); stale rows
  become stale (`Vencer`) and the watchdog's loop wakes up. Strong fairness of
  `Arrendar` says that a worker that is restarted again and again does get through two
  consecutive statements once in a while; without it a process that dies at each
  SELECT would poll for ever. Extraction is not assumed to succeed, nor
  databases to stay up. The container's restart policy (`restart: always`) and the
  loops' `while True` with a catch-all `except` justify the rest.
* `PolicyLifecycle!Equidad`: days pass, the loop wakes up, and a run that is
  interrupted infinitely often is nevertheless let through each of its
  statements infinitely often (strong fairness), since the loop retries after
  60 seconds.
* `RateLimiter!FairSpec`: the clock does not stop (weak fairness of `Latir`). Nothing is
  assumed of requests: `BloqueoTermina` holds while they fail for ever.

The other modules state safety only: what a request leaves undone, no code repeats.

## 6. What is proved

Every theorem holds for all values of the constants, under the assumptions named
in the modules (documents are positive numbers, at least one attempt, and so on).

* `DocumentOutboxProofs`. The inductive invariant `IInv` adds to the checked
  invariants that a busy worker's token was drawn for its row (`TareaCoherente`),
  that an open review has read a row with a result (`RevisionCoherente`) and that
  attempts stay within the limit. The key lemma is `ArriendoEnCurso`: a worker whose
  token matches the row's works on a row in 'procesando' whose last token is its own;
  so `Completar` never meets an existing result. From `IInv`: `TipoCorrecto`,
  `SeleccionSegura`, `CercadoSeguro`, `ResultadoSeguro`, `EjecucionesSeguras`.
  `Refinamiento` maps every step to a step or a stutter of `DocumentLifecycle`;
  `TerminalSeguro` and `CorreccionSegura` follow from it. `ProgresoSeguro`: a document
  has at most `2 * MaxIntentos` changes of state from its upload to its end, each one
  uses up a step and nothing gives one back, neither the watchdog nor a worker that wakes
  up late. It is the variant under `TodoDocumentoTermina`: what fairness adds is only
  that a step is taken.
* `PolicyLifecycleProofs`. `IInv` adds that a run's date is not in the future and
  that a run that has not queried has changed nothing. From it: `TipoCorrecto`,
  `PlanSeguro`, `FechasSeguras`. The dates of an issued
  policy never change, which is why a plan stays founded while agents commit.
  `CancelacionSegura` and `CorridaSegura` need `QuedaPorHacer` as well: for the policies
  outside `movidas`, what each query of the open run had to find is in its plan, and its
  plan starts from the state the row still has.
* `RefreshSessionsProofs`. `IInv` adds `TablaCoherente`: families are rows of
  their own family, rows not yet inserted are blank, an open request has read an
  inserted row. From it: `TipoCorrecto`, `FamiliaMuertaSegura`. `SucesionSegura`, for
  finitely many requests, adds `Cupo`: the successors of a token and the requests that
  have read it as usable are together no more than the requests there are. A rotation
  turns one of these into one of those and revokes the token, after which no request reads
  it as usable.
  `CierreFinal`: a logout or the detection of a reuse leaves the family dead at once when
  no rotation of it is in progress, so the finding `sessions_dead` needs one.
* `OtpLinkingProofs`. `IInv` adds that a request that has compared an answer holds a
  code of its client (`SolicitudCoherente`); `LimiteDeFallos`, which it contains, is what
  bounds the count a request can read. From it: `TipoCorrecto`, `RespaldoSeguro`,
  `LimiteSeguro`, `VinculoSeguro`, `CodigoMuertoSeguro`. `CodigosVivosSeguros`, for
  finitely many operators: each live code of a client has an operator of its own,
  because what an operator issued before is among the codes its next regeneration
  consumes. `CuentasAcotadas`: a client never has more accounts than requests can be open
  at a time. The accounts of a client and its open requests together stay within that
  number (`Cupo`), because an account takes the place of the request that opened it, and
  a client with an account lets no new request in.
  `UnicoUsoSinSolape` follows: with one request at a time no code opens two accounts.
* `ClientSessionProofs`. `IInv` is the server's invariant and the client's: every flow
  that waits for the storage is in its queue once and no other is (`EnCola`), the flight
  waits for one answer at most (`Esperado`), memory differs from the storage only while a
  refresh is half done (`Memoria`), and `Perfiles`: what is stored, and what a flight has
  read and will write, is the profile of the login, unless something that will clear the
  session stands behind it in the queue. Which flow is before which is what the proof is
  about, so it starts with lemmas about queues. From it: `TypeSeguro`.
  `ServidorImplementado`: client, wire and server together implement the server's own
  specification, so the theorems of `RefreshSessionsProofs` hold of the composition;
  `FamiliaMuertaCompuesta` is one of them. `ReusoSeguro` needs a second invariant,
  `IInvReuso`, which follows each token from the server to every place that may hold a
  copy of it (`Copias`): a request on the wire, the storage, a login that is half done.
  In a family that is neither closed nor given up, the only token that may be spent is the
  one whose refresh the client awaits (`Viva`, `EnCurso`), and the token of a new login is
  nowhere else until it is saved. `GuardadaSegura` reads off it that at rest the stored
  token is one the server takes. `PantallaSegura` needs a third, `IInvPropias`: as long as
  no refresh was in flight when the last login was saved (`cruce`), what the storage holds,
  what a flight presents and what it will write are of the stored login's family.
* `PortfolioProofs`. First `UnaErrataSeNota`: no two valid identifications of a kind
  differ in exactly one digit under the verifier, for every number of ten or thirteen
  digits. Doubling with the loss of nine permutes the digits, and modulo eleven no
  product of a coefficient and a difference of digits is a multiple of the modulus, so
  one changed digit changes the verifier. Then `IInv` adds that registered
  identifications are valid, that each living policy has the plan of its term, and what
  each open request relies on (`PeticionOK`). The key lemma, `PeticionEstable`, is that this survives any change of
  rows in which none is used twice and a living one keeps its references
  (`Evolucion`). From it: `TypeSeguro`, `IdentificacionesSeguras` (with
  `UnaErrataSeNota`), `PlanSeguro` (from the rounding lemmas), `ReciboSeguro`,
  `PerdidaAcotada`. `PolizaFirme`: no step changes whom, what and how long a living
  policy insures or when it is paid for, or makes a paid installment pending.
* `RateLimiterProofs`. `IInv` adds `Anterior`: the age of an open request and what is
  left of its account's lock add up to at least the lock's duration, which says that it
  was let in before the lock was set; `Acumula`, that a history counts at an age all it
  counts at a lower one, so a tick never raises a count; and `Cupo`, each limit together
  with the requests that have passed it and are not recorded yet. A request passes a
  limit only below it, and at that moment is itself not among those asleep: that is the
  one less in the bound. Waking up moves a request from one term of the sum to the
  other. From it: `TypeSeguro`, `BloqueoSeguro`, `CuposSeguros`. `BloqueoSeAgota`: the
  only requests that can set a lock anew are those let in before it, each once, so the
  time a lock can still last is at most `(Cardinality(Peticiones) + 1) * DuracionBloqueo`,
  never grows while it holds, and shrinks with each tick. It is the ranking under
  `BloqueoTermina`.
* `ExtractionSchemasProofs`. `IInv` adds what an open activation has locked and still
  has to write, and that in a settled code the next commit leaves one version active: a
  request either covers every other row of the code, or agrees with the others on the row
  it will leave active. From it: `TypeSeguro`, `ActivacionSegura`. `VersionesSeguras`:
  below each version there is a row of the one before, and the rows of a version map
  one to one to the requests that created them. `ConfianzaSegura`: names in a template
  are unique, so fields with a value and rules that matched correspond one to one.
  `LecturaSegura` has a hypothesis, `MaxPaginas <= PaginasDigitales`: gate 1 reads as many
  pages as the upload accepts, which the code has by two constants of 10 that nothing
  ties together. From it and from what the upload lets through (nothing that does not
  open) every page is read; what can still fail is a rule, or a page that OCR needs and
  cannot draw. `ReglasFijas`: a committed version keeps its code, number
  and rules, which is why `Procesar` may read them in one step with the extraction.

Only model-checked: liveness and the findings. TLAPS does not reason about fairness and
ENABLED; of `TodoDocumentoTermina` and `BloqueoTermina` the ranking is proved
(`ProgresoSeguro`, `BloqueoSeAgota`), and TLC checks that the steps are taken.
`TodaPolizaVence` is checked by TLC alone; of it `CorridaSegura` proves what one committed
run does. Every invariant and every action property of a passing run is a theorem.
`TerminalSeguro`, that a document that has ended stays ended, is only a theorem: it
follows from the refinement, which the run checks.

## 7. Findings

Each is a run with `"expect": "violation"`; PROJECT.json quotes the line it
contradicts.

* `outbox_pool`: a dead child breaks the pool until a restart, and each document taken
  meanwhile ends in error.
* `sessions_dead`: a rotation in progress survives the detection of a reuse and a logout
  (only such a rotation does: `CierreFinal`).
* `otp_once`: one linking code opens two accounts when requests overlap (at most as many
  as overlap, and only then: `CuentasAcotadas`, `UnicoUsoSinSolape`).
* `schemas_activa`: a version created and activated while another activation is open
  leaves two active versions of a code.

Seen while modelling and kept in the models, without a run of their own. Where a
document says otherwise it is named.

* `DocumentOutbox`: a recorded failure does not increment `intentos`, which
  `docs/inspections/acta_inspeccion_outbox.md:41` says it does.
* `PolicyLifecycle`: a run writes the states it planned by id, so it overwrites a
  cancellation that commits between its queries and its commit (`scheduler.py:84`); a
  second run of the same day may change more, because the second query does not see the
  first loop's changes, though `scheduler.py:31` says "Idempotent". A policy whose whole
  term passes without a committed run stays pending for ever: the first query wants
  `fecha_fin >= hoy` (`scheduler.py:43-49`) and the third only policies in force.
* `RefreshSessions!FallarPorVencida`: an expired refresh token ends in a 500
  (`sesion_service.py:86`).
* `OtpLinking!ConfirmarFallo`: wrong answers that overlap are counted as one.
* `ClientSession`: a refresh in flight across a logout and a new login writes its tokens
  into the stored session of the new login (`RecibirTokens`, then `LeerSesion` and
  `GuardarTokens`), and its failure closes the new login (`FallarRefresco`).
  `PantallaConSesion` excepts the first by `cruce`; without that TLC finds it violated.
* `RateLimiter`: the check of the catalogues (`deps.py:59-62`) records nothing, so
  its limit never trips; a limit counts per process, and there are two
  (`docker-compose.yml:35`); the e-mail and the identity number of one account
  are two identities with separate counts.
* `ExtractionSchemas`: activating the active version again, while another is
  activated, can leave none active; the worker takes the rules of any active version,
  of whatever code.
* `Extraction`: only the first frame of an image of several is read; a PDF with enough
  digital text never has its scanned pages read; a rule whose group is optional or
  missing ends the extraction of the document, and so does a page that pdfium cannot load
  or draw where OCR is needed (`extraccion_service.py:70-71`, outside the `try`);
  `evaluar_decision_extraccion` has no caller in the program.
* `Portfolio`: a client's deletion takes with it the policies committed after its
  checks, by the cascades of the ORM and of the foreign keys; a policy may be issued on
  another client's vehicle, and then goes with that client; a term of several years
  gets at most 12 installments, all in its first year; a paid installment can be paid
  again, and such a correction that overlaps another payment of it, a correction or a
  first payment that commits late, can mix a method and a receipt;
  `PATCH /vehiculos` answers 403 to everyone, its `check_role` gets a list
  (`vehiculos.py:73`).

## 8. Plan

1. `DocumentOutbox` with `DocumentLifecycle`, `PolicyLifecycle`,
   `RefreshSessions`, `OtpLinking`, with their proofs: done.
2. `ClientSession`, the vault and `ApiClient`'s single refresh over the server of
   `RefreshSessions`: done; several tabs with one storage, and a storage whose writes
   fail, are left.
3. `RateLimiter`: check, delay, record; the lockout; with its proofs: done for one
   process.
4. `ExtractionSchemas` over `Extraction`: create, activate, upload, extract, with its
   proofs: done.
5. `Portfolio` over `Identification` and `Rounding`: registration, issue, installments,
   payments, deletion, with its proofs: done.
6. Left: several tabs and a failing storage in `ClientSession`; `Portfolio` and
   `PolicyLifecycle` as one module, so that a deletion meets the scheduler's commit.

## 9. What is not modelled, and why

Passwords, JWT signatures and HMACs (taken to work), the regular expressions of a
template and the text that OCR reads (external: a pattern finds a mark or not), the
layout of PDFs, mail (pure I/O), the audit trigger (append-only, nothing reads it
back), plain reads, the single-row writes of the catalogues, which no other operation
reads, and those of a client's contact data: of these the e-mail is read elsewhere, as the
one that linking falls back to, and `OtpLinking` lets a request settle on any e-mail. The
formats of plates, motors and chassis,
the fields that a policy schema asks for, and the deductibles and coverages of a policy
are checked or written once and read by no decision. `RATE_LIMITING_ENABLED` is taken to
be on. Of the Flutter client, screens, cache and repositories are presentation over
single calls, and the lockout that its bloc keeps after three wrong passwords is a
counter of one screen. Migrations run once, before the program; of the deployment
files only the number of processes and the restart policy matter, as assumptions.

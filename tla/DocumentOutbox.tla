--------------------------- MODULE DocumentOutbox ---------------------------
(***************************************************************************)
(* The document queue of the backend: the rows of the tables `documentos`  *)
(* and `resultados_extraccion`, the upload and review endpoints that write *)
(* them, the OCR workers that lease rows with SELECT ... FOR UPDATE SKIP   *)
(* LOCKED and commit results under a fencing token, and the watchdog that  *)
(* rescues stale rows.                                                     *)
(*                                                                         *)
(* A statement or transaction that PostgreSQL makes atomic for the rows it *)
(* locks is one action; a worker can crash, stall or lose its database     *)
(* connection between any two of its own transactions.                     *)
(***************************************************************************)
EXTENDS Naturals, FiniteSets

CONSTANTS
    Documentos,    \* rows, numbered in the order of created_at
    Trabajadores,  \* worker processes, each running one outbox loop
    Revisores,     \* review requests an agent or administrator can have open
    MaxIntentos    \* MAX_OCR_FAILED_ATTEMPTS

ASSUME DocumentosAssumption == Documentos \subseteq Nat \ {0}
ASSUME MaxIntentosAssumption == MaxIntentos \in Nat \ {0}
ASSUME RevisoresAssumption == Revisores \cap {"ninguno", "extraccion"} = {}

VARIABLES
    estado,     \* estado_extraccion of each row; "ausente" before its INSERT
    lease,      \* lease_token; 0 is NULL, n is the n-th token drawn for the row
    intentos,   \* intentos
    motivo,     \* error_motivo, by the code path that wrote it
    vencido,    \* updated_at < NOW() - WATCHDOG_STALE_MINUTES
    arriendos,  \* how many lease tokens were drawn for the row (uuid4 never repeats)
    resultado,  \* 0: no row in resultados_extraccion; n: inserted under token n
    campos,     \* who wrote campos_extraidos last
    archivo,    \* documents whose file is in the storage directory
    fase,       \* where each worker's loop is
    doc,        \* doc_id in the worker's local variables, 0 when idle
    token,      \* lease_token in the worker's local variables, 0 when none
    pool,       \* the worker's ProcessPoolExecutor
    revision    \* what an open review request has read

filas == <<estado, lease, intentos, motivo, vencido, arriendos>>
resultados == <<resultado, campos>>
locales == <<fase, doc, token>>
vars == <<filas, resultados, archivo, locales, pool, revision>>

Estados == {"pendiente", "procesando", "completado",
            "requiere_revision_manual", "error", "error_permanente"}
Extraidos == {"completado", "requiere_revision_manual"}
Terminales == Extraidos \union {"error", "error_permanente"}

SinRevision == [doc |-> 0, visto |-> "ausente"]

Init ==
    /\ estado = [d \in Documentos |-> "ausente"]
    /\ lease = [d \in Documentos |-> 0]
    /\ intentos = [d \in Documentos |-> 0]
    /\ motivo = [d \in Documentos |-> "ninguno"]
    /\ vencido = [d \in Documentos |-> FALSE]
    /\ arriendos = [d \in Documentos |-> 0]
    /\ resultado = [d \in Documentos |-> 0]
    /\ campos = [d \in Documentos |-> "ninguno"]
    /\ archivo = {}
    /\ fase = [w \in Trabajadores |-> "libre"]
    /\ doc = [w \in Trabajadores |-> 0]
    /\ token = [w \in Trabajadores |-> 0]
    /\ pool = [w \in Trabajadores |-> "sano"]
    /\ revision = [r \in Revisores |-> SinRevision]

-----------------------------------------------------------------------------
(* Upload: cargar_documento.  The file is written first, the row committed  *)
(* afterwards; a request that fails in between leaves the file behind.      *)

GuardarArchivo(d) ==
    /\ d \notin archivo
    /\ archivo' = archivo \union {d}
    /\ UNCHANGED <<filas, resultados, locales, pool, revision>>

InsertarDocumento(d) ==
    /\ d \in archivo
    /\ estado[d] = "ausente"
    /\ estado' = [estado EXCEPT ![d] = "pendiente"]
    /\ UNCHANGED <<lease, intentos, motivo, vencido, arriendos,
                   resultados, archivo, locales, pool, revision>>

-----------------------------------------------------------------------------
(* The worker's cycle: procesar_un_ciclo_outbox.                            *)

\* Row locks: a row chosen FOR UPDATE stays locked until the transaction of
\* adquirir_siguiente_documento ends.
Bloqueado(d) == \E w \in Trabajadores : fase[w] = "seleccionado" /\ doc[w] = d

\* Mutant: the SELECT without FOR UPDATE SKIP LOCKED.
Candidatos_SinBloqueo == {d \in Documentos : estado[d] = "pendiente"}

\* WHERE estado_extraccion = 'pendiente' ... SKIP LOCKED
Candidatos == {d \in Documentos : estado[d] = "pendiente" /\ ~Bloqueado(d)}

\* SELECT ... ORDER BY created_at FOR UPDATE SKIP LOCKED LIMIT 1
Seleccionar(w) ==
    /\ fase[w] = "libre"
    /\ \E d \in Candidatos :
        /\ \A e \in Candidatos : d <= e
        /\ doc' = [doc EXCEPT ![w] = d]
    /\ fase' = [fase EXCEPT ![w] = "seleccionado"]
    /\ UNCHANGED <<filas, resultados, archivo, token, pool, revision>>

\* UPDATE ... SET estado_extraccion = 'procesando', lease_token = uuid4(); COMMIT.
Arrendar(w) ==
    LET d == doc[w]
        t == arriendos[d] + 1
    IN  /\ fase[w] = "seleccionado"
        /\ estado' = [estado EXCEPT ![d] = "procesando"]
        /\ lease' = [lease EXCEPT ![d] = t]
        /\ arriendos' = [arriendos EXCEPT ![d] = t]
        /\ vencido' = [vencido EXCEPT ![d] = FALSE]
        /\ fase' = [fase EXCEPT ![w] = "ejecutando"]
        /\ token' = [token EXCEPT ![w] = t]
        /\ UNCHANGED <<intentos, motivo, resultados, archivo, doc, pool, revision>>

\* ejecutar_con_timeout returns the dictionary of the extraction.
Extraer(w) ==
    /\ fase[w] = "ejecutando"
    /\ pool[w] = "sano"
    /\ fase' = [fase EXCEPT ![w] = "extraido"]
    /\ UNCHANGED <<filas, resultados, archivo, doc, token, pool, revision>>

\* asyncio.wait_for gives up: the pool is killed and recreated, and
\* DocumentProcessingTimeoutException is raised.
ExpirarExtraccion(w) ==
    /\ fase[w] = "ejecutando"
    /\ pool[w] = "sano"
    /\ pool' = [pool EXCEPT ![w] = "sano"]
    /\ fase' = [fase EXCEPT ![w] = "fallido"]
    /\ UNCHANGED <<filas, resultados, archivo, doc, token, revision>>

\* The extraction raises, or the executor refuses the job because its child
\* has died (BrokenProcessPool).  Only a timeout recreates the pool.
FallarExtraccion(w) ==
    /\ fase[w] = "ejecutando"
    /\ fase' = [fase EXCEPT ![w] = "fallido"]
    /\ UNCHANGED <<filas, resultados, archivo, doc, token, pool, revision>>

\* The child process dies (killed for memory, a crash in a native library);
\* a job it was running fails with BrokenProcessPool.
MorirHijo(w) ==
    /\ pool[w] = "sano"
    /\ pool' = [pool EXCEPT ![w] = "roto"]
    /\ fase' = [fase EXCEPT ![w] = IF @ = "ejecutando" THEN "fallido" ELSE @]
    /\ UNCHANGED <<filas, resultados, archivo, doc, token, revision>>

\* Mutants of the fence: none at all, and the row's state instead of its token.
ArriendoVigente_SinCercado(w) == TRUE
ArriendoVigente_PorEstado(w) == estado[doc[w]] = "procesando"

\* WHERE id = :id AND lease_token = :lease_token
ArriendoVigente(w) == lease[doc[w]] = token[w]

Liberar(w) ==
    /\ fase' = [fase EXCEPT ![w] = "libre"]
    /\ doc' = [doc EXCEPT ![w] = 0]
    /\ token' = [token EXCEPT ![w] = 0]

\* Mutant: an unfenced upsert of the result.
Completar_Upsert(w) ==
    LET d == doc[w]
    IN  /\ fase[w] = "extraido"
        /\ estado' = [estado EXCEPT ![d] = "completado"]
        /\ lease' = [lease EXCEPT ![d] = 0]
        /\ motivo' = [motivo EXCEPT ![d] = "ninguno"]
        /\ vencido' = [vencido EXCEPT ![d] = FALSE]
        /\ resultado' = [resultado EXCEPT ![d] = token[w]]
        /\ campos' = [campos EXCEPT ![d] = "extraccion"]
        /\ Liberar(w)
        /\ UNCHANGED <<intentos, arriendos, archivo, pool, revision>>

\* The fenced UPDATE matches its row; the INSERT of the result and the UPDATE
\* commit together.
Completar(w) ==
    LET d == doc[w]
    IN  /\ fase[w] = "extraido"
        /\ ArriendoVigente(w)
        /\ resultado[d] = 0                 \* UNIQUE (documento_id)
        /\ estado' = [estado EXCEPT ![d] = "completado"]
        /\ lease' = [lease EXCEPT ![d] = 0]
        /\ motivo' = [motivo EXCEPT ![d] = "ninguno"]
        /\ vencido' = [vencido EXCEPT ![d] = FALSE]
        /\ resultado' = [resultado EXCEPT ![d] = token[w]]
        /\ campos' = [campos EXCEPT ![d] = "extraccion"]
        /\ Liberar(w)
        /\ UNCHANGED <<intentos, arriendos, archivo, pool, revision>>

\* Mutants: the except branches without the fence, and without lease_token = NULL.
RegistrarError_SinCercado(w) ==
    LET d == doc[w]
    IN  /\ fase[w] = "fallido"
        /\ estado' = [estado EXCEPT ![d] = "error"]
        /\ lease' = [lease EXCEPT ![d] = 0]
        /\ motivo' = [motivo EXCEPT ![d] = "fallo"]
        /\ vencido' = [vencido EXCEPT ![d] = FALSE]
        /\ Liberar(w)
        /\ UNCHANGED <<intentos, arriendos, resultados, archivo, pool, revision>>
RegistrarError_ConservaToken(w) ==
    LET d == doc[w]
    IN  /\ fase[w] = "fallido"
        /\ ArriendoVigente(w)
        /\ estado' = [estado EXCEPT ![d] = "error"]
        /\ motivo' = [motivo EXCEPT ![d] = "fallo"]
        /\ vencido' = [vencido EXCEPT ![d] = FALSE]
        /\ Liberar(w)
        /\ UNCHANGED <<lease, intentos, arriendos, resultados, archivo, pool, revision>>

\* except branches: UPDATE ... SET estado_extraccion = 'error', fenced.
RegistrarError(w) ==
    LET d == doc[w]
    IN  /\ fase[w] = "fallido"
        /\ ArriendoVigente(w)
        /\ estado' = [estado EXCEPT ![d] = "error"]
        /\ lease' = [lease EXCEPT ![d] = 0]
        /\ motivo' = [motivo EXCEPT ![d] = "fallo"]
        /\ vencido' = [vencido EXCEPT ![d] = FALSE]
        /\ Liberar(w)
        /\ UNCHANGED <<intentos, arriendos, resultados, archivo, pool, revision>>

\* rowcount = 0: rollback and return False; the except branches commit an
\* UPDATE that matched no row.
PerderArriendo(w) ==
    /\ fase[w] \in {"extraido", "fallido"}
    /\ ~ArriendoVigente(w)
    /\ Liberar(w)
    /\ UNCHANGED <<filas, resultados, archivo, pool, revision>>

\* A database error escapes procesar_un_ciclo_outbox: its transaction is
\* rolled back and loop_consumidor_outbox starts another cycle.
FallarBaseDatos(w) ==
    /\ fase[w] # "libre"
    /\ Liberar(w)
    /\ UNCHANGED <<filas, resultados, archivo, pool, revision>>

\* The worker process stops or is killed, and its container restarts it with
\* an idle loop and a new pool.
Reiniciar(w) ==
    /\ fase[w] # "libre" \/ pool[w] = "roto"
    /\ pool' = [pool EXCEPT ![w] = "sano"]
    /\ Liberar(w)
    /\ UNCHANGED <<filas, resultados, archivo, revision>>

Trabajador(w) ==
    \/ Seleccionar(w)
    \/ Arrendar(w)
    \/ Extraer(w)
    \/ ExpirarExtraccion(w)
    \/ FallarExtraccion(w)
    \/ Completar(w)
    \/ RegistrarError(w)
    \/ PerderArriendo(w)

-----------------------------------------------------------------------------
(* The watchdog: ejecutar_watchdog_rescate, one UPDATE over all stale rows. *)

\* More than WATCHDOG_STALE_MINUTES pass after the row was leased.
Vencer(d) ==
    /\ estado[d] = "procesando"
    /\ ~vencido[d]
    /\ vencido' = [vencido EXCEPT ![d] = TRUE]
    /\ UNCHANGED <<estado, lease, intentos, motivo, arriendos,
                   resultados, archivo, locales, pool, revision>>

\* Mutant: the rescue skips the rows that have no attempt left.
Estancados_ConIntentos ==
    {d \in Documentos : /\ estado[d] = "procesando" /\ vencido[d]
                        /\ intentos[d] + 1 < MaxIntentos}

Estancados == {d \in Documentos : estado[d] = "procesando" /\ vencido[d]}

\* Mutant: > for >=.
Agotado_UnoDeMas(d) == intentos[d] + 1 > MaxIntentos

Agotado(d) == intentos[d] + 1 >= MaxIntentos

Rescatar ==
    /\ Estancados # {}
    /\ estado' = [d \in Documentos |->
                    IF d \notin Estancados THEN estado[d]
                    ELSE IF Agotado(d) THEN "error_permanente" ELSE "pendiente"]
    /\ intentos' = [d \in Documentos |->
                    IF d \in Estancados THEN intentos[d] + 1 ELSE intentos[d]]
    /\ lease' = [d \in Documentos |-> IF d \in Estancados THEN 0 ELSE lease[d]]
    /\ motivo' = [d \in Documentos |->
                    IF d \in Estancados /\ Agotado(d) THEN "max_intentos" ELSE motivo[d]]
    /\ vencido' = [d \in Documentos |-> IF d \in Estancados THEN FALSE ELSE vencido[d]]
    /\ UNCHANGED <<arriendos, resultados, archivo, locales, pool, revision>>

-----------------------------------------------------------------------------
(* Review: revisar_campos_documento reads the row and its result, and       *)
(* commits only the columns whose value it changed.                         *)

\* SELECT of the row, then selectinload of its result: a result that commits
\* between the two is found for a row read while it was still 'procesando'.
AbrirRevision(r, d) ==
    /\ revision[r] = SinRevision
    /\ resultado[d] # 0
    /\ \E visto \in {estado[d], "procesando"} :
        revision' = [revision EXCEPT ![r] = [doc |-> d, visto |-> visto]]
    /\ UNCHANGED <<filas, resultados, archivo, locales, pool>>

\* Mutant: `if payload.estado_extraccion` is missing.
ConfirmarRevision_SinOmitir(r, pedido) ==
    LET d == revision[r].doc
    IN  /\ revision[r] # SinRevision
        /\ pedido \in Extraidos \union {"omitido"}
        /\ campos' = [campos EXCEPT ![d] = r]
        /\ estado' = [estado EXCEPT ![d] = pedido]
        /\ revision' = [revision EXCEPT ![r] = SinRevision]
        /\ UNCHANGED <<lease, intentos, motivo, vencido, arriendos, resultado,
                       archivo, locales, pool>>

\* `pedido` is payload.estado_extraccion; "omitido" when the field is absent.
ConfirmarRevision(r, pedido) ==
    LET d == revision[r].doc
    IN  /\ revision[r] # SinRevision
        /\ pedido \in Extraidos \union {"omitido"}
        /\ campos' = [campos EXCEPT ![d] = r]
        /\ estado' = IF pedido \in {"omitido", revision[r].visto}
                     THEN estado
                     ELSE [estado EXCEPT ![d] = pedido]
        /\ revision' = [revision EXCEPT ![r] = SinRevision]
        /\ UNCHANGED <<lease, intentos, motivo, vencido, arriendos, resultado,
                       archivo, locales, pool>>

\* Any other requested state: 422, and get_db rolls the assignments back.
RechazarRevision(r) ==
    /\ revision[r] # SinRevision
    /\ revision' = [revision EXCEPT ![r] = SinRevision]
    /\ UNCHANGED <<filas, resultados, archivo, locales, pool>>

-----------------------------------------------------------------------------
Next ==
    \/ \E d \in Documentos : GuardarArchivo(d) \/ InsertarDocumento(d) \/ Vencer(d)
    \/ \E w \in Trabajadores :
        Trabajador(w) \/ MorirHijo(w) \/ FallarBaseDatos(w) \/ Reiniciar(w)
    \/ Rescatar
    \/ \E r \in Revisores :
        \/ \E d \in Documentos : AbrirRevision(r, d)
        \/ \E p \in Extraidos \union {"omitido"} : ConfirmarRevision(r, p)
        \/ RechazarRevision(r)

Spec == Init /\ [][Next]_vars

\* The loops of worker_entrypoint keep running: an idle worker polls, time
\* passes, the watchdog wakes up.  A worker that restarts again and again gets
\* through the two statements of adquirir_siguiente_documento at some time.
Equidad ==
    /\ \A w \in Trabajadores :
        /\ WF_vars(Trabajador(w))
        /\ SF_vars(Arrendar(w))
    /\ \A d \in Documentos : WF_vars(Vencer(d))
    /\ WF_vars(Rescatar)

FairSpec == Spec /\ Equidad
-----------------------------------------------------------------------------
(* Properties.                                                              *)

\* Every column and local variable keeps its type.
TypeOK ==
    /\ estado \in [Documentos -> Estados \union {"ausente"}]
    /\ lease \in [Documentos -> Nat]
    /\ intentos \in [Documentos -> Nat]
    /\ motivo \in [Documentos -> {"ninguno", "fallo", "max_intentos"}]
    /\ vencido \in [Documentos -> BOOLEAN]
    /\ arriendos \in [Documentos -> Nat]
    /\ resultado \in [Documentos -> Nat]
    /\ campos \in [Documentos -> {"ninguno", "extraccion"} \union Revisores]
    /\ archivo \subseteq Documentos
    /\ fase \in [Trabajadores ->
                    {"libre", "seleccionado", "ejecutando", "extraido", "fallido"}]
    /\ doc \in [Trabajadores -> Documentos \union {0}]
    /\ token \in [Trabajadores -> Nat]
    /\ pool \in [Trabajadores -> {"sano", "roto"}]
    /\ revision \in [Revisores ->
                        [doc : Documentos, visto : Extraidos \union {"procesando"}]
                          \union {SinRevision}]

\* Row locks give each worker a pending row of its own: two workers between
\* SELECT ... FOR UPDATE SKIP LOCKED and their COMMIT never hold one row, and
\* nobody moves the row meanwhile.
SeleccionExclusiva ==
    \A w \in Trabajadores : fase[w] = "seleccionado" =>
        /\ estado[doc[w]] = "pendiente"
        /\ \A v \in Trabajadores \ {w} : fase[v] = "seleccionado" => doc[v] # doc[w]

\* A row carries a lease token exactly while it is being processed, and the
\* token is the last one drawn for it: no earlier holder can still match the
\* WHERE lease_token = :lease_token of a fenced UPDATE.
ArriendoCoherente ==
    \A d \in Documentos :
        /\ lease[d] # 0 <=> estado[d] = "procesando"
        /\ lease[d] # 0 => lease[d] = arriendos[d]

\* However workers stall, crash and overlap, a result exists exactly for the
\* rows that claim one, it was inserted under the last token drawn for the row,
\* and error_motivo is set exactly on the rows that failed.
ResultadoCoherente ==
    \A d \in Documentos :
        /\ resultado[d] # 0 <=> estado[d] \in Extraidos
        /\ resultado[d] # 0 => resultado[d] = arriendos[d]
        /\ campos[d] # "ninguno" <=> resultado[d] # 0
        /\ motivo[d] # "ninguno" <=> estado[d] \in {"error", "error_permanente"}

\* A document is leased at most MAX_OCR_FAILED_ATTEMPTS times over its life:
\* `intentos` counts the leases that were lost, all but the current or last one.
EjecucionesAcotadas ==
    \A d \in Documentos :
        /\ arriendos[d] <= MaxIntentos
        /\ estado[d] \in {"ausente", "pendiente", "error_permanente"}
              => arriendos[d] = intentos[d]
        /\ estado[d] \in Extraidos \union {"procesando", "error"}
              => arriendos[d] = intentos[d] + 1
        /\ estado[d] = "error_permanente" <=> intentos[d] = MaxIntentos

\* A finished document stays finished: a late worker, the watchdog or a restart
\* never reopens it, and only a review moves it between the two reviewed states.
TerminalEstable ==
    [][\A d \in Documentos : estado[d] \in Terminales =>
        \/ estado'[d] = estado[d]
        \/ estado[d] \in Extraidos /\ estado'[d] \in Extraidos]_vars

\* A late extraction never overwrites the fields a reviewer has corrected.
CorreccionNoRevertida ==
    [][\A d \in Documentos : campos[d] \in Revisores => campos'[d] \in Revisores]_vars

\* Every uploaded document reaches a final state, whatever crashes, stalls and
\* broken pools it meets on the way.
TodoDocumentoTermina ==
    \A d \in Documentos : estado[d] = "pendiente" ~> estado[d] \in Terminales

\* With workers, tokens, crashes and stalls hidden, each step on `documentos` is
\* one step of the life cycle that DocumentLifecycle promises.
Ciclo == INSTANCE DocumentLifecycle
CumpleCicloDeVida == Ciclo!Spec

\* resilient_pool.py, recrear: "Recreates an empty, clean pool ready for next
\* jobs."  After a job has failed, for whatever reason, the pool serves the next.
PoolListoTrasFallo ==
    [][\A w \in Trabajadores :
        fase[w] = "ejecutando" /\ fase'[w] = "fallido" => pool'[w] = "sano"]_vars

-----------------------------------------------------------------------------
(* The inductive invariant of DocumentOutboxProofs.                         *)

\* A busy worker works on a row, under a token that was drawn for that row.
TareaCoherente ==
    \A w \in Trabajadores :
        /\ fase[w] # "libre" => doc[w] \in Documentos
        /\ fase[w] \in {"ejecutando", "extraido", "fallido"}
              => 1 <= token[w] /\ token[w] <= arriendos[doc[w]]

\* An open review has read a row that has a result.
RevisionCoherente ==
    \A r \in Revisores : revision[r] # SinRevision =>
        /\ revision[r].doc \in Documentos
        /\ resultado[revision[r].doc] # 0

IntentosAcotados == \A d \in Documentos : intentos[d] <= MaxIntentos

IInv ==
    /\ TypeOK
    /\ SeleccionExclusiva
    /\ ArriendoCoherente
    /\ ResultadoCoherente
    /\ EjecucionesAcotadas
    /\ IntentosAcotados
    /\ TareaCoherente
    /\ RevisionCoherente
=============================================================================

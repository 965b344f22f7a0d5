------------------------ MODULE DocumentOutboxProofs -------------------------
(***************************************************************************)
(* Proofs about DocumentOutbox for every set of rows, workers and reviews  *)
(* and every MaxIntentos: its invariants, the stability of final states,   *)
(* the refinement of DocumentLifecycle, and a variant that its documents   *)
(* use up.                                                                 *)
(***************************************************************************)
EXTENDS DocumentOutbox, TLAPS

USE DocumentosAssumption, MaxIntentosAssumption, RevisoresAssumption

LEMMA InitIInv == Init => IInv
<1> SUFFICES ASSUME Init PROVE IInv
    OBVIOUS
<1>1. TypeOK
    BY DEF Init, TypeOK, Estados, Extraidos
<1>2. SeleccionExclusiva /\ TareaCoherente
    BY DEF Init, SeleccionExclusiva, TareaCoherente
<1>3. ArriendoCoherente /\ ResultadoCoherente /\ IntentosAcotados
    BY DEF Init, ArriendoCoherente, ResultadoCoherente, IntentosAcotados, Extraidos
<1>4. EjecucionesAcotadas
    BY DEF Init, EjecucionesAcotadas, Extraidos
<1>5. RevisionCoherente
    BY DEF Init, RevisionCoherente
<1> QED
    BY <1>1, <1>2, <1>3, <1>4, <1>5 DEF IInv

LEMMA CargaIInv ==
    ASSUME IInv, NEW d \in Documentos, GuardarArchivo(d) \/ InsertarDocumento(d)
    PROVE  IInv'
<1>1. CASE GuardarArchivo(d)
    BY <1>1 DEF GuardarArchivo, IInv, TypeOK, SeleccionExclusiva, ArriendoCoherente,
        ResultadoCoherente, EjecucionesAcotadas, IntentosAcotados, TareaCoherente,
        RevisionCoherente, filas, resultados, locales
<1>2. CASE InsertarDocumento(d)
  <2> USE <1>2 DEF InsertarDocumento, IInv, resultados, locales
  <2>1. TypeOK'
      BY DEF TypeOK, Estados
  <2>2. SeleccionExclusiva'
      BY DEF TypeOK, SeleccionExclusiva
  <2>3. ArriendoCoherente'
      BY DEF TypeOK, ArriendoCoherente
  <2>4. ResultadoCoherente'
      BY DEF TypeOK, ResultadoCoherente, Extraidos
  <2>5. EjecucionesAcotadas' /\ IntentosAcotados'
      BY DEF TypeOK, EjecucionesAcotadas, IntentosAcotados, Extraidos
  <2>6. TareaCoherente' /\ RevisionCoherente'
      BY DEF TareaCoherente, RevisionCoherente
  <2> QED
      BY <2>1, <2>2, <2>3, <2>4, <2>5, <2>6
<1> QED
    BY <1>1, <1>2

\* A worker whose fenced UPDATE matches holds the row that is being processed.
LEMMA ArriendoEnCurso ==
    ASSUME IInv, NEW w \in Trabajadores,
           fase[w] \in {"extraido", "fallido"}, ArriendoVigente(w)
    PROVE  /\ doc[w] \in Documentos
           /\ estado[doc[w]] = "procesando"
           /\ token[w] = arriendos[doc[w]]
           /\ token[w] \in Nat \ {0}
<1>1. /\ doc[w] \in Documentos
      /\ 1 <= token[w]
      /\ token[w] \in Nat
    BY DEF IInv, TypeOK, TareaCoherente
<1>2. lease[doc[w]] = token[w] /\ lease[doc[w]] # 0
    BY <1>1 DEF ArriendoVigente
<1> QED
    BY <1>1, <1>2 DEF IInv, ArriendoCoherente

\* A pending row has an attempt left.
LEMMA PendienteTieneIntentos ==
    ASSUME IInv, NEW d \in Documentos, estado[d] = "pendiente"
    PROVE  /\ intentos[d] \in Nat
           /\ arriendos[d] = intentos[d]
           /\ intentos[d] + 1 <= MaxIntentos
<1>1. intentos[d] \in Nat
    BY DEF IInv, TypeOK
<1>2. arriendos[d] = intentos[d] /\ intentos[d] # MaxIntentos
    BY DEF IInv, EjecucionesAcotadas
<1>3. intentos[d] <= MaxIntentos
    BY DEF IInv, IntentosAcotados
<1> QED
    BY <1>1, <1>2, <1>3, MaxIntentosAssumption

\* A review only moves its own row, between the two reviewed states.
LEMMA RevisionEntreExtraidos ==
    ASSUME IInv, NEW r \in Revisores, NEW p, ConfirmarRevision(r, p)
    PROVE  /\ revision[r].doc \in Documentos
           /\ estado[revision[r].doc] \in Extraidos
           /\ resultado[revision[r].doc] # 0
           /\ estado' \in [Documentos -> Estados \union {"ausente"}]
           /\ \A x \in Documentos :
                \/ estado'[x] = estado[x]
                \/ x = revision[r].doc /\ estado'[x] \in Extraidos
<1>1. revision[r] # SinRevision
    BY DEF ConfirmarRevision
<1>2. revision[r].doc \in Documentos /\ resultado[revision[r].doc] # 0
    BY <1>1 DEF IInv, RevisionCoherente
<1>3. estado[revision[r].doc] \in Extraidos
    BY <1>2 DEF IInv, ResultadoCoherente
<1>4. estado \in [Documentos -> Estados \union {"ausente"}]
    BY DEF IInv, TypeOK
<1>5. CASE p \in {"omitido", revision[r].visto}
  <2>1. estado' = estado
      BY <1>5 DEF ConfirmarRevision
  <2> QED
      BY <1>2, <1>3, <1>4, <2>1
<1>6. CASE p \notin {"omitido", revision[r].visto}
  <2>1. p \in Extraidos /\ estado' = [estado EXCEPT ![revision[r].doc] = p]
      BY <1>6 DEF ConfirmarRevision
  <2> QED
      BY <1>2, <1>3, <1>4, <2>1 DEF Extraidos, Estados
<1> QED
    BY <1>5, <1>6

LEMMA SeleccionarIInv ==
    ASSUME IInv, NEW w \in Trabajadores, Seleccionar(w)
    PROVE  IInv'
<1> USE DEF Seleccionar, Candidatos, Bloqueado, filas, resultados, locales
<1>1. TypeOK'
    BY DEF IInv, TypeOK, Estados, Extraidos
<1>2. SeleccionExclusiva'
    BY DEF IInv, TypeOK, SeleccionExclusiva, TareaCoherente
<1>3. ArriendoCoherente'
    BY DEF IInv, TypeOK, ArriendoCoherente
<1>4. ResultadoCoherente'
    BY DEF IInv, TypeOK, ResultadoCoherente, Extraidos
<1>5. EjecucionesAcotadas' /\ IntentosAcotados'
    BY DEF IInv, TypeOK, EjecucionesAcotadas, IntentosAcotados, Extraidos
<1>6. TareaCoherente'
    BY DEF IInv, TypeOK, TareaCoherente
<1>7. RevisionCoherente'
    BY DEF IInv, TypeOK, RevisionCoherente, ResultadoCoherente, Extraidos
<1> QED
    BY <1>1, <1>2, <1>3, <1>4, <1>5, <1>6, <1>7 DEF IInv

LEMMA ArrendarIInv ==
    ASSUME IInv, NEW w \in Trabajadores, Arrendar(w)
    PROVE  IInv'
<1> USE DEF Arrendar, filas, resultados, locales
<1> DEFINE d == doc[w]
<1>0. /\ d \in Documentos
      /\ estado[d] = "pendiente"
      /\ arriendos[d] \in Nat
      /\ \A v \in Trabajadores \ {w} : fase[v] = "seleccionado" => doc[v] # d
    BY DEF IInv, TypeOK, TareaCoherente, SeleccionExclusiva
<1>1. TypeOK'
    BY <1>0 DEF IInv, TypeOK, Estados, Extraidos
<1>2. SeleccionExclusiva'
    BY <1>0 DEF IInv, TypeOK, SeleccionExclusiva, TareaCoherente
<1>3. ArriendoCoherente'
    BY <1>0 DEF IInv, TypeOK, ArriendoCoherente
<1>4. ResultadoCoherente'
    BY <1>0 DEF IInv, TypeOK, ResultadoCoherente, Extraidos
<1>5. EjecucionesAcotadas' /\ IntentosAcotados'
  <2>1. intentos[d] \in Nat /\ arriendos[d] = intentos[d] /\ intentos[d] + 1 <= MaxIntentos
      BY <1>0, PendienteTieneIntentos
  <2> QED
      BY <1>0, <2>1 DEF IInv, TypeOK, EjecucionesAcotadas, IntentosAcotados, Extraidos
<1>6. TareaCoherente'
    BY <1>0 DEF IInv, TypeOK, TareaCoherente
<1>7. RevisionCoherente'
    BY <1>0 DEF IInv, TypeOK, RevisionCoherente, ResultadoCoherente, Extraidos
<1> QED
    BY <1>1, <1>2, <1>3, <1>4, <1>5, <1>6, <1>7 DEF IInv

LEMMA CompletarIInv ==
    ASSUME IInv, NEW w \in Trabajadores, Completar(w)
    PROVE  IInv'
<1> USE DEF Completar, Liberar, filas, resultados, locales
<1>0. /\ doc[w] \in Documentos
      /\ estado[doc[w]] = "procesando"
      /\ token[w] = arriendos[doc[w]]
      /\ token[w] \in Nat \ {0}
    BY ArriendoEnCurso
<1>1. TypeOK'
    BY <1>0 DEF IInv, TypeOK, Estados, Extraidos
<1>2. SeleccionExclusiva'
    BY <1>0 DEF IInv, TypeOK, SeleccionExclusiva, TareaCoherente
<1>3. ArriendoCoherente'
    BY <1>0 DEF IInv, TypeOK, ArriendoCoherente
<1>4. ResultadoCoherente'
    BY <1>0 DEF IInv, TypeOK, ResultadoCoherente, Extraidos
<1>5. EjecucionesAcotadas' /\ IntentosAcotados'
    BY <1>0 DEF IInv, TypeOK, EjecucionesAcotadas, IntentosAcotados, Extraidos
<1>6. TareaCoherente'
    BY <1>0 DEF IInv, TypeOK, TareaCoherente
<1>7. RevisionCoherente'
    BY <1>0 DEF IInv, TypeOK, RevisionCoherente, ResultadoCoherente, Extraidos
<1> QED
    BY <1>1, <1>2, <1>3, <1>4, <1>5, <1>6, <1>7 DEF IInv

LEMMA RegistrarErrorIInv ==
    ASSUME IInv, NEW w \in Trabajadores, RegistrarError(w)
    PROVE  IInv'
<1> USE DEF RegistrarError, Liberar, filas, resultados, locales
<1>0. /\ doc[w] \in Documentos
      /\ estado[doc[w]] = "procesando"
      /\ token[w] = arriendos[doc[w]]
      /\ token[w] \in Nat \ {0}
    BY ArriendoEnCurso
<1>1. TypeOK'
    BY <1>0 DEF IInv, TypeOK, Estados, Extraidos
<1>2. SeleccionExclusiva'
    BY <1>0 DEF IInv, TypeOK, SeleccionExclusiva, TareaCoherente
<1>3. ArriendoCoherente'
    BY <1>0 DEF IInv, TypeOK, ArriendoCoherente
<1>4. ResultadoCoherente'
    BY <1>0 DEF IInv, TypeOK, ResultadoCoherente, Extraidos
<1>5. EjecucionesAcotadas' /\ IntentosAcotados'
    BY <1>0 DEF IInv, TypeOK, EjecucionesAcotadas, IntentosAcotados, Extraidos
<1>6. TareaCoherente'
    BY <1>0 DEF IInv, TypeOK, TareaCoherente
<1>7. RevisionCoherente'
    BY <1>0 DEF IInv, TypeOK, RevisionCoherente, ResultadoCoherente, Extraidos
<1> QED
    BY <1>1, <1>2, <1>3, <1>4, <1>5, <1>6, <1>7 DEF IInv

LEMMA RescatarIInv ==
    ASSUME IInv, Rescatar
    PROVE  IInv'
<1> USE DEF Rescatar, Estancados, Agotado, filas, resultados, locales
<1>1. TypeOK'
  <2>1. estado' \in [Documentos -> Estados \union {"ausente"}]
      BY DEF IInv, TypeOK, Estados
  <2>2. intentos' \in [Documentos -> Nat] /\ lease' \in [Documentos -> Nat]
      BY DEF IInv, TypeOK
  <2>3. /\ motivo' \in [Documentos -> {"ninguno", "fallo", "max_intentos"}]
        /\ vencido' \in [Documentos -> BOOLEAN]
      BY DEF IInv, TypeOK
  <2> QED
      BY <2>1, <2>2, <2>3 DEF IInv, TypeOK
<1>2. SeleccionExclusiva'
    BY DEF IInv, TypeOK, SeleccionExclusiva, TareaCoherente
<1>3. ArriendoCoherente'
    BY DEF IInv, TypeOK, ArriendoCoherente
<1>4. ResultadoCoherente'
    BY DEF IInv, TypeOK, ResultadoCoherente, Extraidos
<1>5. EjecucionesAcotadas' /\ IntentosAcotados'
    BY DEF IInv, TypeOK, EjecucionesAcotadas, IntentosAcotados, Extraidos
<1>6. TareaCoherente'
    BY DEF IInv, TypeOK, TareaCoherente
<1>7. RevisionCoherente'
    BY DEF IInv, TypeOK, RevisionCoherente, ResultadoCoherente, Extraidos
<1> QED
    BY <1>1, <1>2, <1>3, <1>4, <1>5, <1>6, <1>7 DEF IInv

LEMMA AbrirRevisionIInv ==
    ASSUME IInv, NEW r \in Revisores, NEW d \in Documentos, AbrirRevision(r, d)
    PROVE  IInv'
<1> USE DEF AbrirRevision, SinRevision, filas, resultados, locales
<1>0. estado[d] \in Extraidos
    BY DEF IInv, ResultadoCoherente
<1>1. TypeOK'
    BY <1>0 DEF IInv, TypeOK, Estados, Extraidos
<1>2. SeleccionExclusiva'
    BY <1>0 DEF IInv, TypeOK, SeleccionExclusiva, TareaCoherente
<1>3. ArriendoCoherente'
    BY <1>0 DEF IInv, TypeOK, ArriendoCoherente
<1>4. ResultadoCoherente'
    BY <1>0 DEF IInv, TypeOK, ResultadoCoherente, Extraidos
<1>5. EjecucionesAcotadas' /\ IntentosAcotados'
    BY <1>0 DEF IInv, TypeOK, EjecucionesAcotadas, IntentosAcotados, Extraidos
<1>6. TareaCoherente'
    BY <1>0 DEF IInv, TypeOK, TareaCoherente
<1>7. RevisionCoherente'
    BY <1>0 DEF IInv, TypeOK, RevisionCoherente, ResultadoCoherente, Extraidos
<1> QED
    BY <1>1, <1>2, <1>3, <1>4, <1>5, <1>6, <1>7 DEF IInv

LEMMA ConfirmarRevisionIInv ==
    ASSUME IInv, NEW r \in Revisores, NEW p, ConfirmarRevision(r, p)
    PROVE  IInv'
<1> DEFINE d == revision[r].doc
<1>1. /\ d \in Documentos /\ resultado[d] # 0 /\ estado[d] \in Extraidos
      /\ estado' \in [Documentos -> Estados \union {"ausente"}]
      /\ \A x \in Documentos : \/ estado'[x] = estado[x]
                               \/ x = d /\ estado'[x] \in Extraidos
    BY RevisionEntreExtraidos
<1>2. /\ campos' = [campos EXCEPT ![d] = r]
      /\ revision' = [revision EXCEPT ![r] = SinRevision]
      /\ UNCHANGED <<lease, intentos, motivo, vencido, arriendos, resultado,
                     archivo, fase, doc, token, pool>>
    BY DEF ConfirmarRevision, locales
<1> HIDE DEF d
<1>3. TypeOK'
    BY <1>1, <1>2 DEF IInv, TypeOK
<1>4. SeleccionExclusiva' /\ TareaCoherente'
    BY <1>1, <1>2 DEF IInv, SeleccionExclusiva, TareaCoherente, Extraidos
<1>5. ArriendoCoherente'
    BY <1>1, <1>2 DEF IInv, ArriendoCoherente, Extraidos
<1>6. ResultadoCoherente'
    BY <1>1, <1>2, RevisoresAssumption DEF IInv, TypeOK, ResultadoCoherente, Extraidos
<1>7. EjecucionesAcotadas' /\ IntentosAcotados'
    BY <1>1, <1>2 DEF IInv, TypeOK, EjecucionesAcotadas, IntentosAcotados, Extraidos
<1>8. RevisionCoherente'
    BY <1>1, <1>2 DEF IInv, TypeOK, RevisionCoherente, SinRevision
<1> QED
    BY <1>3, <1>4, <1>5, <1>6, <1>7, <1>8 DEF IInv

\* Steps that move only one worker's local state, its pool or the stale flag.
LEMMA LocalIInv ==
    ASSUME IInv, NEW w \in Trabajadores,
           \/ Extraer(w) \/ ExpirarExtraccion(w) \/ FallarExtraccion(w) \/ MorirHijo(w)
           \/ PerderArriendo(w) \/ FallarBaseDatos(w) \/ Reiniciar(w)
    PROVE  IInv'
<1>1. /\ UNCHANGED <<filas, resultados, archivo, revision>>
      /\ pool' \in [Trabajadores -> {"sano", "roto"}]
    BY DEF IInv, TypeOK, Extraer, ExpirarExtraccion, FallarExtraccion, MorirHijo,
           PerderArriendo, FallarBaseDatos, Reiniciar
<1>2. \/ UNCHANGED <<fase, doc, token>>
      \/ /\ fase[w] = "ejecutando"
         /\ \E f \in {"extraido", "fallido"} : fase' = [fase EXCEPT ![w] = f]
         /\ UNCHANGED <<doc, token>>
      \/ Liberar(w)
  <2>1. CASE MorirHijo(w)
      BY <2>1 DEF MorirHijo, IInv, TypeOK
  <2>2. CASE Extraer(w) \/ ExpirarExtraccion(w) \/ FallarExtraccion(w)
      BY <2>2 DEF Extraer, ExpirarExtraccion, FallarExtraccion
  <2>3. CASE PerderArriendo(w) \/ FallarBaseDatos(w) \/ Reiniciar(w)
      BY <2>3 DEF PerderArriendo, FallarBaseDatos, Reiniciar
  <2> QED
      BY <2>1, <2>2, <2>3
<1>3. TypeOK'
    BY <1>1, <1>2 DEF IInv, TypeOK, filas, resultados, Liberar
<1>4. SeleccionExclusiva'
    BY <1>1, <1>2 DEF IInv, TypeOK, SeleccionExclusiva, filas, Liberar
<1>5. TareaCoherente'
    BY <1>1, <1>2 DEF IInv, TypeOK, TareaCoherente, filas, Liberar
<1>6. ArriendoCoherente' /\ ResultadoCoherente' /\ EjecucionesAcotadas' /\ IntentosAcotados'
    BY <1>1 DEF IInv, ArriendoCoherente, ResultadoCoherente, EjecucionesAcotadas,
                IntentosAcotados, filas, resultados
<1>7. RevisionCoherente'
    BY <1>1 DEF IInv, RevisionCoherente, resultados
<1> QED
    BY <1>3, <1>4, <1>5, <1>6, <1>7 DEF IInv

LEMMA VencerIInv ==
    ASSUME IInv, NEW d \in Documentos, Vencer(d)
    PROVE  IInv'
<1>1. /\ vencido' \in [Documentos -> BOOLEAN]
      /\ UNCHANGED <<estado, lease, intentos, motivo, arriendos, resultado, campos,
                     archivo, fase, doc, token, pool, revision>>
    BY DEF IInv, TypeOK, Vencer, resultados, locales
<1> QED
    BY <1>1 DEF IInv, TypeOK, SeleccionExclusiva, ArriendoCoherente, ResultadoCoherente,
        EjecucionesAcotadas, IntentosAcotados, TareaCoherente, RevisionCoherente

LEMMA RechazarRevisionIInv ==
    ASSUME IInv, NEW r \in Revisores, RechazarRevision(r)
    PROVE  IInv'
<1>1. /\ revision' = [revision EXCEPT ![r] = SinRevision]
      /\ UNCHANGED <<estado, lease, intentos, motivo, vencido, arriendos, resultado, campos,
                     archivo, fase, doc, token, pool>>
    BY DEF RechazarRevision, filas, resultados, locales
<1>2. TypeOK'
    BY <1>1 DEF IInv, TypeOK
<1>3. RevisionCoherente'
    BY <1>1 DEF IInv, TypeOK, RevisionCoherente, SinRevision
<1>4. SeleccionExclusiva' /\ ArriendoCoherente'
    BY <1>1 DEF IInv, SeleccionExclusiva, ArriendoCoherente
<1>5. ResultadoCoherente' /\ EjecucionesAcotadas'
    BY <1>1 DEF IInv, ResultadoCoherente, EjecucionesAcotadas
<1>6. IntentosAcotados' /\ TareaCoherente'
    BY <1>1 DEF IInv, IntentosAcotados, TareaCoherente
<1> QED
    BY <1>2, <1>3, <1>4, <1>5, <1>6 DEF IInv

LEMMA StutterIInv == ASSUME IInv, UNCHANGED vars PROVE IInv'
    BY DEF vars, filas, resultados, locales, IInv, TypeOK, SeleccionExclusiva, ArriendoCoherente,
        ResultadoCoherente, EjecucionesAcotadas, IntentosAcotados, TareaCoherente,
        RevisionCoherente

LEMMA NextIInv == IInv /\ [Next]_vars => IInv'
<1> SUFFICES ASSUME IInv, [Next]_vars PROVE IInv'
    OBVIOUS
<1>1. ASSUME NEW d \in Documentos, GuardarArchivo(d) \/ InsertarDocumento(d) PROVE IInv'
    BY <1>1, CargaIInv
<1>2. ASSUME NEW d \in Documentos, Vencer(d) PROVE IInv'
    BY <1>2, VencerIInv
<1>3. ASSUME NEW w \in Trabajadores, Seleccionar(w) PROVE IInv'
    BY <1>3, SeleccionarIInv
<1>4. ASSUME NEW w \in Trabajadores, Arrendar(w) PROVE IInv'
    BY <1>4, ArrendarIInv
<1>5. ASSUME NEW w \in Trabajadores, Completar(w) PROVE IInv'
    BY <1>5, CompletarIInv
<1>6. ASSUME NEW w \in Trabajadores, RegistrarError(w) PROVE IInv'
    BY <1>6, RegistrarErrorIInv
<1>7. ASSUME NEW w \in Trabajadores,
             \/ Extraer(w) \/ ExpirarExtraccion(w) \/ FallarExtraccion(w) \/ MorirHijo(w)
             \/ PerderArriendo(w) \/ FallarBaseDatos(w) \/ Reiniciar(w)
      PROVE  IInv'
    BY <1>7, LocalIInv
<1>8. CASE Rescatar
    BY <1>8, RescatarIInv
<1>9. ASSUME NEW r \in Revisores, NEW d \in Documentos, AbrirRevision(r, d) PROVE IInv'
    BY <1>9, AbrirRevisionIInv
<1>10. ASSUME NEW r \in Revisores, NEW p, ConfirmarRevision(r, p) PROVE IInv'
    BY <1>10, ConfirmarRevisionIInv
<1>11. ASSUME NEW r \in Revisores, RechazarRevision(r) PROVE IInv'
    BY <1>11, RechazarRevisionIInv
<1>12. CASE UNCHANGED vars
    BY <1>12, StutterIInv
<1> QED
    BY <1>1, <1>2, <1>3, <1>4, <1>5, <1>6, <1>7, <1>8, <1>9, <1>10, <1>11, <1>12
       DEF Next, Trabajador

\* The inductive invariant holds in every reachable state.
THEOREM Invariante == Spec => []IInv
<1>1. Init => IInv
    BY InitIInv
<1>2. IInv /\ [Next]_vars => IInv'
    BY NextIInv
<1> QED
    BY <1>1, <1>2, PTL DEF Spec

\* Every column and every local variable of a worker keeps its type.
THEOREM TipoCorrecto == Spec => []TypeOK
<1>1. IInv => TypeOK
    BY DEF IInv
<1> QED
    BY <1>1, Invariante, PTL

\* FOR UPDATE SKIP LOCKED gives each worker a pending row of its own.
THEOREM SeleccionSegura == Spec => []SeleccionExclusiva
<1>1. IInv => SeleccionExclusiva
    BY DEF IInv
<1> QED
    BY <1>1, Invariante, PTL

\* A row carries a token exactly while it is processed, and it is the last one
\* drawn: no earlier holder can commit.
THEOREM CercadoSeguro == Spec => []ArriendoCoherente
<1>1. IInv => ArriendoCoherente
    BY DEF IInv
<1> QED
    BY <1>1, Invariante, PTL

\* Results exist exactly for the rows that claim one, written under the last token.
THEOREM ResultadoSeguro == Spec => []ResultadoCoherente
<1>1. IInv => ResultadoCoherente
    BY DEF IInv
<1> QED
    BY <1>1, Invariante, PTL

\* No document is leased more than MaxIntentos times.
THEOREM EjecucionesSeguras == Spec => []EjecucionesAcotadas
<1>1. IInv => EjecucionesAcotadas
    BY DEF IInv
<1> QED
    BY <1>1, Invariante, PTL

-----------------------------------------------------------------------------
(* DocumentOutbox implements DocumentLifecycle.                             *)

LEMMA InitCiclo == Init => Ciclo!Init
    BY DEF Init, Ciclo!Init

LEMMA CompletarCiclo ==
    ASSUME IInv, NEW w \in Trabajadores, Completar(w)
    PROVE  Ciclo!Next
<1> DEFINE d == doc[w]
<1>1. d \in Documentos /\ estado[d] = "procesando"
    BY ArriendoEnCurso DEF Completar
<1>2. campos[d] = "ninguno"
    BY <1>1 DEF IInv, ResultadoCoherente, Extraidos
<1>3. Ciclo!Extraer(d)
    BY <1>1, <1>2 DEF Completar, Ciclo!Extraer
<1> QED
    BY <1>1, <1>3 DEF Ciclo!Next

LEMMA RescatarCiclo == ASSUME IInv, Rescatar PROVE Ciclo!Next
<1>1. Estancados \in SUBSET Documentos
    BY DEF Estancados
<1>2. ASSUME NEW d \in Estancados
      PROVE  /\ d \in Documentos /\ estado[d] = "procesando"
             /\ intentos[d] \in Nat /\ intentos[d] + 1 <= MaxIntentos
  <2>1. d \in Documentos /\ estado[d] = "procesando" /\ intentos[d] \in Nat
      BY <1>2 DEF Estancados, IInv, TypeOK
  <2>2. arriendos[d] = intentos[d] + 1 /\ arriendos[d] <= MaxIntentos
      BY <2>1 DEF IInv, EjecucionesAcotadas
  <2> QED
      BY <2>1, <2>2
<1>3. \A d \in Estancados : estado[d] = "procesando" /\ intentos[d] < MaxIntentos
    BY <1>2, MaxIntentosAssumption
<1>4. intentos' = [d \in Documentos |->
                     IF d \in Estancados THEN intentos[d] + 1 ELSE intentos[d]]
    BY DEF Rescatar
<1>5. \A d \in Estancados : Agotado(d) <=> intentos'[d] = MaxIntentos
    BY <1>2, <1>4, MaxIntentosAssumption DEF Agotado
<1>6. estado' = [d \in Documentos |->
                    IF d \notin Estancados THEN estado[d]
                    ELSE IF intentos'[d] = MaxIntentos THEN "error_permanente"
                    ELSE "pendiente"]
    BY <1>5 DEF Rescatar
<1>7. Estancados # {} /\ UNCHANGED campos
    BY DEF Rescatar, resultados
<1>8. Ciclo!Devolver(Estancados)
    BY <1>3, <1>4, <1>6, <1>7 DEF Ciclo!Devolver
<1> QED
    BY <1>1, <1>8 DEF Ciclo!Next

LEMMA ConfirmarRevisionCiclo ==
    ASSUME IInv, NEW r \in Revisores, NEW p, ConfirmarRevision(r, p)
    PROVE  Ciclo!Next
<1> DEFINE d == revision[r].doc
<1>1. /\ d \in Documentos /\ estado[d] \in Extraidos
      /\ estado' \in [Documentos -> Estados \union {"ausente"}]
      /\ \A x \in Documentos : \/ estado'[x] = estado[x]
                               \/ x = d /\ estado'[x] \in Extraidos
    BY RevisionEntreExtraidos
<1>2. campos' = [campos EXCEPT ![d] = r] /\ UNCHANGED intentos
    BY DEF ConfirmarRevision
<1>3. estado \in [Documentos -> Estados \union {"ausente"}]
    BY DEF IInv, TypeOK
<1> HIDE DEF d
<1>4. estado'[d] \in Extraidos /\ estado' = [estado EXCEPT ![d] = estado'[d]]
    BY <1>1, <1>3
<1>5. Ciclo!Corregir(d, r)
    BY <1>1, <1>2, <1>4 DEF Ciclo!Corregir, Ciclo!Extraidos, Extraidos
<1> QED
    BY <1>1, <1>5 DEF Ciclo!Next

\* Every step is a step of the life cycle, or leaves the row's public columns alone.
LEMMA PasoCiclo == ASSUME IInv, [Next]_vars PROVE [Ciclo!Next]_(Ciclo!vars)
<1>1. ASSUME NEW d \in Documentos, InsertarDocumento(d) PROVE Ciclo!Next
  <2>1. Ciclo!Ingresar(d)
      BY <1>1 DEF InsertarDocumento, Ciclo!Ingresar, resultados
  <2> QED
      BY <2>1 DEF Ciclo!Next
<1>2. ASSUME NEW w \in Trabajadores, Arrendar(w) PROVE Ciclo!Next
  <2>1. doc[w] \in Documentos /\ estado[doc[w]] = "pendiente"
      BY <1>2 DEF Arrendar, IInv, SeleccionExclusiva, TareaCoherente
  <2>2. Ciclo!Tomar(doc[w])
      BY <1>2, <2>1 DEF Arrendar, Ciclo!Tomar, resultados
  <2> QED
      BY <2>1, <2>2 DEF Ciclo!Next
<1>3. ASSUME NEW w \in Trabajadores, RegistrarError(w) PROVE Ciclo!Next
  <2>1. doc[w] \in Documentos /\ estado[doc[w]] = "procesando"
      BY <1>3, ArriendoEnCurso DEF RegistrarError
  <2>2. Ciclo!Fallar(doc[w])
      BY <1>3, <2>1 DEF RegistrarError, Ciclo!Fallar, resultados
  <2> QED
      BY <2>1, <2>2 DEF Ciclo!Next
<1>4. ASSUME NEW d \in Documentos, GuardarArchivo(d) \/ Vencer(d) PROVE UNCHANGED Ciclo!vars
    BY <1>4 DEF GuardarArchivo, Vencer, filas, resultados, Ciclo!vars
<1>5. ASSUME NEW w \in Trabajadores,
             \/ Seleccionar(w) \/ Extraer(w) \/ ExpirarExtraccion(w) \/ FallarExtraccion(w)
             \/ PerderArriendo(w) \/ MorirHijo(w) \/ FallarBaseDatos(w) \/ Reiniciar(w)
      PROVE  UNCHANGED Ciclo!vars
    BY <1>5 DEF Seleccionar, Extraer, ExpirarExtraccion, FallarExtraccion, PerderArriendo,
        MorirHijo, FallarBaseDatos, Reiniciar, filas, resultados, Ciclo!vars
<1>6. ASSUME NEW r \in Revisores, (\E d \in Documentos : AbrirRevision(r, d)) \/ RechazarRevision(r)
      PROVE  UNCHANGED Ciclo!vars
    BY <1>6 DEF AbrirRevision, RechazarRevision, filas, resultados, Ciclo!vars
<1>7. CASE UNCHANGED vars
    BY <1>7 DEF vars, filas, resultados, Ciclo!vars
<1> QED
    BY <1>1, <1>2, <1>3, <1>4, <1>5, <1>6, <1>7,
       CompletarCiclo, RescatarCiclo, ConfirmarRevisionCiclo DEF Next, Trabajador

\* DocumentOutbox implements DocumentLifecycle.
THEOREM Refinamiento == Spec => CumpleCicloDeVida
<1>1. Init => Ciclo!Init
    BY InitCiclo
<1>2. IInv /\ [Next]_vars => [Ciclo!Next]_(Ciclo!vars)
    BY PasoCiclo
<1> QED
    BY <1>1, <1>2, Invariante, PTL DEF Spec, CumpleCicloDeVida, Ciclo!Spec

\* A finished document stays finished: only a review moves it, between the two
\* reviewed states.
THEOREM TerminalSeguro == Spec => TerminalEstable
<1>1. ASSUME IInv, [Next]_vars, NEW d \in Documentos, estado[d] \in Terminales
      PROVE  estado'[d] = estado[d] \/ (estado[d] \in Extraidos /\ estado'[d] \in Extraidos)
  <2>1. [Ciclo!Next]_(Ciclo!vars)
      BY <1>1, PasoCiclo
  <2>2. estado \in [Documentos -> Estados \union {"ausente"}]
      BY <1>1 DEF IInv, TypeOK
  <2> QED
      BY <1>1, <2>1, <2>2 DEF Ciclo!Next, Ciclo!vars, Ciclo!Ingresar, Ciclo!Tomar, Ciclo!Extraer,
          Ciclo!Fallar, Ciclo!Devolver, Ciclo!Corregir, Ciclo!Extraidos, Extraidos, Terminales
<1>2. IInv /\ [Next]_vars =>
        [\A d \in Documentos : estado[d] \in Terminales =>
            \/ estado'[d] = estado[d]
            \/ estado[d] \in Extraidos /\ estado'[d] \in Extraidos]_vars
    BY <1>1
<1> QED
    BY <1>2, Invariante, PTL DEF Spec, TerminalEstable

\* A late extraction never overwrites the fields a reviewer has corrected.
THEOREM CorreccionSegura == Spec => CorreccionNoRevertida
<1>1. ASSUME IInv, [Next]_vars, NEW d \in Documentos, campos[d] \in Revisores
      PROVE  campos'[d] \in Revisores
  <2>1. [Ciclo!Next]_(Ciclo!vars)
      BY <1>1, PasoCiclo
  <2>2. campos \in [Documentos -> {"ninguno", "extraccion"} \union Revisores]
      BY <1>1 DEF IInv, TypeOK
  <2> QED
      BY <1>1, <2>1, <2>2, RevisoresAssumption DEF Ciclo!Next, Ciclo!vars, Ciclo!Ingresar,
          Ciclo!Tomar, Ciclo!Extraer, Ciclo!Fallar, Ciclo!Devolver, Ciclo!Corregir
<1>2. IInv /\ [Next]_vars =>
        [\A d \in Documentos : campos[d] \in Revisores => campos'[d] \in Revisores]_vars
    BY <1>1
<1> QED
    BY <1>2, Invariante, PTL DEF Spec, CorreccionNoRevertida
-----------------------------------------------------------------------------
(* Progress.                                                                *)

\* How many changes of state a document can still go through before it ends.
Pasos(e, n) ==
    IF e = "ausente" THEN 2 * (MaxIntentos - n) + 1
    ELSE IF e = "pendiente" THEN 2 * (MaxIntentos - n)
    ELSE IF e = "procesando" THEN 2 * (MaxIntentos - n) - 1
    ELSE 0

PasosRestantes(d) == Pasos(estado[d], intentos[d])

\* The variant: whatever workers, watchdog and reviewers do, each change of the state of
\* a document that has not ended uses up one of the steps it has left, and nothing gives
\* one back; a document has at most 2 * MaxIntentos from its upload on.
Avanza(d) ==
    /\ PasosRestantes(d)' <= PasosRestantes(d)
    /\ estado[d] \notin Terminales /\ estado'[d] # estado[d] =>
            PasosRestantes(d)' < PasosRestantes(d)

LEMMA PasoAvanza ==
    ASSUME IInv, IInv', [Next]_vars, NEW d \in Documentos
    PROVE  Avanza(d)
<1>1. /\ estado \in [Documentos -> Estados \union {"ausente"}]
      /\ intentos[d] \in Nat /\ intentos'[d] \in Nat
      /\ intentos[d] <= MaxIntentos /\ intentos'[d] <= MaxIntentos
      /\ DOMAIN intentos = Documentos
    BY DEF IInv, TypeOK, IntentosAcotados
<1>2. [Ciclo!Next]_(Ciclo!vars)
    BY PasoCiclo
<1>3. estado[d] = "procesando" => intentos[d] + 1 <= MaxIntentos
  <2>1. estado[d] = "procesando" => arriendos[d] = intentos[d] + 1 /\ arriendos[d] <= MaxIntentos
      BY DEF IInv, EjecucionesAcotadas
  <2> QED
      BY <2>1
<1>4. \/ estado'[d] = estado[d] /\ intentos'[d] = intentos[d]
      \/ estado[d] = "ausente" /\ estado'[d] = "pendiente" /\ intentos'[d] = intentos[d]
      \/ estado[d] = "pendiente" /\ estado'[d] = "procesando" /\ intentos'[d] = intentos[d]
      \/ /\ estado[d] = "procesando" /\ estado'[d] \in {"completado", "error"}
         /\ intentos'[d] = intentos[d]
      \/ /\ estado[d] = "procesando" /\ estado'[d] \in {"pendiente", "error_permanente"}
         /\ intentos[d] < MaxIntentos /\ intentos'[d] = intentos[d] + 1
      \/ estado[d] \in Extraidos /\ estado'[d] \in Extraidos
    BY <1>1, <1>2 DEF Ciclo!Next, Ciclo!vars, Ciclo!Ingresar, Ciclo!Tomar, Ciclo!Extraer,
       Ciclo!Fallar, Ciclo!Devolver, Ciclo!Corregir, Ciclo!Extraidos, Extraidos
<1> QED
    BY <1>1, <1>3, <1>4, MaxIntentosAssumption
    DEF Avanza, PasosRestantes, Pasos, Terminales, Extraidos

\* Every document makes progress, or rests: its changes of state are bounded before it
\* ends.  With the fairness of the loops this is what TodoDocumentoTermina rests on.
THEOREM ProgresoSeguro == Spec => [][\A d \in Documentos : Avanza(d)]_vars
<1>1. IInv /\ IInv' /\ [Next]_vars => [\A d \in Documentos : Avanza(d)]_vars
    BY PasoAvanza
<1>2. IInv /\ [Next]_vars => IInv'
    BY NextIInv
<1> QED
    BY <1>1, <1>2, Invariante, PTL DEF Spec
=============================================================================

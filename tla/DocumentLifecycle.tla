------------------------- MODULE DocumentLifecycle --------------------------
(***************************************************************************)
(* What the document queue promises to whoever looks at a row of           *)
(* `documentos`: a life cycle with no workers, tokens or crashes in it.    *)
(* Every document is taken, and either extracted once, failed, or handed   *)
(* back; after MaxIntentos hand-backs it is given up.  Extracted fields    *)
(* are only ever replaced by a reviewer.                                   *)
(***************************************************************************)
EXTENDS Naturals

CONSTANTS Documentos, Revisores, MaxIntentos

VARIABLES estado, intentos, campos

vars == <<estado, intentos, campos>>

Extraidos == {"completado", "requiere_revision_manual"}

Init ==
    /\ estado = [d \in Documentos |-> "ausente"]
    /\ intentos = [d \in Documentos |-> 0]
    /\ campos = [d \in Documentos |-> "ninguno"]

Ingresar(d) ==
    /\ estado[d] = "ausente"
    /\ estado' = [estado EXCEPT ![d] = "pendiente"]
    /\ UNCHANGED <<intentos, campos>>

Tomar(d) ==
    /\ estado[d] = "pendiente"
    /\ estado' = [estado EXCEPT ![d] = "procesando"]
    /\ UNCHANGED <<intentos, campos>>

Extraer(d) ==
    /\ estado[d] = "procesando"
    /\ campos[d] = "ninguno"
    /\ estado' = [estado EXCEPT ![d] = "completado"]
    /\ campos' = [campos EXCEPT ![d] = "extraccion"]
    /\ UNCHANGED intentos

Fallar(d) ==
    /\ estado[d] = "procesando"
    /\ estado' = [estado EXCEPT ![d] = "error"]
    /\ UNCHANGED <<intentos, campos>>

\* The documents in S are handed back together, or given up.
Devolver(S) ==
    /\ S # {}
    /\ \A d \in S : estado[d] = "procesando" /\ intentos[d] < MaxIntentos
    /\ intentos' = [d \in Documentos |-> IF d \in S THEN intentos[d] + 1 ELSE intentos[d]]
    /\ estado' = [d \in Documentos |->
                    IF d \notin S THEN estado[d]
                    ELSE IF intentos'[d] = MaxIntentos THEN "error_permanente"
                    ELSE "pendiente"]
    /\ UNCHANGED campos

Corregir(d, r) ==
    /\ estado[d] \in Extraidos
    /\ \E e \in Extraidos : estado' = [estado EXCEPT ![d] = e]
    /\ campos' = [campos EXCEPT ![d] = r]
    /\ UNCHANGED intentos

Next ==
    \/ \E d \in Documentos : Ingresar(d) \/ Tomar(d) \/ Extraer(d) \/ Fallar(d)
    \/ \E S \in SUBSET Documentos : Devolver(S)
    \/ \E d \in Documentos, r \in Revisores : Corregir(d, r)

Spec == Init /\ [][Next]_vars
=============================================================================

-------------------------- MODULE PolicyLifecycle ---------------------------
(***************************************************************************)
(* The life cycle of insurance policies: the estado column of `polizas`,   *)
(* written by the endpoints that issue a policy and change its state and   *)
(* by the daily scheduler of the worker process.                           *)
(*                                                                         *)
(* The scheduler runs three SELECTs in one session and commits at the end. *)
(* The session factory sets autoflush=False, so its assignments reach the  *)
(* database only with the commit, as UPDATE ... WHERE id = :id; the        *)
(* endpoints read and commit in between.  Dates are day numbers.           *)
(***************************************************************************)
EXTENDS Naturals

CONSTANTS
    Polizas,          \* policies, identified by numero_poliza
    Agentes,          \* requests that agents and administrators have open
    UltimoDia,        \* bound: the clock stops on this day
    DiasAviso,        \* DIAS_ALERTA_POR_VENCER, timedelta(days=30) in the code
    VigenciaMaxima    \* MAX_VIGENCIA_ANIOS, in days

ASSUME DiasAssumption ==
    UltimoDia \in Nat /\ DiasAviso \in Nat /\ VigenciaMaxima \in Nat

VARIABLES
    estado,    \* estado of each row; "ausente" before its INSERT
    inicio,    \* fecha_inicio
    fin,       \* fecha_fin
    hoy,       \* date.today()
    fase,      \* where loop_scheduler_diario is
    ref,       \* hoy in the local variables of ejecutar_transiciones_polizas
    plan,      \* estado of the objects its session has changed, "nada" for others
    peticion,  \* what an open request has read and wants to write
    movidas    \* history: policies whose state requests have written since the first
               \* query of the last run

filas == <<estado, inicio, fin>>
vars == <<filas, hoy, fase, ref, plan, peticion, movidas>>

Dias == 0 .. UltimoDia
Fechas == 0 .. UltimoDia + VigenciaMaxima
Estados == {"pendiente", "activa", "por_vencer", "vencida", "cancelada"}

SinPlan == [p \in Polizas |-> "nada"]
Ninguna == [tipo |-> "ninguna"]
Alta(p, i, f, e) == [tipo |-> "alta", pol |-> p, inicio |-> i, fin |-> f, estado |-> e]
Cambio(p, v, e) == [tipo |-> "cambio", pol |-> p, visto |-> v, estado |-> e]

Peticiones ==
    {Ninguna}
    \union [tipo : {"alta"}, pol : Polizas, inicio : Dias, fin : Fechas, estado : Estados]
    \union [tipo : {"cambio"}, pol : Polizas, visto : Estados, estado : Estados]

Init ==
    /\ estado = [p \in Polizas |-> "ausente"]
    /\ inicio = [p \in Polizas |-> 0]
    /\ fin = [p \in Polizas |-> 0]
    /\ hoy = 0
    /\ fase = "listo"
    /\ ref = 0
    /\ plan = SinPlan
    /\ peticion = [a \in Agentes |-> Ninguna]
    /\ movidas = {}

\* At any moment, a request or a run open or not, midnight passes.
CambiarDia ==
    /\ hoy < UltimoDia
    /\ hoy' = hoy + 1
    /\ UNCHANGED <<filas, fase, ref, plan, peticion, movidas>>

-----------------------------------------------------------------------------
(* Issuing a policy: crear_poliza.                                          *)

EstadoInicial(i, f, dia) ==
    IF dia < i THEN "pendiente" ELSE IF f < dia THEN "vencida" ELSE "activa"

\* The number is free, the dates are accepted, and the initial state is
\* computed from today's date; the INSERT commits later.
AbrirAlta(a, p, i, f) ==
    /\ peticion[a] = Ninguna
    /\ estado[p] = "ausente"
    /\ i < f
    /\ f <= i + VigenciaMaxima
    /\ peticion' = [peticion EXCEPT ![a] = Alta(p, i, f, EstadoInicial(i, f, hoy))]
    /\ UNCHANGED <<filas, hoy, fase, ref, plan, movidas>>

ConfirmarAlta(a) ==
    LET q == peticion[a]
    IN  /\ q.tipo = "alta"
        /\ estado[q.pol] = "ausente"          \* UNIQUE (numero_poliza)
        /\ estado' = [estado EXCEPT ![q.pol] = q.estado]
        /\ inicio' = [inicio EXCEPT ![q.pol] = q.inicio]
        /\ fin' = [fin EXCEPT ![q.pol] = q.fin]
        /\ peticion' = [peticion EXCEPT ![a] = Ninguna]
        /\ movidas' = movidas \union {q.pol}
        /\ UNCHANGED <<hoy, fase, ref, plan>>

-----------------------------------------------------------------------------
(* PATCH /polizas/{id}/estado: actualizar_estado_poliza.                    *)

AbrirCambio(a, p, e) ==
    /\ peticion[a] = Ninguna
    /\ estado[p] # "ausente"
    /\ peticion' = [peticion EXCEPT ![a] = Cambio(p, estado[p], e)]
    /\ UNCHANGED <<filas, hoy, fase, ref, plan, movidas>>

\* Nothing is flushed when the state assigned is the one that was loaded.
ConfirmarCambio(a) ==
    LET q == peticion[a]
    IN  /\ q.tipo = "cambio"
        /\ estado' = IF q.estado = q.visto THEN estado
                     ELSE [estado EXCEPT ![q.pol] = q.estado]
        /\ movidas' = IF q.estado = q.visto THEN movidas ELSE movidas \union {q.pol}
        /\ peticion' = [peticion EXCEPT ![a] = Ninguna]
        /\ UNCHANGED <<inicio, fin, hoy, fase, ref, plan>>

\* The request fails (a duplicate number, a database error): rollback.
AbandonarPeticion(a) ==
    /\ peticion[a] # Ninguna
    /\ peticion' = [peticion EXCEPT ![a] = Ninguna]
    /\ UNCHANGED <<filas, hoy, fase, ref, plan, movidas>>

-----------------------------------------------------------------------------
(* The scheduler: loop_scheduler_diario, ejecutar_transiciones_polizas.     *)

\* The loop starts a run when its process starts, 60 s after an error and
\* 86400 s after a commit.  (On UltimoDia, where the clock stops, the next
\* day's run is one more run of that day.)
Despertar ==
    /\ \/ fase = "listo"
       \/ fase = "dormido" /\ (ref < hoy \/ hoy = UltimoDia)
    /\ fase' = "activar"
    /\ ref' = hoy
    /\ UNCHANGED <<filas, hoy, plan, peticion, movidas>>

\* Mutant: only the policies whose term starts today.
Activables_PrimerDia == {p \in Polizas : estado[p] = "pendiente" /\ inicio[p] = ref}

Activables == {p \in Polizas : /\ estado[p] = "pendiente"
                               /\ inicio[p] <= ref /\ ref <= fin[p]}

PorVencer == {p \in Polizas : /\ estado[p] = "activa"
                              /\ ref <= fin[p] /\ fin[p] <= ref + DiasAviso}

\* Mutants of the third query: the last day of the term counts as expired; the
\* state is not asked for; the policies announced as expiring are forgotten.
Vencidas_UltimoDia == {p \in Polizas : /\ estado[p] \in {"activa", "por_vencer"}
                                       /\ fin[p] <= ref}
Vencidas_SinEstado == {p \in Polizas : estado[p] # "ausente" /\ fin[p] < ref}
Vencidas_SoloActivas == {p \in Polizas : estado[p] = "activa" /\ fin[p] < ref}

Vencidas == {p \in Polizas : estado[p] \in {"activa", "por_vencer"} /\ fin[p] < ref}

Consulta(f, filasLeidas, e, g) ==
    /\ fase = f
    /\ plan' = [p \in Polizas |-> IF p \in filasLeidas THEN e ELSE plan[p]]
    /\ fase' = g
    /\ UNCHANGED <<filas, hoy, ref, peticion>>

LeerActivables ==
    Consulta("activar", Activables, "activa", "por_vencer") /\ movidas' = {}
LeerPorVencer ==
    Consulta("por_vencer", PorVencer, "por_vencer", "vencer") /\ UNCHANGED movidas
LeerVencidas ==
    Consulta("vencer", Vencidas, "vencida", "confirmar") /\ UNCHANGED movidas

\* Mutants: every row of the table is written; the session keeps its changes.
ConfirmarTransiciones_SinFiltro ==
    /\ fase = "confirmar"
    /\ estado' = plan
    /\ plan' = SinPlan
    /\ fase' = "dormido"
    /\ UNCHANGED <<inicio, fin, hoy, ref, peticion, movidas>>
ConfirmarTransiciones_SinLimpiar ==
    /\ fase = "confirmar"
    /\ estado' = [p \in Polizas |-> IF plan[p] = "nada" THEN estado[p] ELSE plan[p]]
    /\ fase' = "dormido"
    /\ UNCHANGED <<inicio, fin, hoy, ref, plan, peticion, movidas>>

\* db.commit(): UPDATE ... SET estado WHERE id, for every changed object.
ConfirmarTransiciones ==
    /\ fase = "confirmar"
    /\ estado' = [p \in Polizas |-> IF plan[p] = "nada" THEN estado[p] ELSE plan[p]]
    /\ plan' = SinPlan
    /\ fase' = "dormido"
    /\ UNCHANGED <<inicio, fin, hoy, ref, peticion, movidas>>

\* The run fails or the worker restarts; the session's changes are lost.
Interrumpir ==
    /\ fase # "listo"
    /\ fase' = "listo"
    /\ plan' = SinPlan
    /\ UNCHANGED <<filas, hoy, ref, peticion, movidas>>

Planificador ==
    Despertar \/ LeerActivables \/ LeerPorVencer \/ LeerVencidas \/ ConfirmarTransiciones

-----------------------------------------------------------------------------
Next ==
    \/ CambiarDia
    \/ Planificador
    \/ Interrumpir
    \/ \E a \in Agentes :
        \/ \E p \in Polizas, i \in Dias, f \in Fechas : AbrirAlta(a, p, i, f)
        \/ \E p \in Polizas, e \in Estados : AbrirCambio(a, p, e)
        \/ ConfirmarAlta(a)
        \/ ConfirmarCambio(a)
        \/ AbandonarPeticion(a)

Spec == Init /\ [][Next]_vars

\* Days pass, the loop goes on, and a database that fails now and then lets
\* every statement of a run through in the end.
Equidad ==
    /\ WF_vars(CambiarDia)
    /\ WF_vars(Despertar)
    /\ SF_vars(LeerActivables)
    /\ SF_vars(LeerPorVencer)
    /\ SF_vars(LeerVencidas)
    /\ SF_vars(ConfirmarTransiciones)

FairSpec == Spec /\ Equidad
-----------------------------------------------------------------------------
(* Properties.                                                              *)

\* Every column, local variable and open request keeps its type.
TypeOK ==
    /\ estado \in [Polizas -> Estados \union {"ausente"}]
    /\ inicio \in [Polizas -> Fechas]
    /\ fin \in [Polizas -> Fechas]
    /\ hoy \in Dias
    /\ fase \in {"listo", "activar", "por_vencer", "vencer", "confirmar", "dormido"}
    /\ ref \in Dias
    /\ plan \in [Polizas -> {"nada", "activa", "por_vencer", "vencida"}]
    /\ peticion \in [Agentes -> Peticiones]
    /\ movidas \subseteq Polizas

\* Whatever the agents commit between the scheduler's queries, the state a run
\* is going to write agrees with the policy's dates on the day of the run, and
\* that day is not in the future.
PlanFundado ==
    \A p \in Polizas :
        /\ plan[p] # "nada" => estado[p] # "ausente" /\ ref <= hoy
        /\ plan[p] = "activa" => inicio[p] <= ref /\ ref <= fin[p]
        /\ plan[p] = "por_vencer" => ref <= fin[p] /\ fin[p] <= ref + DiasAviso
        /\ plan[p] = "vencida" => fin[p] < ref

\* Nobody's request commits in this step.
SinPeticion == peticion' = peticion

\* Without an agent's request a policy expires only after its last day, starts
\* only on or after its first, and is announced as expiring only within the
\* notice period.
TransicionConFecha ==
    [][SinPeticion => \A p \in Polizas : estado'[p] # estado[p] =>
        /\ estado'[p] = "vencida" => fin[p] < hoy
        /\ estado'[p] = "activa" => inicio[p] <= hoy
        /\ estado'[p] = "por_vencer" => fin[p] <= hoy + DiasAviso]_vars

\* No run undoes a cancellation that was there when it began, even where the dates
\* would have the policy start or expire: without a request, only the commit of a run
\* whose first query came before the cancellation does.
CancelacionFirme ==
    [][\A p \in Polizas : estado[p] = "cancelada" /\ SinPeticion /\ estado'[p] # "cancelada"
        => fase = "confirmar" /\ p \in movidas]_vars

\* A policy whose term is over does not stay in force: sooner or later a run
\* or an agent takes it out of 'activa' and 'por_vencer'.
TodaPolizaVence ==
    \A p \in Polizas :
        (estado[p] \in {"activa", "por_vencer"} /\ fin[p] < hoy)
            ~> estado[p] \notin {"activa", "por_vencer"}

\* A run that commits leaves nothing undone, whatever days were missed before it: of
\* the policies that no request wrote while it ran, none whose term has begun and not
\* ended is still pending, none whose term is over is in force, and none inside the
\* notice period is unannounced but those the same run has started.
CorridaCompleta ==
    [][fase = "confirmar" /\ fase' = "dormido" => \A p \in Polizas \ movidas :
        /\ estado'[p] = "pendiente" => ref < inicio[p] \/ fin[p] < ref
        /\ estado'[p] \in {"activa", "por_vencer"} => ref <= fin[p]
        /\ estado'[p] = "activa" /\ fin[p] <= ref + DiasAviso => estado[p] = "pendiente"]_vars

-----------------------------------------------------------------------------
(* The inductive invariant of PolicyLifecycleProofs.                        *)

\* The date of a run is not in the future, and the session of a run that has
\* not yet queried has changed nothing.
CorridaCoherente ==
    /\ ref <= hoy
    /\ fase \in {"listo", "activar", "dormido"} => plan = SinPlan

IInv == TypeOK /\ PlanFundado /\ CorridaCoherente

\* What a run has left to do with the policies that no request has written since its
\* first query: nothing that one of its queries should have found.
QuedaPorHacer ==
    \A p \in Polizas \ movidas :
        /\ plan[p] = "activa" => estado[p] = "pendiente"
        /\ plan[p] # "nada" => estado[p] \in {"pendiente", "activa", "por_vencer"}
        /\ fase \in {"por_vencer", "vencer", "confirmar"} =>
                (estado[p] = "pendiente" /\ inicio[p] <= ref /\ ref <= fin[p]
                    => plan[p] # "nada")
        /\ fase \in {"vencer", "confirmar"} =>
                (estado[p] = "activa" /\ ref <= fin[p] /\ fin[p] <= ref + DiasAviso
                    => plan[p] = "por_vencer")
        /\ fase = "confirmar" =>
                (estado[p] \in {"activa", "por_vencer"} /\ fin[p] < ref
                    => plan[p] = "vencida")
=============================================================================

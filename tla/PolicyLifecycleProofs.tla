----------------------- MODULE PolicyLifecycleProofs ------------------------
(***************************************************************************)
(* Safety of PolicyLifecycle for any policies, requests, dates and notice  *)
(* period.  IInv is inductive; what a run leaves to do follows from it and *)
(* from QuedaPorHacer, which accounts for what each query has found.       *)
(***************************************************************************)
EXTENDS PolicyLifecycle, TLAPS

\* The value an open request writes is a state, and its dates are dates.
LEMMA PeticionBienFormada ==
    ASSUME TypeOK, NEW a \in Agentes, peticion[a] # Ninguna
    PROVE  /\ peticion[a].tipo \in {"alta", "cambio"}
           /\ peticion[a].pol \in Polizas
           /\ peticion[a].estado \in Estados
           /\ peticion[a].tipo = "alta" =>
                peticion[a].inicio \in Fechas /\ peticion[a].fin \in Fechas
  <1>1. peticion[a] \in Peticiones
    BY DEF TypeOK
  <1>2. Dias \subseteq Fechas
    BY DiasAssumption DEF Dias, Fechas
  <1> QED
    BY <1>1, <1>2 DEF Peticiones, Ninguna

LEMMA InitIInv == Init => IInv
  BY DiasAssumption DEF Init, IInv, TypeOK, PlanFundado, CorridaCoherente, SinPlan,
                        Dias, Fechas, Estados, Peticiones, Ninguna

\* The initial state of a policy is one of the five states.
LEMMA EstadoInicialTipo == \A i, f, d : EstadoInicial(i, f, d) \in Estados
  BY DEF EstadoInicial, Estados

\* Midnight only moves the clock; a run's date stays in the past.
LEMMA CambiarDiaIInv == ASSUME IInv, CambiarDia PROVE IInv'
  BY DiasAssumption DEF IInv, TypeOK, PlanFundado, CorridaCoherente, SinPlan,
                        CambiarDia, filas, Dias, Fechas

\* Opening or dropping a request touches no row and no plan.
LEMMA PeticionIInv ==
    ASSUME IInv, peticion' \in [Agentes -> Peticiones],
           UNCHANGED <<filas, hoy, fase, ref, plan, movidas>>
    PROVE  IInv'
  BY DEF IInv, TypeOK, PlanFundado, CorridaCoherente, SinPlan, filas

LEMMA AbrirAltaIInv ==
    ASSUME IInv, NEW a \in Agentes, NEW p \in Polizas, NEW i \in Dias, NEW f \in Fechas,
           AbrirAlta(a, p, i, f)
    PROVE  IInv'
  <1>1. Alta(p, i, f, EstadoInicial(i, f, hoy)) \in Peticiones
    BY EstadoInicialTipo DEF Alta, Peticiones
  <1>2. peticion' \in [Agentes -> Peticiones]
    BY <1>1 DEF IInv, TypeOK, AbrirAlta
  <1> QED
    BY <1>2, PeticionIInv DEF AbrirAlta

LEMMA AbrirCambioIInv ==
    ASSUME IInv, NEW a \in Agentes, NEW p \in Polizas, NEW e \in Estados,
           AbrirCambio(a, p, e)
    PROVE  IInv'
  <1>1. estado[p] \in Estados
    BY DEF IInv, TypeOK, AbrirCambio
  <1>2. Cambio(p, estado[p], e) \in Peticiones
    BY <1>1 DEF Cambio, Peticiones
  <1>3. peticion' \in [Agentes -> Peticiones]
    BY <1>2 DEF IInv, TypeOK, AbrirCambio
  <1> QED
    BY <1>3, PeticionIInv DEF AbrirCambio

LEMMA AbandonarIInv ==
    ASSUME IInv, NEW a \in Agentes, AbandonarPeticion(a) PROVE IInv'
  <1>1. peticion' \in [Agentes -> Peticiones]
    BY DEF IInv, TypeOK, AbandonarPeticion, Peticiones
  <1> QED
    BY <1>1, PeticionIInv DEF AbandonarPeticion

\* Dates are written only with the INSERT, of a row that no run can have read.
LEMMA ConfirmarAltaIInv ==
    ASSUME IInv, NEW a \in Agentes, ConfirmarAlta(a) PROVE IInv'
  <1> DEFINE q == peticion[a]
  <1>1. q # Ninguna
    BY DEF ConfirmarAlta, Ninguna
  <1>2. /\ q.pol \in Polizas
        /\ q.estado \in Estados
        /\ q.inicio \in Fechas /\ q.fin \in Fechas
    BY <1>1, PeticionBienFormada DEF IInv, ConfirmarAlta
  <1>3. /\ estado[q.pol] = "ausente"
        /\ estado' = [estado EXCEPT ![q.pol] = q.estado]
        /\ inicio' = [inicio EXCEPT ![q.pol] = q.inicio]
        /\ fin' = [fin EXCEPT ![q.pol] = q.fin]
        /\ peticion' = [peticion EXCEPT ![a] = Ninguna]
        /\ movidas' = movidas \union {q.pol}
        /\ UNCHANGED <<hoy, fase, ref, plan>>
    BY DEF ConfirmarAlta
  <1> HIDE DEF q
  <1>4. TypeOK'
    BY <1>2, <1>3 DEF IInv, TypeOK, Peticiones
  <1>5. PlanFundado'
    <2> SUFFICES ASSUME NEW p \in Polizas
                 PROVE  /\ plan[p] # "nada" => estado'[p] # "ausente" /\ ref <= hoy
                        /\ plan[p] = "activa" => inicio'[p] <= ref /\ ref <= fin'[p]
                        /\ plan[p] = "por_vencer" =>
                             ref <= fin'[p] /\ fin'[p] <= ref + DiasAviso
                        /\ plan[p] = "vencida" => fin'[p] < ref
      BY <1>3 DEF PlanFundado
    <2>1. CASE p = q.pol
      <3>1. plan[p] = "nada"
        BY <1>3, <2>1 DEF IInv, PlanFundado
      <3> QED
        BY <3>1
    <2>2. CASE p # q.pol
      <3>1. estado'[p] = estado[p] /\ inicio'[p] = inicio[p] /\ fin'[p] = fin[p]
        BY <1>2, <1>3, <2>2 DEF IInv, TypeOK
      <3> QED
        BY <3>1 DEF IInv, PlanFundado
    <2> QED
      BY <2>1, <2>2
  <1>6. CorridaCoherente'
    BY <1>3 DEF IInv, CorridaCoherente, SinPlan
  <1> QED
    BY <1>4, <1>5, <1>6 DEF IInv

LEMMA ConfirmarCambioIInv ==
    ASSUME IInv, NEW a \in Agentes, ConfirmarCambio(a) PROVE IInv'
  <1> DEFINE q == peticion[a]
  <1>1. q # Ninguna
    BY DEF ConfirmarCambio, Ninguna
  <1>2. q.pol \in Polizas /\ q.estado \in Estados
    BY <1>1, PeticionBienFormada DEF IInv
  <1>3. /\ estado' \in {estado, [estado EXCEPT ![q.pol] = q.estado]}
        /\ peticion' = [peticion EXCEPT ![a] = Ninguna]
        /\ movidas' \in {movidas, movidas \union {q.pol}}
        /\ UNCHANGED <<inicio, fin, hoy, fase, ref, plan>>
    BY DEF ConfirmarCambio
  <1> HIDE DEF q
  <1>4. TypeOK'
    BY <1>2, <1>3 DEF IInv, TypeOK, Peticiones
  <1>5. \A p \in Polizas : estado[p] # "ausente" => estado'[p] # "ausente"
    BY <1>2, <1>3 DEF IInv, TypeOK, Estados
  <1>6. PlanFundado'
    BY <1>3, <1>5 DEF IInv, PlanFundado
  <1>7. CorridaCoherente'
    BY <1>3 DEF IInv, CorridaCoherente, SinPlan
  <1> QED
    BY <1>4, <1>6, <1>7 DEF IInv

LEMMA DespertarIInv == ASSUME IInv, Despertar PROVE IInv'
  <1>1. plan = SinPlan
    BY DEF IInv, CorridaCoherente, Despertar
  <1> QED
    BY <1>1, DiasAssumption
    DEF IInv, TypeOK, PlanFundado, CorridaCoherente, SinPlan, Despertar, filas, Dias

\* A query writes into the plan the rows it selects and nothing else.
LEMMA ConsultaIInv ==
    ASSUME IInv, NEW f \in {"activar", "por_vencer", "vencer"},
           NEW S \in SUBSET Polizas, NEW e \in {"activa", "por_vencer", "vencida"},
           NEW g \in {"por_vencer", "vencer", "confirmar"}, Consulta(f, S, e, g),
           movidas' \subseteq Polizas,
           \A p \in S : /\ estado[p] # "ausente"
                        /\ e = "activa" => inicio[p] <= ref /\ ref <= fin[p]
                        /\ e = "por_vencer" => ref <= fin[p] /\ fin[p] <= ref + DiasAviso
                        /\ e = "vencida" => fin[p] < ref
    PROVE  IInv'
  BY DEF IInv, TypeOK, PlanFundado, CorridaCoherente, SinPlan, Consulta, filas

LEMMA LecturasIInv ==
    ASSUME IInv, LeerActivables \/ LeerPorVencer \/ LeerVencidas PROVE IInv'
  <1>1. movidas' \subseteq Polizas
    BY DEF IInv, TypeOK, LeerActivables, LeerPorVencer, LeerVencidas
  <1>2. CASE LeerActivables
    BY <1>1, <1>2, ConsultaIInv DEF LeerActivables, Activables
  <1>3. CASE LeerPorVencer
    BY <1>1, <1>3, ConsultaIInv DEF LeerPorVencer, PorVencer
  <1>4. CASE LeerVencidas
    BY <1>1, <1>4, ConsultaIInv DEF LeerVencidas, Vencidas
  <1> QED
    BY <1>2, <1>3, <1>4

LEMMA ConfirmarTransicionesIInv == ASSUME IInv, ConfirmarTransiciones PROVE IInv'
  BY DEF IInv, TypeOK, PlanFundado, CorridaCoherente, SinPlan, ConfirmarTransiciones, Estados

LEMMA InterrumpirIInv == ASSUME IInv, Interrumpir PROVE IInv'
  BY DEF IInv, TypeOK, PlanFundado, CorridaCoherente, SinPlan, Interrumpir, filas

LEMMA NextIInv == IInv /\ [Next]_vars => IInv'
  <1> SUFFICES ASSUME IInv, [Next]_vars PROVE IInv'
    OBVIOUS
  <1>1. CASE CambiarDia
    BY <1>1, CambiarDiaIInv
  <1>2. CASE Planificador
    BY <1>2, DespertarIInv, LecturasIInv, ConfirmarTransicionesIInv DEF Planificador
  <1>3. CASE Interrumpir
    BY <1>3, InterrumpirIInv
  <1>4. ASSUME NEW a \in Agentes,
               \/ \E p \in Polizas, i \in Dias, f \in Fechas : AbrirAlta(a, p, i, f)
               \/ \E p \in Polizas, e \in Estados : AbrirCambio(a, p, e)
               \/ ConfirmarAlta(a)
               \/ ConfirmarCambio(a)
               \/ AbandonarPeticion(a)
        PROVE  IInv'
    BY <1>4, AbrirAltaIInv, AbrirCambioIInv, ConfirmarAltaIInv, ConfirmarCambioIInv,
       AbandonarIInv
  <1>5. CASE UNCHANGED vars
    BY <1>5 DEF vars, filas, IInv, TypeOK, PlanFundado, CorridaCoherente, SinPlan
  <1> QED
    BY <1>1, <1>2, <1>3, <1>4, <1>5 DEF Next

-----------------------------------------------------------------------------
\* IInv holds in every reachable state.
THEOREM Invariante == Spec => []IInv
  BY InitIInv, NextIInv, PTL DEF Spec

\* Rows, runs and requests keep their types.
THEOREM TipoCorrecto == Spec => []TypeOK
  <1>1. IInv => TypeOK
    BY DEF IInv
  <1> QED
    BY <1>1, Invariante, PTL

\* What a run is going to write agrees with the policy's dates, whatever the
\* endpoints commit between its queries.
THEOREM PlanSeguro == Spec => []PlanFundado
  <1>1. IInv => PlanFundado
    BY DEF IInv
  <1> QED
    BY <1>1, Invariante, PTL

\* Only the commit of a run changes states without a request.
LEMMA CambioSinPeticion ==
    ASSUME IInv, [Next]_vars, SinPeticion, NEW p \in Polizas, estado'[p] # estado[p]
    PROVE  ConfirmarTransiciones
  <1>1. ASSUME NEW a \in Agentes, ConfirmarAlta(a) \/ ConfirmarCambio(a)
        PROVE  peticion' # peticion
    <2>1. peticion'[a] = Ninguna
      BY <1>1 DEF ConfirmarAlta, ConfirmarCambio, IInv, TypeOK
    <2>2. peticion[a].tipo # "ninguna"
      BY <1>1 DEF ConfirmarAlta, ConfirmarCambio
    <2> QED
      BY <2>1, <2>2 DEF Ninguna
  <1> QED
    BY <1>1 DEF Next, vars, filas, SinPeticion, CambiarDia, Planificador, Despertar,
                LeerActivables, LeerPorVencer, LeerVencidas, Consulta, Interrumpir,
                AbrirAlta, AbrirCambio, AbandonarPeticion

\* Without a request, policies expire, start and are announced as expiring on
\* dates that allow it.
THEOREM FechasSeguras == Spec => TransicionConFecha
  <1>1. ASSUME IInv, [Next]_vars, SinPeticion, NEW p \in Polizas, estado'[p] # estado[p]
        PROVE  /\ estado'[p] = "vencida" => fin[p] < hoy
               /\ estado'[p] = "activa" => inicio[p] <= hoy
               /\ estado'[p] = "por_vencer" => fin[p] <= hoy + DiasAviso
    <2>1. ConfirmarTransiciones
      BY <1>1, CambioSinPeticion
    <2>2. plan[p] # "nada" /\ estado'[p] = plan[p]
      BY <1>1, <2>1 DEF ConfirmarTransiciones
    <2>3. inicio[p] \in Nat /\ fin[p] \in Nat /\ ref \in Nat /\ hoy \in Nat
      BY <1>1, DiasAssumption DEF IInv, TypeOK, Dias, Fechas
    <2>4. /\ ref <= hoy
          /\ plan[p] = "activa" => inicio[p] <= ref
          /\ plan[p] = "por_vencer" => fin[p] <= ref + DiasAviso
          /\ plan[p] = "vencida" => fin[p] < ref
      BY <1>1, <2>2 DEF IInv, PlanFundado
    <2> QED
      BY <2>2, <2>3, <2>4, DiasAssumption
  <1>2. IInv /\ [Next]_vars =>
          [SinPeticion => \A p \in Polizas : estado'[p] # estado[p] =>
            /\ estado'[p] = "vencida" => fin[p] < hoy
            /\ estado'[p] = "activa" => inicio[p] <= hoy
            /\ estado'[p] = "por_vencer" => fin[p] <= hoy + DiasAviso]_vars
    BY <1>1
  <1> QED
    BY <1>2, Invariante, PTL DEF Spec, TransicionConFecha

-----------------------------------------------------------------------------
(* What a run leaves to do.                                                 *)

InvCorrida == IInv /\ QuedaPorHacer

LEMMA InicioCorrida == Init => QuedaPorHacer
  <1> SUFFICES ASSUME Init PROVE QuedaPorHacer
    OBVIOUS
  <1>1. fase = "listo" /\ \A p \in Polizas : plan[p] = "nada"
    BY DEF Init, SinPlan
  <1> QED
    BY <1>1 DEF QuedaPorHacer

\* The queries of a run.
LEMMA PasoConsultas ==
    ASSUME InvCorrida, LeerActivables \/ LeerPorVencer \/ LeerVencidas
    PROVE  QuedaPorHacer'
  <1>1. /\ fase = "activar" => plan = SinPlan
        /\ plan \in [Polizas -> {"nada", "activa", "por_vencer", "vencida"}]
        /\ \A p \in Polizas : inicio[p] \in Nat /\ fin[p] \in Nat
        /\ ref \in Nat /\ DiasAviso \in Nat
    BY DiasAssumption DEF InvCorrida, IInv, TypeOK, CorridaCoherente, Fechas, Dias
  <1>2. CASE LeerActivables
    BY <1>1, <1>2 DEF LeerActivables, Consulta, Activables, QuedaPorHacer, SinPlan, filas
  <1>3. CASE LeerPorVencer
    BY <1>1, <1>3 DEF LeerPorVencer, Consulta, PorVencer, QuedaPorHacer, InvCorrida, filas
  <1>4. CASE LeerVencidas
    BY <1>1, <1>4 DEF LeerVencidas, Consulta, Vencidas, QuedaPorHacer, InvCorrida, filas
  <1> QED
    BY <1>2, <1>3, <1>4

\* A request changes the state of a policy only by marking it as written.
LEMMA PasoPeticiones ==
    ASSUME InvCorrida, NEW a \in Agentes, ConfirmarAlta(a) \/ ConfirmarCambio(a)
    PROVE  QuedaPorHacer'
  <1> DEFINE s == peticion[a].pol
  <1>1. /\ movidas \subseteq movidas' /\ UNCHANGED <<fase, ref, plan>>
        /\ \A p \in Polizas \ movidas' :
                estado'[p] = estado[p] /\ inicio'[p] = inicio[p] /\ fin'[p] = fin[p]
    <2>1. CASE ConfirmarAlta(a)
      BY <2>1 DEF ConfirmarAlta, InvCorrida, IInv, TypeOK
    <2>2. CASE ConfirmarCambio(a)
      BY <2>2 DEF ConfirmarCambio, InvCorrida, IInv, TypeOK
    <2> QED
      BY <2>1, <2>2
  <1> QED
    BY <1>1 DEF QuedaPorHacer, InvCorrida

LEMMA PasoCorrida == InvCorrida /\ [Next]_vars => QuedaPorHacer'
  <1> SUFFICES ASSUME InvCorrida, [Next]_vars PROVE QuedaPorHacer'
    OBVIOUS
  <1>1. CASE UNCHANGED <<filas, fase, ref, plan, movidas>>
    BY <1>1 DEF QuedaPorHacer, InvCorrida, filas
  <1>2. CASE Despertar
    BY <1>2 DEF Despertar, QuedaPorHacer, InvCorrida, filas
  <1>3. CASE LeerActivables \/ LeerPorVencer \/ LeerVencidas
    BY <1>3, PasoConsultas
  <1>4. CASE ConfirmarTransiciones
    BY <1>4 DEF ConfirmarTransiciones, QuedaPorHacer, SinPlan
  <1>5. CASE Interrumpir
    BY <1>5 DEF Interrumpir, QuedaPorHacer, SinPlan
  <1>6. ASSUME NEW a \in Agentes, ConfirmarAlta(a) \/ ConfirmarCambio(a)
        PROVE  QuedaPorHacer'
    BY <1>6, PasoPeticiones
  <1> QED
    BY <1>1, <1>2, <1>3, <1>4, <1>5, <1>6
    DEF Next, vars, CambiarDia, Planificador, AbrirAlta, AbrirCambio, AbandonarPeticion

LEMMA InvarianteDeCorrida == Spec => []InvCorrida
  BY InitIInv, NextIInv, InicioCorrida, PasoCorrida, PTL DEF Spec, InvCorrida

\* No run undoes a cancellation that was there when it began.
THEOREM CancelacionSegura == Spec => CancelacionFirme
  <1>1. ASSUME InvCorrida, [Next]_vars, SinPeticion, NEW p \in Polizas,
               estado[p] = "cancelada", estado'[p] # "cancelada"
        PROVE  fase = "confirmar" /\ p \in movidas
    <2>1. ConfirmarTransiciones
      BY <1>1, CambioSinPeticion DEF InvCorrida
    <2>2. fase = "confirmar" /\ plan[p] # "nada"
      BY <1>1, <2>1 DEF ConfirmarTransiciones
    <2> QED
      BY <1>1, <2>2 DEF InvCorrida, QuedaPorHacer
  <1>2. InvCorrida /\ [Next]_vars =>
          [\A p \in Polizas : estado[p] = "cancelada" /\ SinPeticion /\ estado'[p] # "cancelada"
            => fase = "confirmar" /\ p \in movidas]_vars
    BY <1>1
  <1> QED
    BY <1>2, InvarianteDeCorrida, PTL DEF Spec, CancelacionFirme

\* A run that commits leaves nothing undone, whatever requests commit meanwhile.
THEOREM CorridaSegura == Spec => CorridaCompleta
  <1>1. ASSUME InvCorrida, [Next]_vars, fase = "confirmar", fase' = "dormido",
               NEW p \in Polizas \ movidas
        PROVE  /\ estado'[p] = "pendiente" => ref < inicio[p] \/ fin[p] < ref
               /\ estado'[p] \in {"activa", "por_vencer"} => ref <= fin[p]
               /\ estado'[p] = "activa" /\ fin[p] <= ref + DiasAviso => estado[p] = "pendiente"
    <2>1. ConfirmarTransiciones
      BY <1>1 DEF Next, vars, CambiarDia, Planificador, Despertar, LeerActivables,
         LeerPorVencer, LeerVencidas, Consulta, Interrumpir, AbrirAlta, AbrirCambio,
         ConfirmarAlta, ConfirmarCambio, AbandonarPeticion
    <2>2. estado'[p] = IF plan[p] = "nada" THEN estado[p] ELSE plan[p]
      BY <2>1 DEF ConfirmarTransiciones
    <2>3. inicio[p] \in Nat /\ fin[p] \in Nat /\ ref \in Nat /\ DiasAviso \in Nat
      BY <1>1, DiasAssumption DEF InvCorrida, IInv, TypeOK, Dias, Fechas
    <2>4. /\ plan[p] \in {"nada", "activa", "por_vencer", "vencida"}
          /\ plan[p] = "activa" => ref <= fin[p]
          /\ plan[p] = "por_vencer" => ref <= fin[p]
      BY <1>1 DEF InvCorrida, IInv, TypeOK, PlanFundado
    <2> QED
      BY <1>1, <2>2, <2>3, <2>4 DEF InvCorrida, QuedaPorHacer
  <1>2. InvCorrida /\ [Next]_vars =>
          [fase = "confirmar" /\ fase' = "dormido" => \A p \in Polizas \ movidas :
            /\ estado'[p] = "pendiente" => ref < inicio[p] \/ fin[p] < ref
            /\ estado'[p] \in {"activa", "por_vencer"} => ref <= fin[p]
            /\ estado'[p] = "activa" /\ fin[p] <= ref + DiasAviso
                => estado[p] = "pendiente"]_vars
    BY <1>1
  <1> QED
    BY <1>2, InvarianteDeCorrida, PTL DEF Spec, CorridaCompleta
=============================================================================

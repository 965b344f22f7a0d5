----------------------------- MODULE Portfolio -----------------------------
(***************************************************************************)
(* The portfolio: clients, their vehicles, the policies issued on them and *)
(* the installments that pay for a policy.                                 *)
(*                                                                         *)
(* A handler reads, then inserts or deletes and commits.  What it reads    *)
(* only decides an early refusal, so the reads of an issue count as one    *)
(* step; the database decides again at the INSERT, with its unique and     *)
(* foreign keys.  A row's lock holds from the flush to the commit, so both *)
(* are one step.  The two checks of a deletion are steps of their own: no  *)
(* constraint repeats them, and the foreign keys cascade.                  *)
(*                                                                         *)
(* A client is named by its identification, a vehicle by its plate and a   *)
(* policy by its number; one registered again after a deletion would be    *)
(* another row, so each is registered once.                                *)
(***************************************************************************)
EXTENDS Identification, Rounding

CONSTANTS
    Peticiones,        \* requests that can be open at a time
    Clientes,          \* identifications that are typed in
    Vehiculos,
    Polizas,
    Duraciones,        \* fecha_fin - fecha_inicio, in days, as typed
    Recibos,           \* <<metodo_pago, comprobante_ref>> of a payment
    Nada,              \* NULL
    VigenciaMaxima,    \* MAX_VIGENCIA_ANIOS, in days
    Periodo,           \* DIAS_PERIODO_CUOTA_MENSUAL, 30 in the code
    MaxCuotas          \* MAX_CUOTAS_POLIZA_ANUAL, 12 in the code

ASSUME CarteraAssumption ==
    /\ Clientes \subseteq Numeros
    /\ Duraciones \subseteq Int
    /\ Periodo \in Nat \ {0}
    /\ MaxCuotas \in Nat \ {0}
    /\ VigenciaMaxima \in Nat
    /\ \A r \in Recibos : r = <<r[1], r[2]>> /\ Nada \notin {r[1], r[2]}

VARIABLES
    cliente,    \* "sin" fila, "vivo" or "borrado"
    vehiculo,   \* the row of a plate
    poliza,     \* the row of a policy and its installments
    peticion    \* what an open request has read

filas == <<cliente, vehiculo, poliza>>
vars == <<filas, peticion>>

SinFila == [fila |-> "sin"]
Borrada == [fila |-> "borrada"]
Libre == [op |-> "libre"]

Metodos == {r[1] : r \in Recibos}
Comprobantes == {r[2] : r \in Recibos}
Pendiente == <<Nada, Nada>>

\* What a row of pagos holds: pendiente, or pagado with these two columns.
Abonos == {Pendiente} \union (Metodos \X Comprobantes)
Cuota == [vence : Int, abono : Abonos]

FilasVehiculo == [fila : {"viva"}, dueno : Clientes]
FilasPoliza == [fila : {"viva"}, titular : Clientes, auto : Vehiculos, dias : Int,
                cuotas : Seq(Cuota)]

Abiertas ==
    [op : {"registrar"}, cli : Clientes]
    \union [op : {"vehiculo"}, auto : Vehiculos, cli : Clientes]
    \union [op : {"poliza"}, pol : Polizas, cli : Clientes, auto : Vehiculos, dias : Int]
    \union [op : {"pago"}, pol : Polizas, cuota : 1 .. MaxCuotas, visto : Abonos,
            recibo : Recibos]
    \union [op : {"borrar", "borrarSinPolizas", "borrarSinNada"}, cli : Clientes,
            vistas : SUBSET Polizas]

Init ==
    /\ cliente = [c \in Clientes |-> "sin"]
    /\ vehiculo = [v \in Vehiculos |-> SinFila]
    /\ poliza = [p \in Polizas |-> SinFila]
    /\ peticion = [a \in Peticiones |-> Libre]

VivoCliente(c) == cliente[c] = "vivo"
VivoVehiculo(v) == vehiculo[v].fila = "viva"
VivaPoliza(p) == poliza[p].fila = "viva"

Abrir(a, q) == peticion[a] = Libre /\ peticion' = [peticion EXCEPT ![a] = q]
Avanzar(a, op) == peticion' = [peticion EXCEPT ![a].op = op]
Cerrar(a) == peticion' = [peticion EXCEPT ![a] = Libre]

-----------------------------------------------------------------------------
\* POST /clientes: an identification that is valid and new.
AbrirRegistro(a, c) ==
    /\ IdentificacionValida(c)
    /\ cliente[c] = "sin"
    /\ Abrir(a, [op |-> "registrar", cli |-> c])
    /\ UNCHANGED filas

ConfirmarRegistro(a) ==
    LET q == peticion[a]
    IN /\ q.op = "registrar"
       /\ cliente[q.cli] = "sin"                 \* UNIQUE (identificacion)
       /\ cliente' = [cliente EXCEPT ![q.cli] = "vivo"]
       /\ Cerrar(a)
       /\ UNCHANGED <<vehiculo, poliza>>

\* POST /vehiculos: the client exists, the plate and the chassis are new.
AbrirVehiculo(a, v, c) ==
    /\ VivoCliente(c)
    /\ vehiculo[v] = SinFila
    /\ Abrir(a, [op |-> "vehiculo", auto |-> v, cli |-> c])
    /\ UNCHANGED filas

ConfirmarVehiculo(a) ==
    LET q == peticion[a]
    IN /\ q.op = "vehiculo"
       /\ vehiculo[q.auto] = SinFila             \* UNIQUE (placa)
       /\ VivoCliente(q.cli)                     \* FOREIGN KEY (cliente_id)
       /\ vehiculo' = [vehiculo EXCEPT ![q.auto] = [fila |-> "viva", dueno |-> q.cli]]
       /\ Cerrar(a)
       /\ UNCHANGED <<cliente, poliza>>

-----------------------------------------------------------------------------
\* POST /polizas: client and vehicle exist, whoever owns the vehicle, the number is
\* new and the dates are accepted.
AbrirPoliza(a, p, c, v, d) ==
    /\ VivoCliente(c)
    /\ VivoVehiculo(v)
    /\ poliza[p] = SinFila
    /\ d > 0 /\ d <= VigenciaMaxima
    /\ Abrir(a, [op |-> "poliza", pol |-> p, cli |-> c, auto |-> v, dias |-> d])
    /\ UNCHANGED filas

\* Mutant: a period that has begun counts as a whole one.
NumCuotas_Iniciados(d) ==
    LET r == d \div Periodo + 1
    IN IF r > MaxCuotas THEN MaxCuotas ELSE r

\* max(1, min(MaxCuotas, round(dias / Periodo)))
NumCuotas(d) ==
    LET r == RedondeoPar(d, Periodo)
    IN IF r < 1 THEN 1 ELSE IF r > MaxCuotas THEN MaxCuotas ELSE r

PlanCuotas(d) ==
    [i \in 1 .. NumCuotas(d) |-> [vence |-> Periodo * (i - 1), abono |-> Pendiente]]

ConfirmarPoliza(a) ==
    LET q == peticion[a]
    IN /\ q.op = "poliza"
       /\ poliza[q.pol] = SinFila                \* UNIQUE (numero_poliza)
       /\ VivoCliente(q.cli)                     \* FOREIGN KEY (cliente_id)
       /\ VivoVehiculo(q.auto)                   \* FOREIGN KEY (vehiculo_id)
       /\ poliza' = [poliza EXCEPT ![q.pol] =
              [fila |-> "viva", titular |-> q.cli, auto |-> q.auto, dias |-> q.dias,
               cuotas |-> PlanCuotas(q.dias)]]
       /\ Cerrar(a)
       /\ UNCHANGED <<cliente, vehiculo>>

-----------------------------------------------------------------------------
\* POST /polizas/{id}/pagos/{id}/registrar: the row is loaded, paid or not.
AbrirPago(a, p, i, r) ==
    /\ VivaPoliza(p)
    /\ i \in DOMAIN poliza[p].cuotas
    /\ Abrir(a, [op |-> "pago", pol |-> p, cuota |-> i,
                 visto |-> poliza[p].cuotas[i].abono, recibo |-> r])
    /\ UNCHANGED filas

\* The UPDATE sets the columns in which a payment differs from what was loaded.
Escrito(q, fila) ==
    <<IF q.recibo[1] = q.visto[1] THEN fila[1] ELSE q.recibo[1],
      IF q.recibo[2] = q.visto[2] THEN fila[2] ELSE q.recibo[2]>>

\* Mutant: a method already on the row is kept.
ConfirmarPago_ConservaMetodo(a) ==
    LET q == peticion[a]
    IN /\ q.op = "pago"
       /\ VivaPoliza(q.pol)
       /\ poliza' = [poliza EXCEPT ![q.pol].cuotas[q.cuota].abono =
                        <<IF q.visto[1] = Nada THEN q.recibo[1] ELSE q.visto[1],
                          q.recibo[2]>>]
       /\ Cerrar(a)
       /\ UNCHANGED <<cliente, vehiculo>>

ConfirmarPago(a) ==
    LET q == peticion[a]
    IN /\ q.op = "pago"
       /\ VivaPoliza(q.pol)
       /\ poliza' = [poliza EXCEPT ![q.pol].cuotas[q.cuota].abono = Escrito(q, @)]
       /\ Cerrar(a)
       /\ UNCHANGED <<cliente, vehiculo>>

-----------------------------------------------------------------------------
(* DELETE /clientes/{id}: ClienteService.eliminar.                          *)

\* The client exists.
AbrirBorrado(a, c) ==
    /\ VivoCliente(c)
    /\ Abrir(a, [op |-> "borrar", cli |-> c, vistas |-> {}])
    /\ UNCHANGED filas

\* The client has no policies.  (vistas, which the program does not keep, is what
\* there was to see.)
ComprobarPolizas(a) ==
    LET q == peticion[a]
    IN /\ q.op = "borrar"
       /\ \A p \in Polizas : VivaPoliza(p) => poliza[p].titular # q.cli
       /\ peticion' = [peticion EXCEPT ![a].op = "borrarSinPolizas",
                                       ![a].vistas = {p \in Polizas : VivaPoliza(p)}]
       /\ UNCHANGED filas

\* Mutant: only the policies are asked for.
ComprobarVehiculos_Ninguno(a) ==
    /\ peticion[a].op = "borrarSinPolizas"
    /\ Avanzar(a, "borrarSinNada")
    /\ UNCHANGED filas

\* The client has no vehicles.
ComprobarVehiculos(a) ==
    /\ peticion[a].op = "borrarSinPolizas"
    /\ \A v \in Vehiculos : VivoVehiculo(v) => vehiculo[v].dueno # peticion[a].cli
    /\ Avanzar(a, "borrarSinNada")
    /\ UNCHANGED filas

\* What goes with a client, by the cascades of the ORM and of the foreign keys.
VehiculosDe(c) == {v \in Vehiculos : VivoVehiculo(v) /\ vehiculo[v].dueno = c}
PolizasDe(c) == {p \in Polizas : VivaPoliza(p) /\
                    (poliza[p].titular = c \/ poliza[p].auto \in VehiculosDe(c))}

\* Mutant: the policies go with their client, not with their vehicle.
Borrar_SinVehiculo(a) ==
    LET c == peticion[a].cli
    IN /\ peticion[a].op = "borrarSinNada"
       /\ VivoCliente(c)
       /\ cliente' = [cliente EXCEPT ![c] = "borrado"]
       /\ vehiculo' = [v \in Vehiculos |-> IF v \in VehiculosDe(c) THEN Borrada ELSE vehiculo[v]]
       /\ poliza' = [p \in Polizas |-> IF VivaPoliza(p) /\ poliza[p].titular = c
                                       THEN Borrada ELSE poliza[p]]
       /\ Cerrar(a)

Borrar(a) ==
    LET c == peticion[a].cli
    IN /\ peticion[a].op = "borrarSinNada"
       /\ VivoCliente(c)
       /\ cliente' = [cliente EXCEPT ![c] = "borrado"]
       /\ vehiculo' = [v \in Vehiculos |-> IF v \in VehiculosDe(c) THEN Borrada ELSE vehiculo[v]]
       /\ poliza' = [p \in Polizas |-> IF p \in PolizasDe(c) THEN Borrada ELSE poliza[p]]
       /\ Cerrar(a)

\* A refusal, a constraint, a row that is gone or an error of the database: rollback.
Abandonar(a) ==
    /\ peticion[a] # Libre
    /\ Cerrar(a)
    /\ UNCHANGED filas

Next == \E a \in Peticiones :
    \/ \E c \in Clientes : AbrirRegistro(a, c) \/ AbrirBorrado(a, c)
    \/ \E v \in Vehiculos, c \in Clientes : AbrirVehiculo(a, v, c)
    \/ \E p \in Polizas, c \in Clientes, v \in Vehiculos, d \in Duraciones :
            AbrirPoliza(a, p, c, v, d)
    \/ \E p \in Polizas, i \in 1 .. MaxCuotas, r \in Recibos : AbrirPago(a, p, i, r)
    \/ ConfirmarRegistro(a) \/ ConfirmarVehiculo(a) \/ ConfirmarPoliza(a) \/ ConfirmarPago(a)
    \/ ComprobarPolizas(a) \/ ComprobarVehiculos(a) \/ Borrar(a)
    \/ Abandonar(a)

Spec == Init /\ [][Next]_vars

-----------------------------------------------------------------------------
\* Types, and the references between the tables: a vehicle has a living owner, a
\* policy a living holder and a living vehicle, whatever is deleted under it.
TypeOK ==
    /\ cliente \in [Clientes -> {"sin", "vivo", "borrado"}]
    /\ vehiculo \in [Vehiculos -> FilasVehiculo \union {SinFila, Borrada}]
    /\ poliza \in [Polizas -> FilasPoliza \union {SinFila, Borrada}]
    /\ peticion \in [Peticiones -> Abiertas \union {Libre}]
    /\ \A v \in Vehiculos : VivoVehiculo(v) => VivoCliente(vehiculo[v].dueno)
    /\ \A p \in Polizas : VivaPoliza(p) =>
            VivoCliente(poliza[p].titular) /\ VivoVehiculo(poliza[p].auto)

\* One mistyped digit never registers a second client: two registered
\* identifications of a kind differ in more than one of the digits under the verifier.
IdentificacionesDistinguibles ==
    \A c, k \in Clientes :
        cliente[c] # "sin" /\ cliente[k] # "sin" => ~ UnDigitoDistinto(c, k)

\* The installments of a policy fall due inside its term, one per period from its
\* first day, and after the last there is no more than a period and a half of it,
\* unless the plan has all the installments a plan can have.
PlanDePagos ==
    \A p \in Polizas : VivaPoliza(p) =>
        LET c == poliza[p].cuotas
            n == Len(c)
        IN /\ \A i \in 1 .. n : c[i].vence >= 0 /\ c[i].vence < poliza[p].dias
           /\ \A i \in 1 .. n - 1 : c[i + 1].vence = c[i].vence + Periodo
           /\ n < MaxCuotas => 2 * (poliza[p].dias - c[n].vence) <= 3 * Periodo

\* A paid row pairs a method and a receipt of one payment, unless a correction of an
\* installment that was already paid meets another payment of it, a correction or a first
\* payment that commits late: payments that read what the row holds never mix.
ReciboDeUnPago ==
    [][\A p \in Polizas : VivaPoliza(p) /\ VivaPoliza(p)' =>
        \A i \in DOMAIN poliza[p].cuotas :
            LET antes == poliza[p].cuotas[i].abono
                despues == poliza'[p].cuotas[i].abono
            IN antes \in Recibos \union {Pendiente} /\ despues \notin Recibos \union {Pendiente}
               => \E a \in Peticiones :
                    /\ peticion[a].op = "pago" /\ peticion'[a] = Libre
                    /\ peticion[a].pol = p /\ peticion[a].cuota = i
                    /\ peticion[a].visto \notin {Pendiente, antes}]_vars

\* A policy disappears only with the deletion of a client, and only one that was
\* committed after that deletion had looked for policies: no policy that it could
\* see is lost, neither the client's own nor one of another client on its vehicle.
PerdidaSoloPorCarrera ==
    [][\A p \in Polizas : VivaPoliza(p) /\ ~ VivaPoliza(p)' =>
        \E a \in Peticiones :
            /\ peticion[a].op = "borrarSinNada" /\ peticion'[a] = Libre
            /\ p \notin peticion[a].vistas]_vars
=============================================================================

SPECIFICATION Spec
CONSTANTS
    Nada = Nada
    a1 = a1
    a2 = a2
    p1 = p1
    Peticiones = {a1, a2}
    Clientes <- MCClientes
    Vehiculos = {"v1", "v2"}
    Polizas = {p1}
    Duraciones = {0, 1, 2, 9, 10}
    Recibos <- MCRecibos
    VigenciaMaxima = 9
    Periodo = 2
    MaxCuotas = 2
SYMMETRY Simetria
INVARIANTS
    TypeOK
    IdentificacionesDistinguibles
    PlanDePagos
PROPERTIES
    ReciboDeUnPago
    PerdidaSoloPorCarrera
CHECK_DEADLOCK FALSE

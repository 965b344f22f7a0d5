SPECIFICATION FairSpec
CONSTANTS
    p1 = p1
    a1 = a1
    Polizas = {p1}
    Agentes = {a1}
    UltimoDia = 3
    DiasAviso = 1
    VigenciaMaxima = 2
INVARIANTS
    TypeOK
    PlanFundado
PROPERTIES
    TransicionConFecha
    CancelacionFirme
    TodaPolizaVence
    CorridaCompleta
CHECK_DEADLOCK FALSE

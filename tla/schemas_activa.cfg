SPECIFICATION Spec
CONSTANTS
    f1 = f1
    f2 = f2
    f3 = f3
    a1 = a1
    a2 = a2
    k1 = k1
    k2 = k2
    Ninguno = Ninguno
    Filas = {f1, f2, f3}
    Codigos = {"V"}
    Activaciones = {a1, a2}
    Altas = {k1, k2}
    Plantillas <- MCPlantillas
    Archivos = {}
    MaxTamano = 9
    MaxPaginas = 2
    PaginasDigitales = 2
    LadoMaximo = 4
    PixelesMaximos = 12
    UmbralDigital = 1
    MaxCampos = 3
    MaxParentesis = 2
    MaxGrupo = 2
SYMMETRY Simetria
INVARIANTS
    UnaActiva
CHECK_DEADLOCK FALSE

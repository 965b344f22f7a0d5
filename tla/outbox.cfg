SPECIFICATION FairSpec
CONSTANTS
    Documentos = {1, 2}
    Trabajadores = {w1, w2}
    Revisores = {r1}
    MaxIntentos = 3
INVARIANTS
    TypeOK
    SeleccionExclusiva
    ArriendoCoherente
    ResultadoCoherente
    EjecucionesAcotadas
PROPERTIES
    CumpleCicloDeVida
    CorreccionNoRevertida
    TodoDocumentoTermina

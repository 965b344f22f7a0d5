SPECIFICATION Spec
CONSTANTS
    Documentos = {1}
    Trabajadores = {w1}
    Revisores = {r1}
    MaxIntentos = 3
PROPERTIES
    PoolListoTrasFallo

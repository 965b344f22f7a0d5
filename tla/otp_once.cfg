SPECIFICATION Spec
CONSTANTS
    Nadie = Nadie
    c1 = c1
    e1 = e1
    e2 = e2
    e3 = e3
    r1 = r1
    r2 = r2
    o1 = o1
    o2 = o2
    Clientes = {c1}
    Correos = {e1, e2}
    Solicitudes = {r1, r2}
    Operadores = {o1}
    MaxFallos = 3
    MaxCodigos = 1
    MaxCuentas = 2
INVARIANTS
    CodigoUnicoUso
SYMMETRY Simetria
CHECK_DEADLOCK FALSE

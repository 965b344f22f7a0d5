SPECIFICATION Spec
CONSTANTS
    r1 = r1
    r2 = r2
    Solicitudes = {r1, r2}
    MaxLogins = 2
    MaxSesiones = 4
INVARIANTS
    TypeOK
    SucesionCoherente
PROPERTIES
    FamiliaMuertaNoRevive
SYMMETRY Simetria

SPECIFICATION Spec
CONSTANTS
    r1 = r1
    r2 = r2
    Solicitudes = {r1, r2}
    MaxLogins = 2
    MaxSesiones = 4
INVARIANTS
    FamiliaInvalidadaSinSesiones
SYMMETRY Simetria

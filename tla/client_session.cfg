SPECIFICATION Spec
CONSTANTS
    p1 = p1
    p2 = p2
    e1 = e1
    e2 = e2
    Peticiones = {p1, p2}
    Envios = {e1, e2}
    MaxLogins = 2
    MaxSesiones = 3
SYMMETRY Simetria
INVARIANTS
    TypeOK
    ReusoNuncaPropio
    PantallaConSesion

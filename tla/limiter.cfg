SPECIFICATION FairSpec
CONSTANTS
    p1 = p1
    p2 = p2
    i1 = i1
    u1 = u1
    Peticiones = {p1, p2}
    Ips = {i1}
    Identidades = {u1}
    Flujos = {"login"}
    Maximo <- MCMaximo
    Ventana <- MCVentana
    UmbralFallos = 2
    UmbralRafaga = 2
    DuracionBloqueo = 2
INVARIANTS
    TypeOK
    CuposAcotados
PROPERTIES
    BloqueoCedeAnteLoPrevio
    BloqueoTermina

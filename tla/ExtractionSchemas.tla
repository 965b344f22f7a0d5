-------------------------- MODULE ExtractionSchemas --------------------------
(***************************************************************************)
(* The versions of an extraction schema (endpoints/esquemas.py) and the    *)
(* document whose fields are read with the active one.  The schemas of     *)
(* policies (endpoints/esquemas_poliza.py) have the same two handlers.     *)
(*                                                                         *)
(* The database runs each request in a transaction under READ COMMITTED: a *)
(* statement sees what was committed when it began, the bulk UPDATE locks  *)
(* the rows it found one by one and waits for those locked by another, and *)
(* a cycle of waits ends with the abort of one of its transactions.        *)
(***************************************************************************)
EXTENDS Extraction

CONSTANTS
    Filas,          \* ids that rows of esquemas_extraccion may get
    Codigos,
    Activaciones,   \* requests to activate that can be open at a time
    Altas,          \* requests to create that can be open at a time
    Plantillas,     \* lists of rules a client may send
    Archivos,       \* files a client may upload
    Ninguno         \* no row, no request, no document

Fila == [codigo : Codigos, version : Nat \ {0}, activo : BOOLEAN, campos : Plantillas]
Activacion == [fase : {"leida", "desactivando"}, fila : Filas, activo : BOOLEAN,
               faltan : SUBSET Filas, sola : BOOLEAN]
Alta == [codigo : Codigos, version : Nat \ {0}, campos : Plantillas]

ASSUME EsquemasAssumption ==
    /\ Ninguno \notin Fila \union Activacion \union Alta \union Activaciones
    /\ IsFiniteSet(Altas)
    /\ \A g \in Plantillas :
            /\ Len(g) \in Nat /\ DOMAIN g = 1 .. Len(g)
            /\ \A i \in DOMAIN g : Nulo \notin {g[i].marca, g[i].captura}
    /\ \A f \in Archivos :
            /\ f.tamano \in Nat
            /\ f.mime \in {"pdf", "imagen", "otro"}
            /\ Len(f.hojas) \in Nat /\ DOMAIN f.hojas = 1 .. Len(f.hojas)

VARIABLES
    esquema,      \* committed rows
    cerrojo,      \* cerrojo[r]: request whose transaction has row r locked
    activacion,   \* open requests to activate
    alta,         \* open requests to create, after their SELECT max(version)
    documento,    \* one document on its way through the extraction
    ordenados     \* history: codes whose active version no race has unsettled

vars == <<esquema, cerrojo, activacion, alta, documento, ordenados>>

Existentes(c) == {r \in Filas : esquema[r] # Ninguno /\ esquema[r].codigo = c}
Activas(c) == {r \in Existentes(c) : esquema[r].activo}

Init ==
    /\ esquema = [r \in Filas |-> Ninguno]
    /\ cerrojo = [r \in Filas |-> Ninguno]
    /\ activacion = [a \in Activaciones |-> Ninguno]
    /\ alta = [k \in Altas |-> Ninguno]
    /\ documento = Ninguno
    /\ ordenados = {}

\* Open activations of code c.
AbiertasDe(c) == {a \in Activaciones :
    activacion[a] # Ninguno /\ esquema[activacion[a].fila].codigo = c}

-----------------------------------------------------------------------------
\* Mutant: the version is the number of rows of the code.
EsMaxima_PorConteo(c, v) == v = Cardinality(Existentes(c))

\* v is max(version), 0 when the code is new.
EsMaxima(c, v) ==
    IF Existentes(c) = {} THEN v = 0
    ELSE /\ v \in {esquema[r].version : r \in Existentes(c)}
         /\ \A r \in Existentes(c) : esquema[r].version <= v

\* Mutant: the new row takes the version read.
LeerVersion_SinSumar(k, c, g) ==
    /\ alta[k] = Ninguno
    /\ PlantillaValida(g)
    /\ \E v \in 0 .. Cardinality(Filas) :
            /\ EsMaxima(c, v)
            /\ alta' = [alta EXCEPT ![k] = [codigo |-> c, version |-> v, campos |-> g]]
    /\ UNCHANGED <<esquema, cerrojo, activacion, documento, ordenados>>

\* crear_esquema up to its commit.
LeerVersion(k, c, g) ==
    /\ alta[k] = Ninguno
    /\ PlantillaValida(g)
    /\ \E v \in 0 .. Cardinality(Filas) :
            /\ EsMaxima(c, v)
            /\ alta' = [alta EXCEPT ![k] = [codigo |-> c, version |-> v + 1, campos |-> g]]
    /\ UNCHANGED <<esquema, cerrojo, activacion, documento, ordenados>>

\* Its INSERT, under a new id, and commit.  No constraint makes a version unique.
Libres == {r \in Filas : esquema[r] = Ninguno}
ConfirmarAlta(k) ==
    /\ alta[k] # Ninguno
    /\ Libres # {}
    /\ esquema' = [esquema EXCEPT ![CHOOSE r \in Libres : TRUE] =
            [codigo |-> alta[k].codigo, version |-> alta[k].version,
             activo |-> FALSE, campos |-> alta[k].campos]]
    /\ alta' = [alta EXCEPT ![k] = Ninguno]
    /\ activacion' = [a \in Activaciones |->
            IF a \in AbiertasDe(alta[k].codigo) THEN [activacion[a] EXCEPT !.sola = FALSE]
            ELSE activacion[a]]
    /\ ordenados' = IF AbiertasDe(alta[k].codigo) = {} THEN ordenados
                    ELSE ordenados \ {alta[k].codigo}
    /\ UNCHANGED <<cerrojo, documento>>

-----------------------------------------------------------------------------
\* activar_esquema reads the row.  A version read as active will not be written: the
\* session sees no change in it.
LeerEsquema(a, r) ==
    LET c == esquema[r].codigo
        otras == AbiertasDe(c)
        choque == \E b \in otras :
            /\ activacion[b].fila # r
            /\ activacion[b].activo \/ esquema[r].activo
    IN /\ activacion[a] = Ninguno
       /\ esquema[r] # Ninguno
       /\ activacion' = [b \in Activaciones |->
            IF b = a THEN [fase |-> "leida", fila |-> r, activo |-> esquema[r].activo,
                           faltan |-> {}, sola |-> otras = {}]
            ELSE IF b \in otras THEN [activacion[b] EXCEPT !.sola = FALSE]
            ELSE activacion[b]]
       /\ ordenados' = IF choque THEN ordenados \ {c} ELSE ordenados
       /\ UNCHANGED <<esquema, cerrojo, alta, documento>>

\* Mutant: the update takes the rows that are active instead of all the others.
EmpezarDesactivacion_SoloActivas(a) ==
    LET q == activacion[a]
    IN /\ q # Ninguno /\ q.fase = "leida"
       /\ activacion' = [activacion EXCEPT ![a].fase = "desactivando",
            ![a].faltan = Activas(esquema[q.fila].codigo) \ {q.fila}]
       /\ UNCHANGED <<esquema, cerrojo, alta, documento, ordenados>>

\* The bulk UPDATE begins: its snapshot has the rows of the code committed by now.
EmpezarDesactivacion(a) ==
    LET q == activacion[a]
    IN /\ q # Ninguno /\ q.fase = "leida"
       /\ activacion' = [activacion EXCEPT ![a].fase = "desactivando",
            ![a].faltan = Existentes(esquema[q.fila].codigo) \ {q.fila}]
       /\ UNCHANGED <<esquema, cerrojo, alta, documento, ordenados>>

\* It writes one of its rows.
Desactivar(a, r) ==
    LET q == activacion[a]
    IN /\ q # Ninguno /\ q.fase = "desactivando"
       /\ r \in q.faltan
       /\ cerrojo[r] = Ninguno
       /\ cerrojo' = [cerrojo EXCEPT ![r] = a]
       /\ activacion' = [activacion EXCEPT ![a].faltan = @ \ {r}]
       /\ UNCHANGED <<esquema, alta, documento, ordenados>>

Soltar(a) == [r \in Filas |-> IF cerrojo[r] = a THEN Ninguno ELSE cerrojo[r]]

\* The commit flushes es_activo = True, of the row itself, if that is a change and once
\* no other has it locked; what the transaction wrote is seen all at once.
ConfirmarActivacion(a) ==
    LET q == activacion[a]
        escritas == {r \in Filas : cerrojo[r] = a}
    IN /\ q # Ninguno /\ q.fase = "desactivando" /\ q.faltan = {}
       /\ q.activo \/ cerrojo[q.fila] = Ninguno
       /\ esquema' = [r \in Filas |->
            IF r \in escritas THEN [esquema[r] EXCEPT !.activo = FALSE]
            ELSE IF r = q.fila /\ ~ q.activo THEN [esquema[r] EXCEPT !.activo = TRUE]
            ELSE esquema[r]]
       /\ cerrojo' = Soltar(a)
       /\ activacion' = [activacion EXCEPT ![a] = Ninguno]
       /\ ordenados' = IF q.sola THEN ordenados \union {esquema[q.fila].codigo} ELSE ordenados
       /\ UNCHANGED <<alta, documento>>

\* The request ends by an error, and its transaction is rolled back: the database
\* aborts it to break a cycle of waits, or its connection is lost.
Abortar(a) ==
    /\ activacion[a] # Ninguno
    /\ cerrojo' = Soltar(a)
    /\ activacion' = [activacion EXCEPT ![a] = Ninguno]
    /\ UNCHANGED <<esquema, alta, documento, ordenados>>

-----------------------------------------------------------------------------
EnFase(f) == documento # Ninguno /\ documento.fase = f

\* cargar_documento, of a new document once the former has ended.
Guardar(f) ==
    /\ documento = Ninguno \/ EnFase("completado") \/ EnFase("error")
    /\ Guardable(f)
    /\ documento' = [fase |-> "pendiente", archivo |-> f]
    /\ UNCHANGED <<esquema, cerrojo, activacion, alta, ordenados>>

\* procesar_documento_adquirido: the rules of some active schema, of whatever code, or
\* no rules, and the extraction with them.  The rules of a version never change, so what
\* becomes of it while the extraction runs changes no result.
Procesar ==
    /\ EnFase("pendiente")
    /\ \E g \in IF \E c \in Codigos : Activas(c) # {}
                  THEN {esquema[r].campos : r \in UNION {Activas(c) : c \in Codigos}}
                  ELSE {<<>>} :
            LET resultado == Extraer(documento.archivo, g)
            IN documento' = [fase |-> IF resultado = Fallo THEN "error" ELSE "completado",
                             archivo |-> documento.archivo, reglas |-> g,
                             resultado |-> resultado]
    /\ UNCHANGED <<esquema, cerrojo, activacion, alta, ordenados>>

Next ==
    \/ \E k \in Altas, c \in Codigos, g \in Plantillas : LeerVersion(k, c, g)
    \/ \E k \in Altas : ConfirmarAlta(k)
    \/ \E a \in Activaciones, r \in Filas : LeerEsquema(a, r) \/ Desactivar(a, r)
    \/ \E a \in Activaciones :
            EmpezarDesactivacion(a) \/ ConfirmarActivacion(a) \/ Abortar(a)
    \/ \E f \in Archivos : Guardar(f)
    \/ Procesar

Spec == Init /\ [][Next]_vars

-----------------------------------------------------------------------------
TypeOK ==
    /\ esquema \in [Filas -> Fila \union {Ninguno}]
    /\ cerrojo \in [Filas -> Activaciones \union {Ninguno}]
    /\ activacion \in [Activaciones -> Activacion \union {Ninguno}]
    /\ alta \in [Altas -> Alta \union {Ninguno}]
    /\ documento # Ninguno =>
            /\ documento.archivo \in Archivos
            /\ documento.fase # "pendiente" => documento.reglas \in Plantillas \union {<<>>}
    /\ ordenados \subseteq Codigos

\* The versions of a code have no gaps, whatever requests create them at once; as many
\* requests as are open at a time, and no more, can get the same number.
VersionesSeguidas ==
    \A c \in Codigos, r \in Filas : r \in Existentes(c) =>
        /\ esquema[r].version > 1 =>
                \E s \in Existentes(c) : esquema[s].version = esquema[r].version - 1
        /\ Cardinality({s \in Existentes(c) : esquema[s].version = esquema[r].version})
                <= Cardinality(Altas)

\* Once an activation has run alone, its code has exactly one active version, and
\* concurrent activations, aborted ones too, keep it so, until one of two races: a
\* version created while an activation is open, or the active version activated again
\* while another version is.
ActivacionUnica == \A c \in ordenados : Cardinality(Activas(c)) = 1

\* crear_esquema, activar_esquema: a code has at most one active version.
UnaActiva == \A c \in Codigos : Cardinality(Activas(c)) <= 1

\* Every page of a PDF is in a text, as far as its gate can read it.
PaginasLeidas(f, resultado) == \A i \in DOMAIN f.hojas :
    (IF resultado.metodo = "pdfplumber" THEN f.hojas[i].digital ELSE f.hojas[i].ocr)
        \subseteq resultado.texto

\* A rule that can raise: a group that its pattern does not have, or one that may take
\* no part in a match.
GrupoInseguro(r) == 0 < r.grupos /\ (r.grupos < r.grupo \/ r.captura # r.marca)

\* A PDF that needs OCR and has a page that cannot be drawn, which the upload does not
\* look at.
SinDibujo(f) ==
    /\ f.mime = "pdf" /\ ~ (Cardinality(Compuerta1(f)) > UmbralDigital)
    /\ \E i \in DOMAIN f.hojas : ~ f.hojas[i].dibujable

\* Upload, extraction and probe agree on what a file is: every page of a stored PDF is
\* in the text, whatever gate reads it; the extraction of a stored file fails only by
\* a rule that can raise or a page that cannot be drawn where OCR is needed; and a probe
\* of the same rules on the file answers what was stored.
AceptadoEsLegible ==
    /\ EnFase("completado") /\ documento.archivo.mime = "pdf" =>
            PaginasLeidas(documento.archivo, documento.resultado)
    /\ EnFase("error") =>
            \/ \E i \in DOMAIN documento.reglas : GrupoInseguro(documento.reglas[i])
            \/ SinDibujo(documento.archivo)
    /\ EnFase("completado") \/ EnFase("error") =>
            Probar(documento.archivo, documento.reglas) = documento.resultado

\* The confidence stored with a result is the share of its fields that have a value,
\* in hundredths.
ConfianzaCoherente ==
    EnFase("completado") =>
        LET campos == documento.resultado.campos
            leidos == {n \in DOMAIN campos : campos[n] # Nulo}
        IN documento.resultado.confianza =
            IF DOMAIN campos = {} THEN 0
            ELSE RedondeoPar(10000 * Cardinality(leidos), Cardinality(DOMAIN campos))
=============================================================================

----------------------------- MODULE Extraction -----------------------------
(***************************************************************************)
(* What an upload accepts (services/storage_service.py) and what the two   *)
(* gates of the extraction make of it (services/extraccion_service.py).    *)
(*                                                                         *)
(* A text is the set of marks that patterns look for in it, each mark as   *)
(* long as one unit of the threshold.  A page has the marks of its digital *)
(* text and those OCR reads on its image; where both attempts at OCR fail  *)
(* it reads none.  A page may break pdfplumber (rota), or be one that      *)
(* pdfium does not load or draw (not dibujable).                           *)
(***************************************************************************)
EXTENDS Naturals, Sequences, FiniteSets, Rounding

CONSTANTS
    MaxTamano,        \* MAX_DOCUMENT_SIZE_BYTES
    MaxPaginas,       \* MAX_PDF_PAGES_PERMITTED, of the upload and of gate 2
    PaginasDigitales, \* pages that gate 1 reads, a 10 of its own
    LadoMaximo,       \* MAX_IMAGE_DIMENSION_PX
    PixelesMaximos,   \* MAX_IMAGE_PIXELS
    UmbralDigital,    \* GATE1_TEXT_LENGTH_THRESHOLD
    MaxCampos,        \* MAX_CAMPOS_POR_ESQUEMA
    MaxParentesis,    \* parentheses of a pattern
    MaxGrupo          \* largest grupo_captura

ASSUME ExtraccionAssumption ==
    /\ {MaxTamano, MaxPaginas, PaginasDigitales, LadoMaximo, PixelesMaximos}
            \subseteq Nat \ {0}
    /\ {UmbralDigital, MaxCampos, MaxParentesis, MaxGrupo} \subseteq Nat

\* What extraer_documento_sync raises.
Fallo == [metodo |-> "fallo"]
\* None, the value of a field that matched nothing.
Nulo == "nulo"

Menor(a, b) == IF a <= b THEN a ELSE b

-----------------------------------------------------------------------------
\* Files.  mime is the type declared, firma the type of the first bytes, ext that of
\* the extension: "pdf", "imagen" or "otro".

\* _validate_magic_bytes
FirmaValida(f, mime) == f.tamano >= 4 /\ mime # "otro" /\ f.firma = mime

\* is_image_file
EsImagen(f) == f.ext = "imagen" \/ FirmaValida(f, "imagen")

\* validate_image_dimensions raises nothing.
DimensionesValidas(f) ==
    /\ ~ f.danado
    /\ f.ancho <= LadoMaximo /\ f.alto <= LadoMaximo
    /\ f.ancho * f.alto <= PixelesMaximos

\* Mutant: the limit of pages lets one more through.
Guardable_UnaMas(f) ==
    /\ f.tamano <= MaxTamano
    /\ FirmaValida(f, f.mime)
    /\ f.ext = f.mime
    /\ f.mime = "pdf" => ~ f.danado /\ Len(f.hojas) <= MaxPaginas + 1
    /\ f.mime = "imagen" => DimensionesValidas(f)

\* save_file stores the file.
Guardable(f) ==
    /\ f.tamano <= MaxTamano
    /\ FirmaValida(f, f.mime)
    /\ f.ext = f.mime
    /\ f.mime = "pdf" => ~ f.danado /\ Len(f.hojas) <= MaxPaginas
    /\ f.mime = "imagen" => DimensionesValidas(f)

-----------------------------------------------------------------------------
\* Rules.  marca is what the pattern looks for, grupos the groups it has, captura what
\* the group that grupo_captura names takes: another mark, when the group is optional.

\* CampoReglaCreate: the pattern compiles and repeats nothing nested, and a date, and
\* only a date, has a format.
ReglaValida(r) ==
    /\ r.compila
    /\ r.grupos <= MaxParentesis
    /\ r.grupo \in 1 .. MaxGrupo
    /\ (r.tipo = "fecha") = r.conFormato

\* Mutant: a name may come twice.
PlantillaValida_Repetida(reglas) ==
    /\ Len(reglas) \in 1 .. MaxCampos
    /\ \A i \in DOMAIN reglas : ReglaValida(reglas[i])

\* EsquemaCreate
PlantillaValida(reglas) ==
    /\ Len(reglas) \in 1 .. MaxCampos
    /\ \A i \in DOMAIN reglas : ReglaValida(reglas[i])
    /\ \A i, j \in DOMAIN reglas : reglas[i].nombre = reglas[j].nombre => i = j

Acierta(r, texto) == r.marca \in texto
Valor(r) == IF r.grupos = 0 THEN r.marca ELSE r.captura

\* The IndexError of a group the pattern does not have, or the AttributeError of one
\* that took no part in the match.
Rompe(r, texto) ==
    /\ Acierta(r, texto)
    /\ 0 < r.grupos
    /\ r.grupos < r.grupo \/ r.captura \notin texto

\* aplicar_esquema, of rules in their order: the last rule of a name gives its value.
AplicarEsquema(texto, reglas) ==
    LET nombres == {reglas[i].nombre : i \in DOMAIN reglas}
        ultima(n) == CHOOSE i \in DOMAIN reglas :
            reglas[i].nombre = n /\ \A j \in DOMAIN reglas : reglas[j].nombre = n => j <= i
        aciertos == Cardinality({i \in DOMAIN reglas : Acierta(reglas[i], texto)})
    IN [campos |-> [n \in nombres |->
            LET r == reglas[ultima(n)] IN IF Acierta(r, texto) THEN Valor(r) ELSE Nulo],
        confianza |-> IF reglas = <<>> THEN 0
                      ELSE RedondeoPar(10000 * aciertos, Len(reglas))]

-----------------------------------------------------------------------------
\* Gate 1: pdfplumber reads the first pages; any error leaves no text at all.
Compuerta1(f) ==
    LET leidas == 1 .. Menor(Len(f.hojas), PaginasDigitales)
    IN IF f.danado \/ \E i \in leidas : f.hojas[i].rota THEN {}
       ELSE UNION {f.hojas[i].digital : i \in leidas}

\* Gate 2: the first frame of an image, or the first pages of a PDF one by one; any
\* other extension reads nothing.
Rasterizadas(f) ==
    1 .. Menor(Len(f.hojas), CASE f.ext = "pdf" -> MaxPaginas
                               [] f.ext = "imagen" -> 1
                               [] OTHER -> 0)

\* A file that cannot be opened raises, and so does a page of a PDF that is not drawn.
Legible(f) ==
    /\ f.ext # "otro" => ~ f.danado
    /\ f.ext = "pdf" => \A i \in Rasterizadas(f) : f.hojas[i].dibujable

Compuerta2(f) == UNION {f.hojas[i].ocr : i \in Rasterizadas(f)}

\* The answer for a text, or the exception of one of its rules.
Informe(metodo, texto, reglas) ==
    IF \E i \in DOMAIN reglas : Rompe(reglas[i], texto) THEN Fallo
    ELSE LET a == AplicarEsquema(texto, reglas)
         IN [metodo |-> metodo, texto |-> texto, confianza |-> a.confianza, campos |-> a.campos]

\* extraer_documento_sync
Extraer(f, reglas) ==
    IF f.ext = "pdf" /\ Cardinality(Compuerta1(f)) > UmbralDigital
      THEN Informe("pdfplumber", Compuerta1(f), reglas)
    ELSE IF ~ Legible(f) THEN Fallo
    ELSE Informe("tesseract_200dpi", Compuerta2(f), reglas)

\* probar_esquema: the answer, or Fallo for each of its refusals.
Probar(f, reglas) ==
    IF f.tamano = 0 \/ f.tamano > MaxTamano \/ (EsImagen(f) /\ ~ DimensionesValidas(f))
      THEN Fallo
    ELSE Extraer(f, reglas)
=============================================================================

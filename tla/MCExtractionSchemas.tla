------------------------ MODULE MCExtractionSchemas ------------------------
(* An instance of ExtractionSchemas for TLC.                                *)
EXTENDS ExtractionSchemas, TLC

CONSTANTS f1, f2, f3, a1, a2, k1, k2

Hoja(digital, ocr) ==
    [digital |-> digital, ocr |-> ocr, rota |-> FALSE, dibujable |-> TRUE]
Rota == [Hoja({"placa"}, {"placa"}) EXCEPT !.rota = TRUE]
Vacia == [Hoja({"fecha"}, {}) EXCEPT !.dibujable = FALSE]

Pdf(hojas) == [tamano |-> 9, mime |-> "pdf", firma |-> "pdf", ext |-> "pdf",
               danado |-> FALSE, ancho |-> 0, alto |-> 0, hojas |-> hojas]
Imagen(ancho, alto) == [tamano |-> 9, mime |-> "imagen", firma |-> "imagen", ext |-> "imagen",
               danado |-> FALSE, ancho |-> ancho, alto |-> alto,
               hojas |-> <<Hoja({}, {"placa", "fecha"})>>]

Digital == Hoja({"placa", "sello"}, {"placa"})
Escaneada == Hoja({}, {"fecha"})

\* Files at each side of the limits (of 2 pages, 4 by 4 and 12 pixels), read by
\* each gate, with a page that breaks pdfplumber, or pdfium (Vacia) where OCR is needed
\* and where it is not.
MCArchivos == {
    Pdf(<<Rota, Escaneada>>), Pdf(<<Digital, Digital, Vacia>>),
    Pdf(<<Digital, Vacia>>), Pdf(<<Escaneada, Vacia>>),
    [Pdf(<<Digital>>) EXCEPT !.danado = TRUE], [Pdf(<<Digital>>) EXCEPT !.firma = "imagen"],
    Imagen(3, 4), Imagen(4, 4), Imagen(5, 1)}

Regla(nombre, marca, grupos, captura) ==
    [nombre |-> nombre, marca |-> marca, grupos |-> grupos, grupo |-> 1, captura |-> captura,
     tipo |-> "texto", conFormato |-> FALSE, compila |-> TRUE]

\* A list of rules that is accepted, with an optional group and a field that no text
\* has, and one with a repeated name.
MCPlantillas == {
    <<Regla("a", "placa", 0, "placa"), Regla("b", "placa", 1, "fecha"),
      Regla("c", "monto", 1, "monto")>>,
    <<Regla("a", "monto", 0, "monto"), Regla("a", "placa", 0, "placa")>>}

Simetria == Permutations(Activaciones) \union Permutations(Altas)
=============================================================================

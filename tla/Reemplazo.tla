----------------------------- MODULE Reemplazo -----------------------------
(***************************************************************************)
(* The loops of the page replacement of memoria/memoria.c, one iteration   *)
(* at a time, for one process whose MARCOS_POR_PROCESO frames are all      *)
(* taken: the process uses and writes its pages, and every page fault runs *)
(* reemplazar_pagina_clock or the passes of                                *)
(* reemplazar_pagina_clock_modificado from where the cursor was left.      *)
(*                                                                         *)
(* A definition with the comment "Variant" is a plausible bug in the       *)
(* definition that follows it.                                             *)
(***************************************************************************)
EXTENDS Clock

VARIABLES
  algoritmo_reemplazo,  \* read from the config, at the start
  bits,      \* use and modified bits, by position in the sorted list
  cursor,    \* the global cursor
  paso,      \* the loop that runs, or what comes after it
  i,         \* its counter
  victima,   \* the page a loop returned
  pedido     \* bits and cursor when the page fault happened

vars == <<algoritmo_reemplazo, bits, cursor, paso, i, victima, pedido>>

Ninguna == MARCOS_POR_PROCESO        \* NULL

Primero == IF algoritmo_reemplazo = "CLOCK" THEN "clock" ELSE "primer_paso"

(* Each page came in through a free frame, with its use bit set.           *)
Init ==
  /\ algoritmo_reemplazo \in Algoritmos
  /\ bits = [p \in Posiciones |-> [uso |-> TRUE, modificado |-> FALSE]]
  /\ cursor = 0 /\ paso = "libre" /\ i = 0 /\ victima = Ninguna
  /\ pedido = [bits |-> bits, cursor |-> cursor]

(* ejecutar_lectura and ejecutar_escritura.                                *)
Acceder(p, escribe) ==
  /\ paso = "libre"
  /\ bits' = [bits EXCEPT ![p] = [uso |-> TRUE, modificado |-> @.modificado \/ escribe]]
  /\ UNCHANGED <<cursor, paso, i, victima, pedido>>

PageFault ==
  /\ paso = "libre"
  /\ pedido' = [bits |-> bits, cursor |-> cursor]
  /\ paso' = Primero
  /\ i' = 0
  /\ UNCHANGED <<bits, cursor, victima>>

Elegir ==
  /\ victima' = cursor
  /\ paso' = "reemplazar"
  /\ i' = 0
  /\ UNCHANGED <<bits, cursor, pedido>>

Pasar(b) ==
  /\ bits' = b
  /\ cursor' = MoverCursor(cursor)
  /\ UNCHANGED <<paso, victima, pedido>>

\* Variant.
LimpiarTodo == [bits EXCEPT ![cursor] = [uso |-> FALSE, modificado |-> FALSE]]
SinUso == [bits EXCEPT ![cursor].uso = FALSE]

(* One iteration of the while of reemplazar_pagina_clock.                  *)
IterarClock ==
  /\ paso = "clock"
  /\ \/ ~bits[cursor].uso /\ Elegir
     \/ bits[cursor].uso /\ Pasar(SinUso) /\ UNCHANGED i

(* One iteration of clock_modificado_primer_paso, in its first or in its   *)
(* second call.                                                            *)
\* Variant.
EsLimpiaSinMirarUso == ~bits[cursor].modificado
EsLimpia == ~bits[cursor].uso /\ ~bits[cursor].modificado

IterarPrimerPaso ==
  /\ paso \in {"primer_paso", "primer_paso_otra_vez"}
  /\ i < MARCOS_POR_PROCESO
  /\ \/ EsLimpia /\ Elegir
     \/ ~EsLimpia /\ Pasar(bits) /\ i' = i + 1

(* One iteration of buscar_pagina_modif_sin_uso, in its first or in its    *)
(* second call.                                                            *)
IterarModificadaSinUso ==
  /\ paso \in {"modif_sin_uso", "modif_sin_uso_otra_vez"}
  /\ i < MARCOS_POR_PROCESO
  /\ LET elegible == ~bits[cursor].uso /\ bits[cursor].modificado IN
       \/ elegible /\ Elegir
       \/ ~elegible /\ Pasar(SinUso) /\ i' = i + 1

(* A loop that went round without finding a page returns NULL, and the     *)
(* next one is tried; the NULL of the last one is what would be replaced.  *)
Siguiente ==
  [primer_paso |-> "modif_sin_uso", modif_sin_uso |-> "primer_paso_otra_vez",
   primer_paso_otra_vez |-> "modif_sin_uso_otra_vez", modif_sin_uso_otra_vez |-> "reemplazar"]

\* Variant.
SinUltimaVuelta == [Siguiente EXCEPT !["primer_paso_otra_vez"] = "reemplazar"]
OtraVuelta == Siguiente

TerminarVuelta ==
  /\ paso \in DOMAIN OtraVuelta
  /\ i = MARCOS_POR_PROCESO
  /\ paso' = OtraVuelta[paso]
  /\ i' = 0
  /\ victima' = Ninguna
  /\ UNCHANGED <<bits, cursor, pedido>>

(* reemplazar_paginas: the new page takes the frame, so the place in the   *)
(* list, of the old one, with the bits it had when it left memory: never   *)
(* both, since the victim of a replacement is not in use and the page of a *)
(* suspension is left unmodified.                                          *)
ReemplazarPaginas(nueva) ==
  /\ paso = "reemplazar"
  /\ victima # Ninguna
  /\ ~(nueva.uso /\ nueva.modificado)
  /\ bits' = [bits EXCEPT ![victima] = nueva]
  /\ cursor' = MoverCursor(cursor)
  /\ paso' = "libre"
  /\ victima' = Ninguna
  /\ UNCHANGED <<i, pedido>>

Algoritmo ==
  \/ IterarClock \/ IterarPrimerPaso \/ IterarModificadaSinUso \/ TerminarVuelta
  \/ \E nueva \in Bits : ReemplazarPaginas(nueva)

Next ==
  /\ \/ \E p \in Posiciones, escribe \in BOOLEAN : Acceder(p, escribe)
     \/ PageFault
     \/ Algoritmo
  /\ UNCHANGED algoritmo_reemplazo

Spec == Init /\ [][Next]_vars /\ WF_vars(Algoritmo /\ UNCHANGED algoritmo_reemplazo)
-----------------------------------------------------------------------------
TypeOK ==
  /\ algoritmo_reemplazo \in Algoritmos
  /\ bits \in [Posiciones -> Bits]
  /\ cursor \in Posiciones
  /\ paso \in {"libre", "clock", "reemplazar"} \union DOMAIN Siguiente
  /\ i \in 0 .. MARCOS_POR_PROCESO
  /\ victima \in Posiciones \union {Ninguna}
  /\ pedido \in [bits : [Posiciones -> Bits], cursor : Posiciones]

(* Whatever the bits and wherever the cursor was left, the loops end with  *)
(* a page, the one module Clock names, and with the bits it says.          *)
CalculaReemplazada ==
  paso = "reemplazar" =>
    [victima |-> victima, bits |-> bits] = Reemplazada(algoritmo_reemplazo, pedido.bits, pedido.cursor)

(* The modified algorithm evicts a page of the lowest class there was when *)
(* the fault happened: in use counts more than modified.                   *)
Clase(b) == (IF b.uso THEN 2 ELSE 0) + (IF b.modificado THEN 1 ELSE 0)
ClaseMinima ==
  (paso = "reemplazar" /\ algoritmo_reemplazo = "CLOCK-M") =>
    \A p \in Posiciones : Clase(pedido.bits[victima]) <= Clase(pedido.bits[p])

(* Every page fault is served: the search for a victim ends.               *)
FaultAtendido == (paso # "libre") ~> (paso = "libre")
=============================================================================

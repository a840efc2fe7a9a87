------------------------------- MODULE Clock -------------------------------
(***************************************************************************)
(* What the page replacement of memoria/memoria.c chooses: the result of   *)
(* reemplazar_pagina_clock and reemplazar_pagina_clock_modificado as a     *)
(* function of the bits of the pages the process has in memory and of its  *)
(* cursor.  listado_memoria_actual_por_proceso is sorted by frame, so a    *)
(* page is its position in it.  Module Reemplazo is the code's loops and   *)
(* is shown to compute this.                                               *)
(***************************************************************************)
EXTENDS Integers, FiniteSetsExt

CONSTANT
  MARCOS_POR_PROCESO       \* of the memory module's config

ASSUME MarcosAssumption == MARCOS_POR_PROCESO \in Nat \ {0}

Algoritmos == {"CLOCK", "CLOCK-M"}      \* values of ALGORITMO_REEMPLAZO
Posiciones == 0 .. MARCOS_POR_PROCESO - 1
Bits == [uso : BOOLEAN, modificado : BOOLEAN]

\* Variant.
MoverPasado(c) == IF c = MARCOS_POR_PROCESO THEN 0 ELSE c + 1
(* mover_cursor: the next position, back to the first after the last.      *)
MoverCursor(c) == IF c + 1 = MARCOS_POR_PROCESO THEN 0 ELSE c + 1

(* Where the cursor is after d moves.                                      *)
Avanzar(c, d) == (c + d) % MARCOS_POR_PROCESO

(* How many moves each position of a set is away from the cursor.          *)
Distancias(c, posiciones) == {d \in Posiciones : Avanzar(c, d) \in posiciones}

EnUso(b) == {i \in Posiciones : b[i].uso}
Modificadas(b) == {i \in Posiciones : b[i].modificado}

(* The bits after the first k positions from the cursor lose their use bit.*)
QuitarUso(b, c, k) ==
  [i \in Posiciones |->
     IF \E d \in 0 .. k - 1 : Avanzar(c, d) = i THEN [b[i] EXCEPT !.uso = FALSE] ELSE b[i]]

Elegida(b, c, d) == [victima |-> Avanzar(c, d), bits |-> b]

(* The first page not in use; when all are in use, after a whole turn, the *)
(* one the cursor started from.                                            *)
ElegidaClock(b, c) ==
  LET candidatas == Distancias(c, Posiciones \ EnUso(b))
      k == IF candidatas = {} THEN MARCOS_POR_PROCESO ELSE Min(candidatas)
  IN  Elegida(QuitarUso(b, c, k), c, k)

(* The turns of the modified algorithm: not in use and not modified; not   *)
(* in use and modified, clearing the use bits on the way; and both again.  *)
ElegidaClockModificado(b, c) ==
  LET limpias == Distancias(c, Posiciones \ (EnUso(b) \union Modificadas(b)))
      sucias == Distancias(c, Modificadas(b) \ EnUso(b))
      usadas == Distancias(c, Posiciones \ Modificadas(b))
      sinUso == QuitarUso(b, c, MARCOS_POR_PROCESO)
  IN  CASE limpias # {} -> Elegida(b, c, Min(limpias))
        [] limpias = {} /\ sucias # {} ->
             Elegida(QuitarUso(b, c, Min(sucias)), c, Min(sucias))
        [] limpias = {} /\ sucias = {} /\ usadas # {} -> Elegida(sinUso, c, Min(usadas))
        [] OTHER -> Elegida(sinUso, c, 0)

(* reemplazar_pagina, with the algorithm of the configuration.             *)
Reemplazada(algoritmo, b, c) ==
  IF algoritmo = "CLOCK" THEN ElegidaClock(b, c) ELSE ElegidaClockModificado(b, c)
=============================================================================

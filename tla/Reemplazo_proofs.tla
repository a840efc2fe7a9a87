-------------------------- MODULE Reemplazo_proofs --------------------------
(***************************************************************************)
(* The loops of the page replacement compute what module Clock says, for   *)
(* any number of frames, from any bits and any place of the cursor.        *)
(***************************************************************************)
EXTENDS Reemplazo, Clock_proofs

(* What the loops have cleared so far: the bits of the first k positions.  *)
LEMMA BitsTrasQuitar ==
  ASSUME NEW b \in [Posiciones -> Bits], NEW c \in Posiciones,
         NEW k \in 0 .. MARCOS_POR_PROCESO, NEW d \in Posiciones
  PROVE  QuitarUso(b, c, k)[Avanzar(c, d)] =
           IF d < k THEN [b[Avanzar(c, d)] EXCEPT !.uso = FALSE] ELSE b[Avanzar(c, d)]
<1>1. MARCOS_POR_PROCESO \in Nat
  BY MarcosAssumption
<1>2. d \in 0 .. MARCOS_POR_PROCESO /\ \A e \in 0 .. k - 1 : e \in Posiciones
  BY <1>1 DEF Posiciones
<1>3. Avanzar(c, d) \in Posiciones
  BY <1>2, UnaVuelta
<1>4. (\E e \in 0 .. k - 1 : Avanzar(c, e) = Avanzar(c, d)) <=> d < k
  <2>1. ASSUME NEW e \in 0 .. k - 1, Avanzar(c, e) = Avanzar(c, d) PROVE d < k
    <3>1. e = d
      BY <1>2, <2>1, UnaVuelta
    <3> QED BY <1>1, <3>1
  <2>2. d < k => d \in 0 .. k - 1
    BY <1>1 DEF Posiciones
  <2> QED BY <2>1, <2>2
<1> QED BY <1>3, <1>4 DEF QuitarUso

(* One more iteration clears one more.                                     *)
LEMMA QuitarUnoMas ==
  ASSUME NEW b \in [Posiciones -> Bits], NEW c \in Posiciones, NEW k \in Posiciones
  PROVE  [QuitarUso(b, c, k) EXCEPT ![Avanzar(c, k)].uso = FALSE] = QuitarUso(b, c, k + 1)
<1>1. MARCOS_POR_PROCESO \in Nat /\ k \in 0 .. MARCOS_POR_PROCESO /\ k + 1 \in 0 .. MARCOS_POR_PROCESO
  BY MarcosAssumption DEF Posiciones
<1> DEFINE x == QuitarUso(b, c, k)
           y == QuitarUso(b, c, k + 1)
           z == [x EXCEPT ![Avanzar(c, k)].uso = FALSE]
<1>2. x \in [Posiciones -> Bits] /\ y \in [Posiciones -> Bits]
  BY QuitarUsoTipo
<1>3. \A d \in Posiciones :
        /\ x[Avanzar(c, d)] = IF d < k THEN [b[Avanzar(c, d)] EXCEPT !.uso = FALSE]
                                       ELSE b[Avanzar(c, d)]
        /\ y[Avanzar(c, d)] = IF d < k + 1 THEN [b[Avanzar(c, d)] EXCEPT !.uso = FALSE]
                                           ELSE b[Avanzar(c, d)]
  BY <1>1, BitsTrasQuitar
<1> HIDE DEF x, y
<1>4. ASSUME NEW p \in Posiciones PROVE z[p] = y[p]
  <2>1. PICK d \in Posiciones : Avanzar(c, d) = p
    BY UnaVuelta
  <2>2. p = Avanzar(c, k) <=> d = k
    <3>1. \A e, f \in Posiciones : Avanzar(c, e) = Avanzar(c, f) => e = f
      BY UnaVuelta
    <3> QED BY <2>1, <3>1
  <2>3. d < k + 1 <=> d < k \/ d = k
    BY DEF Posiciones
  <2>4. ~(k < k)
    BY DEF Posiciones
  <2>5. CASE d = k
    <3>1. x[p] = b[p] /\ y[p] = [b[p] EXCEPT !.uso = FALSE]
      BY <1>3, <2>1, <2>3, <2>4, <2>5
    <3>2. z[p] = [x[p] EXCEPT !.uso = FALSE]
      BY <1>2, <2>2, <2>5
    <3> QED BY <3>1, <3>2
  <2>6. CASE d # k
    <3>1. x[p] = y[p]
      BY <1>3, <2>1, <2>3, <2>6
    <3>2. z[p] = x[p]
      BY <1>2, <2>2, <2>6
    <3> QED BY <3>1, <3>2
  <2> QED BY <2>5, <2>6
<1>5. z \in [Posiciones -> Bits]
  BY <1>2 DEF Bits
<1> HIDE DEF z
<1>6. z = y
  BY <1>2, <1>4, <1>5
<1> QED BY <1>6 DEF x, y, z

(* Before the first iteration nothing is cleared.                          *)
LEMMA QuitarNada ==
  ASSUME NEW b \in [Posiciones -> Bits], NEW c \in Posiciones
  PROVE  QuitarUso(b, c, 0) = b
<1>1. 0 .. 0 - 1 = {}
  OBVIOUS
<1> QED BY <1>1 DEF QuitarUso

(* The pages each pass looks for, by their distance to the cursor.         *)
Limpia(b, c, d) == ~b[Avanzar(c, d)].uso /\ ~b[Avanzar(c, d)].modificado
Sucia(b, c, d) == ~b[Avanzar(c, d)].uso /\ b[Avanzar(c, d)].modificado
LEMMA DistanciasDe ==
  ASSUME NEW b \in [Posiciones -> Bits], NEW c \in Posiciones, NEW d
  PROVE  /\ d \in Distancias(c, Posiciones \ EnUso(b)) <=>
              d \in Posiciones /\ ~b[Avanzar(c, d)].uso
         /\ d \in Distancias(c, Posiciones \ (EnUso(b) \union Modificadas(b))) <=>
              d \in Posiciones /\ Limpia(b, c, d)
         /\ d \in Distancias(c, Modificadas(b) \ EnUso(b)) <=>
              d \in Posiciones /\ Sucia(b, c, d)
         /\ d \in Distancias(c, Posiciones \ Modificadas(b)) <=>
              d \in Posiciones /\ ~b[Avanzar(c, d)].modificado
<1>1. d \in Posiciones => Avanzar(c, d) \in Posiciones
  <2>1. d \in Posiciones => d \in 0 .. MARCOS_POR_PROCESO
    BY MarcosAssumption DEF Posiciones
  <2> QED BY <2>1, UnaVuelta
<1> QED BY <1>1 DEF Distancias, EnUso, Modificadas, Limpia, Sucia

(* What the first page that a pass finds is, for Clock.                    *)
LEMMA EligeClock ==
  ASSUME NEW b \in [Posiciones -> Bits], NEW c \in Posiciones
  PROVE  /\ \A k \in Posiciones :
              /\ ~b[Avanzar(c, k)].uso
              /\ \A d \in 0 .. k - 1 : b[Avanzar(c, d)].uso
              => ElegidaClock(b, c) = Elegida(QuitarUso(b, c, k), c, k)
         /\ (\A d \in Posiciones : b[Avanzar(c, d)].uso) =>
              ElegidaClock(b, c) =
                Elegida(QuitarUso(b, c, MARCOS_POR_PROCESO), c, MARCOS_POR_PROCESO)
<1> DEFINE S == Distancias(c, Posiciones \ EnUso(b))
<1>1. S \in SUBSET Nat /\ \A d : d \in S <=> d \in Posiciones /\ ~b[Avanzar(c, d)].uso
  <2>1. \A T : Distancias(c, T) \in SUBSET Nat
    BY DEF Distancias, Posiciones
  <2> QED BY <2>1, DistanciasDe
<1>2. ElegidaClock(b, c) =
        LET k == IF S = {} THEN MARCOS_POR_PROCESO ELSE Min(S)
        IN  Elegida(QuitarUso(b, c, k), c, k)
  BY DEF ElegidaClock
<1> HIDE DEF S
<1>3. ASSUME NEW k \in Posiciones, ~b[Avanzar(c, k)].uso,
             \A d \in 0 .. k - 1 : b[Avanzar(c, d)].uso
      PROVE  ElegidaClock(b, c) = Elegida(QuitarUso(b, c, k), c, k)
  <2>1. k \in S /\ \A y \in S : k <= y
    BY <1>1, <1>3 DEF Posiciones
  <2>2. Min(S) = k /\ S # {}
    BY <1>1, <2>1, EsElMinimo
  <2> QED BY <1>2, <2>2
<1>4. ASSUME \A d \in Posiciones : b[Avanzar(c, d)].uso
      PROVE  ElegidaClock(b, c) =
               Elegida(QuitarUso(b, c, MARCOS_POR_PROCESO), c, MARCOS_POR_PROCESO)
  <2>1. S = {}
    BY <1>1, <1>4
  <2> QED BY <1>2, <2>1
<1> QED BY <1>3, <1>4

(* And for the four passes of the modified algorithm.                      *)
LEMMA EligeClockModificado ==
  ASSUME NEW b \in [Posiciones -> Bits], NEW c \in Posiciones
  PROVE  /\ \A k \in Posiciones :
              /\ Limpia(b, c, k)
              /\ \A d \in 0 .. k - 1 : ~Limpia(b, c, d)
              => ElegidaClockModificado(b, c) = Elegida(b, c, k)
         /\ \A k \in Posiciones :
              /\ \A d \in Posiciones : ~Limpia(b, c, d)
              /\ Sucia(b, c, k)
              /\ \A d \in 0 .. k - 1 : ~Sucia(b, c, d)
              => ElegidaClockModificado(b, c) = Elegida(QuitarUso(b, c, k), c, k)
         /\ \A k \in Posiciones :
              /\ \A d \in Posiciones : ~Limpia(b, c, d) /\ ~Sucia(b, c, d)
              /\ ~b[Avanzar(c, k)].modificado
              /\ \A d \in 0 .. k - 1 : b[Avanzar(c, d)].modificado
              => ElegidaClockModificado(b, c) =
                   Elegida(QuitarUso(b, c, MARCOS_POR_PROCESO), c, k)
         /\ /\ \A d \in Posiciones : ~Limpia(b, c, d) /\ ~Sucia(b, c, d)
            /\ \A d \in Posiciones : b[Avanzar(c, d)].modificado
            => ElegidaClockModificado(b, c) =
                 Elegida(QuitarUso(b, c, MARCOS_POR_PROCESO), c, 0)
<1> DEFINE limpias == Distancias(c, Posiciones \ (EnUso(b) \union Modificadas(b)))
           sucias == Distancias(c, Modificadas(b) \ EnUso(b))
           usadas == Distancias(c, Posiciones \ Modificadas(b))
           sinUso == QuitarUso(b, c, MARCOS_POR_PROCESO)
<1>1. /\ limpias \in SUBSET Nat /\ \A d : d \in limpias <=> d \in Posiciones /\ Limpia(b, c, d)
      /\ sucias \in SUBSET Nat /\ \A d : d \in sucias <=> d \in Posiciones /\ Sucia(b, c, d)
      /\ usadas \in SUBSET Nat
      /\ \A d : d \in usadas <=> d \in Posiciones /\ ~b[Avanzar(c, d)].modificado
  <2>1. \A T : Distancias(c, T) \in SUBSET Nat
    BY DEF Distancias, Posiciones
  <2>2. \A d : d \in limpias <=> d \in Posiciones /\ Limpia(b, c, d)
    BY DistanciasDe
  <2>3. \A d : d \in sucias <=> d \in Posiciones /\ Sucia(b, c, d)
    BY DistanciasDe
  <2>4. \A d : d \in usadas <=> d \in Posiciones /\ ~b[Avanzar(c, d)].modificado
    BY DistanciasDe
  <2> QED BY <2>1, <2>2, <2>3, <2>4
<1>2. /\ limpias # {} => ElegidaClockModificado(b, c) = Elegida(b, c, Min(limpias))
      /\ limpias = {} /\ sucias # {} =>
           ElegidaClockModificado(b, c) = Elegida(QuitarUso(b, c, Min(sucias)), c, Min(sucias))
      /\ limpias = {} /\ sucias = {} /\ usadas # {} =>
           ElegidaClockModificado(b, c) = Elegida(sinUso, c, Min(usadas))
      /\ limpias = {} /\ sucias = {} /\ usadas = {} =>
           ElegidaClockModificado(b, c) = Elegida(sinUso, c, 0)
  BY DEF ElegidaClockModificado
<1> HIDE DEF limpias, sucias, usadas
<1>3. ASSUME NEW k \in Posiciones, Limpia(b, c, k), \A d \in 0 .. k - 1 : ~Limpia(b, c, d)
      PROVE  ElegidaClockModificado(b, c) = Elegida(b, c, k)
  <2>1. k \in limpias /\ \A y \in limpias : k <= y
    BY <1>1, <1>3 DEF Posiciones
  <2>2. Min(limpias) = k /\ limpias # {}
    BY <1>1, <2>1, EsElMinimo
  <2> QED BY <1>2, <2>2
<1>4. ASSUME NEW k \in Posiciones, \A d \in Posiciones : ~Limpia(b, c, d),
             Sucia(b, c, k), \A d \in 0 .. k - 1 : ~Sucia(b, c, d)
      PROVE  ElegidaClockModificado(b, c) = Elegida(QuitarUso(b, c, k), c, k)
  <2>1. limpias = {} /\ k \in sucias /\ \A y \in sucias : k <= y
    BY <1>1, <1>4 DEF Posiciones
  <2>2. Min(sucias) = k /\ sucias # {}
    BY <1>1, <2>1, EsElMinimo
  <2> QED BY <1>2, <2>1, <2>2
<1>5. ASSUME NEW k \in Posiciones,
             \A d \in Posiciones : ~Limpia(b, c, d) /\ ~Sucia(b, c, d),
             ~b[Avanzar(c, k)].modificado, \A d \in 0 .. k - 1 : b[Avanzar(c, d)].modificado
      PROVE  ElegidaClockModificado(b, c) = Elegida(sinUso, c, k)
  <2>1. limpias = {} /\ sucias = {} /\ k \in usadas /\ \A y \in usadas : k <= y
    BY <1>1, <1>5 DEF Posiciones
  <2>2. Min(usadas) = k /\ usadas # {}
    BY <1>1, <2>1, EsElMinimo
  <2> QED BY <1>2, <2>1, <2>2
<1>6. ASSUME \A d \in Posiciones : ~Limpia(b, c, d) /\ ~Sucia(b, c, d),
             \A d \in Posiciones : b[Avanzar(c, d)].modificado
      PROVE  ElegidaClockModificado(b, c) = Elegida(sinUso, c, 0)
  <2>1. limpias = {} /\ sucias = {} /\ usadas = {}
    BY <1>1, <1>6
  <2> QED BY <1>2, <2>1
<1> QED BY <1>3, <1>4, <1>5, <1>6
-----------------------------------------------------------------------------
(* Where each loop is, for a fault with bits b and the cursor at c: how far*)
(* it has gone from c, what it has cleared, and what it has not found.     *)
EnClock(b, c) ==
  \E k \in 0 .. MARCOS_POR_PROCESO :
    /\ cursor = Avanzar(c, k) /\ bits = QuitarUso(b, c, k)
    /\ \A d \in 0 .. k - 1 : b[Avanzar(c, d)].uso
EnPrimerPaso(b, c) ==
  /\ cursor = Avanzar(c, i) /\ bits = b
  /\ \A d \in 0 .. i - 1 : ~Limpia(b, c, d)
EnModificadaSinUso(b, c) ==
  /\ cursor = Avanzar(c, i) /\ bits = QuitarUso(b, c, i)
  /\ \A d \in Posiciones : ~Limpia(b, c, d)
  /\ \A d \in 0 .. i - 1 : ~Sucia(b, c, d)
EnPrimerPasoOtraVez(b, c) ==
  /\ cursor = Avanzar(c, i) /\ bits = QuitarUso(b, c, MARCOS_POR_PROCESO)
  /\ \A d \in Posiciones : ~Limpia(b, c, d) /\ ~Sucia(b, c, d)
  /\ \A d \in 0 .. i - 1 : b[Avanzar(c, d)].modificado
EnModificadaOtraVez(b, c) ==
  /\ i = 0 /\ cursor = c /\ bits = QuitarUso(b, c, MARCOS_POR_PROCESO)
  /\ \A d \in Posiciones : ~Limpia(b, c, d) /\ ~Sucia(b, c, d)
  /\ \A d \in Posiciones : b[Avanzar(c, d)].modificado

Vueltas(b, c) ==
  /\ paso = "primer_paso" => EnPrimerPaso(b, c)
  /\ paso = "modif_sin_uso" => EnModificadaSinUso(b, c)
  /\ paso = "primer_paso_otra_vez" => EnPrimerPasoOtraVez(b, c)
  /\ paso = "modif_sin_uso_otra_vez" => EnModificadaOtraVez(b, c)

IndInv ==
  /\ TypeOK
  /\ paso = "clock" => algoritmo_reemplazo = "CLOCK" /\ EnClock(pedido.bits, pedido.cursor)
  /\ paso \in DOMAIN Siguiente =>
       algoritmo_reemplazo = "CLOCK-M" /\ Vueltas(pedido.bits, pedido.cursor)
  /\ CalculaReemplazada

(* The types are inductive by themselves.                                  *)
LEMMA TiposDelPaso == TypeOK /\ [Next]_vars => TypeOK'
<1> SUFFICES ASSUME TypeOK, [Next]_vars PROVE TypeOK'
  OBVIOUS
<1>1. /\ MARCOS_POR_PROCESO \in Nat /\ MARCOS_POR_PROCESO > 0
      /\ MoverCursor(cursor) \in Posiciones
  BY MarcosAssumption DEF TypeOK, MoverCursor, Posiciones
<1>2. CASE UNCHANGED vars
  BY <1>2 DEF vars, TypeOK
<1>3. ASSUME NEW p \in Posiciones, NEW escribe \in BOOLEAN, Acceder(p, escribe),
             UNCHANGED algoritmo_reemplazo
      PROVE  TypeOK'
  <2>1. bits' \in [Posiciones -> Bits]
    <3>1. bits[p].modificado \in BOOLEAN
      BY DEF TypeOK, Bits
    <3>2. [uso |-> TRUE, modificado |-> bits[p].modificado \/ escribe] \in Bits
      BY <3>1 DEF Bits
    <3> QED BY <1>3, <3>2 DEF Acceder, TypeOK
  <2> QED BY <1>3, <2>1 DEF Acceder, TypeOK
<1>4. ASSUME PageFault, UNCHANGED algoritmo_reemplazo PROVE TypeOK'
  <2>1. paso' \in {"clock", "primer_paso"} /\ i' \in 0 .. MARCOS_POR_PROCESO
    BY <1>1, <1>4 DEF PageFault, Primero
  <2>2. paso' \in {"libre", "clock", "reemplazar"} \union DOMAIN Siguiente
    BY <2>1 DEF Siguiente
  <2>3. pedido' \in [bits : [Posiciones -> Bits], cursor : Posiciones]
    BY <1>4 DEF PageFault, TypeOK
  <2> QED BY <1>4, <2>1, <2>2, <2>3 DEF PageFault, TypeOK
<1>5. SinUso \in [Posiciones -> Bits]
  BY DEF SinUso, TypeOK, Bits
<1>6. ASSUME IterarClock \/ IterarPrimerPaso \/ IterarModificadaSinUso,
             UNCHANGED algoritmo_reemplazo
      PROVE  TypeOK'
  <2>1. CASE Elegir
    BY <1>1, <1>6, <2>1 DEF Elegir, TypeOK
  <2>2. ASSUME Pasar(bits) \/ Pasar(SinUso),
               i' = i \/ (i < MARCOS_POR_PROCESO /\ i' = i + 1)
        PROVE  TypeOK'
    <3>1. bits' \in [Posiciones -> Bits] /\ cursor' \in Posiciones
      BY <1>1, <1>5, <2>2 DEF Pasar, TypeOK
    <3>2. i' \in 0 .. MARCOS_POR_PROCESO
      BY <1>1, <2>2 DEF TypeOK
    <3> QED BY <1>6, <2>2, <3>1, <3>2 DEF Pasar, TypeOK
  <2>3. CASE IterarClock
    <3>1. Elegir \/ (Pasar(SinUso) /\ i' = i)
      BY <2>3 DEF IterarClock
    <3>2. Pasar(SinUso) /\ i' = i => TypeOK'
      BY <2>2
    <3> QED BY <2>1, <3>1, <3>2
  <2>4. CASE IterarPrimerPaso
    <3>1. Elegir \/ (Pasar(bits) /\ i < MARCOS_POR_PROCESO /\ i' = i + 1)
      BY <2>4 DEF IterarPrimerPaso
    <3> QED BY <2>1, <2>2, <3>1
  <2>5. CASE IterarModificadaSinUso
    <3>1. Elegir \/ (Pasar(SinUso) /\ i < MARCOS_POR_PROCESO /\ i' = i + 1)
      BY <2>5 DEF IterarModificadaSinUso
    <3> QED BY <2>1, <2>2, <3>1
  <2> QED BY <1>6, <2>3, <2>4, <2>5
<1>7. ASSUME TerminarVuelta, UNCHANGED algoritmo_reemplazo PROVE TypeOK'
  <2>1. paso' \in {"reemplazar"} \union DOMAIN Siguiente
    BY <1>7 DEF TerminarVuelta, OtraVuelta, Siguiente
  <2>2. i' \in 0 .. MARCOS_POR_PROCESO /\ victima' = Ninguna
    BY <1>1, <1>7 DEF TerminarVuelta
  <2> QED BY <1>7, <2>1, <2>2 DEF TerminarVuelta, TypeOK
<1>8. ASSUME NEW nueva \in Bits, ReemplazarPaginas(nueva), UNCHANGED algoritmo_reemplazo
      PROVE  TypeOK'
  BY <1>1, <1>8 DEF ReemplazarPaginas, TypeOK
<1> QED
  BY <1>2, <1>3, <1>4, <1>6, <1>7, <1>8 DEF Next, Algoritmo

(* A fault starts the first loop at the cursor, with nothing cleared.      *)
LEMMA FaultEmpieza ==
  ASSUME IndInv, TypeOK', PageFault, UNCHANGED algoritmo_reemplazo
  PROVE  IndInv'
<1>1. PICK b \in [Posiciones -> Bits], c \in Posiciones : b = bits /\ c = cursor
  BY DEF IndInv, TypeOK
<1>2. /\ bits' = b /\ cursor' = c /\ i' = 0 /\ pedido'.bits = b /\ pedido'.cursor = c
      /\ paso' = Primero
  BY <1>1 DEF PageFault
<1>3. /\ Avanzar(c, 0) = c /\ QuitarUso(b, c, 0) = b /\ 0 .. 0 - 1 = {}
      /\ 0 \in 0 .. MARCOS_POR_PROCESO
  <2>1. Avanzar(c, 0) = c
    BY UnaVuelta
  <2>2. QuitarUso(b, c, 0) = b
    BY QuitarNada
  <2>3. 0 .. 0 - 1 = {} /\ 0 \in 0 .. MARCOS_POR_PROCESO
    BY MarcosAssumption
  <2> QED BY <2>1, <2>2, <2>3
<1>4. CASE algoritmo_reemplazo = "CLOCK"
  <2>1. paso' = "clock" /\ paso' \notin DOMAIN Siguiente
    BY <1>2, <1>4 DEF Primero, Siguiente
  <2>2. EnClock(b, c)'
    BY <1>2, <1>3 DEF EnClock
  <2>3. EnClock(pedido.bits, pedido.cursor)'
    BY <1>2, <2>2 DEF EnClock
  <2> QED BY <1>4, <2>1, <2>3 DEF IndInv, CalculaReemplazada
<1>5. CASE algoritmo_reemplazo # "CLOCK"
  <2>1. paso' = "primer_paso" /\ algoritmo_reemplazo = "CLOCK-M"
    BY <1>2, <1>5 DEF Primero, IndInv, TypeOK, Algoritmos
  <2>2. Vueltas(pedido.bits, pedido.cursor)'
    BY <1>2, <1>3, <2>1 DEF Vueltas, EnPrimerPaso
  <2> QED BY <2>1, <2>2 DEF IndInv, CalculaReemplazada
<1> QED BY <1>4, <1>5

(* A loop that finds the page module Clock names ends the search.          *)
LEMMA EligioBien ==
  ASSUME IndInv, TypeOK', Elegir, UNCHANGED algoritmo_reemplazo,
         Reemplazada(algoritmo_reemplazo, pedido.bits, pedido.cursor)
           = [victima |-> cursor, bits |-> bits]
  PROVE  IndInv'
<1>1. paso' = "reemplazar" /\ victima' = cursor /\ bits' = bits /\ pedido' = pedido
  BY DEF Elegir
<1>2. paso' # "clock" /\ paso' \notin DOMAIN Siguiente
  BY <1>1 DEF Siguiente
<1>3. CalculaReemplazada'
  BY <1>1 DEF CalculaReemplazada
<1> QED BY <1>2, <1>3 DEF IndInv

(* reemplazar_pagina_clock: the page under the cursor still has the bits it*)
(* had at the fault, until the turn is complete and all have been cleared. *)
LEMMA ClockSigue ==
  ASSUME IndInv, TypeOK', IterarClock, UNCHANGED algoritmo_reemplazo
  PROVE  IndInv'
<1>1. PICK b \in [Posiciones -> Bits], c \in Posiciones : b = pedido.bits /\ c = pedido.cursor
  BY DEF IndInv, TypeOK
<1>2. paso = "clock" /\ algoritmo_reemplazo = "CLOCK" /\ EnClock(b, c)
  BY <1>1 DEF IndInv, IterarClock
<1>3. PICK k \in 0 .. MARCOS_POR_PROCESO :
        /\ cursor = Avanzar(c, k) /\ bits = QuitarUso(b, c, k)
        /\ \A d \in 0 .. k - 1 : b[Avanzar(c, d)].uso
  BY <1>2 DEF EnClock
<1>4. MARCOS_POR_PROCESO \in Nat /\ MARCOS_POR_PROCESO > 0 /\ 0 \in Posiciones
  BY MarcosAssumption DEF Posiciones
<1>5. k # MARCOS_POR_PROCESO => k \in Posiciones
  BY <1>4 DEF Posiciones
<1>6. k # MARCOS_POR_PROCESO => bits[cursor] = b[Avanzar(c, k)]
  <2>1. ASSUME k \in Posiciones PROVE bits[cursor] = b[Avanzar(c, k)]
    <3>1. ~(k < k)
      BY <2>1 DEF Posiciones
    <3> QED BY <1>3, <2>1, <3>1, BitsTrasQuitar
  <2> QED BY <1>5, <2>1
<1>7. k = MARCOS_POR_PROCESO => cursor = c /\ ~bits[cursor].uso
  <2> SUFFICES ASSUME k = MARCOS_POR_PROCESO PROVE cursor = c /\ ~bits[cursor].uso
    OBVIOUS
  <2>1. cursor = c /\ Avanzar(c, 0) = c
    BY <1>3, UnaVuelta
  <2>2. 0 < k
    BY <1>4
  <2>3. QuitarUso(b, c, k)[Avanzar(c, 0)] = [b[Avanzar(c, 0)] EXCEPT !.uso = FALSE]
    BY <1>4, <2>2, BitsTrasQuitar
  <2>4. bits[c] = [b[c] EXCEPT !.uso = FALSE]
    BY <1>3, <2>1, <2>3
  <2> QED BY <2>1, <2>4 DEF Bits
<1>8. CASE ~bits[cursor].uso /\ Elegir
  <2>1. ElegidaClock(b, c) = Elegida(bits, c, k)
    <3>1. CASE k = MARCOS_POR_PROCESO
      <4>1. \A d \in Posiciones : b[Avanzar(c, d)].uso
        BY <1>3, <3>1 DEF Posiciones
      <4> QED BY <1>3, <3>1, <4>1, EligeClock
    <3>2. CASE k # MARCOS_POR_PROCESO
      <4>1. ~b[Avanzar(c, k)].uso
        BY <1>6, <1>8, <3>2
      <4> QED BY <1>3, <1>5, <3>2, <4>1, EligeClock
    <3> QED BY <3>1, <3>2
  <2>2. Reemplazada(algoritmo_reemplazo, pedido.bits, pedido.cursor)
          = [victima |-> cursor, bits |-> bits]
    BY <1>1, <1>2, <1>3, <2>1 DEF Reemplazada, Elegida
  <2> QED BY <1>8, <2>2, EligioBien
<1>9. CASE bits[cursor].uso /\ Pasar(SinUso)
  <2>1. k \in Posiciones /\ b[Avanzar(c, k)].uso
    BY <1>5, <1>6, <1>7, <1>9
  <2>2. k + 1 \in 0 .. MARCOS_POR_PROCESO
    BY <1>4, <2>1 DEF Posiciones
  <2>3. bits' = QuitarUso(b, c, k + 1)
    BY <1>3, <1>9, <2>1, QuitarUnoMas DEF Pasar, SinUso
  <2>4. cursor' = Avanzar(c, k + 1)
    BY <1>3, <1>9, <2>1, UnaVuelta DEF Pasar
  <2>5. \A d \in 0 .. (k + 1) - 1 : b[Avanzar(c, d)].uso
    <3>1. \A d \in 0 .. (k + 1) - 1 : d \in 0 .. k - 1 \/ d = k
      OBVIOUS
    <3> QED BY <1>3, <2>1, <3>1
  <2>6. EnClock(b, c)'
    BY <2>2, <2>3, <2>4, <2>5 DEF EnClock
  <2>7. pedido' = pedido /\ paso' = "clock"
    BY <1>2, <1>9 DEF Pasar
  <2>8. EnClock(pedido.bits, pedido.cursor)'
    BY <1>1, <2>6, <2>7 DEF EnClock
  <2>9. paso' \notin DOMAIN Siguiente
    BY <2>7 DEF Siguiente
  <2> QED BY <1>2, <2>7, <2>8, <2>9 DEF IndInv, CalculaReemplazada
<1> QED BY <1>8, <1>9 DEF IterarClock

(* The loops of the modified algorithm leave one another where they say.   *)
LEMMA VueltaSigue ==
  ASSUME IndInv, TypeOK', algoritmo_reemplazo = "CLOCK-M", UNCHANGED algoritmo_reemplazo,
         paso' \in DOMAIN Siguiente, Vueltas(pedido.bits, pedido.cursor)'
  PROVE  IndInv'
<1>1. paso' # "clock" /\ paso' # "reemplazar"
  BY DEF Siguiente
<1> QED BY <1>1 DEF IndInv, CalculaReemplazada

(* clock_modificado_primer_paso: the bits it looks at are those of the     *)
(* fault, in its first call; in the second one no use bit is left, so it   *)
(* looks for a page that is not modified.                                  *)
LEMMA PrimerPasoSigue ==
  ASSUME IndInv, TypeOK', IterarPrimerPaso, UNCHANGED algoritmo_reemplazo
  PROVE  IndInv'
<1>1. PICK b \in [Posiciones -> Bits], c \in Posiciones : b = pedido.bits /\ c = pedido.cursor
  BY DEF IndInv, TypeOK
<1>2. /\ algoritmo_reemplazo = "CLOCK-M" /\ Vueltas(b, c)
      /\ paso \in DOMAIN Siguiente
  BY <1>1 DEF IndInv, IterarPrimerPaso, Siguiente
<1>3. PICK k \in Posiciones : k = i
  BY MarcosAssumption DEF IndInv, TypeOK, IterarPrimerPaso, Posiciones
<1>4. \A d \in 0 .. (k + 1) - 1 : d \in 0 .. k - 1 \/ d = k
  BY <1>3 DEF Posiciones
<1>5. MoverCursor(Avanzar(c, k)) = Avanzar(c, k + 1)
  BY UnaVuelta
<1>6. CASE paso = "primer_paso"
  <2>1. /\ cursor = Avanzar(c, k) /\ bits = b
        /\ \A d \in 0 .. k - 1 : ~Limpia(b, c, d)
    BY <1>2, <1>3, <1>6 DEF Vueltas, EnPrimerPaso
  <2>2. EsLimpia <=> Limpia(b, c, k)
    BY <2>1 DEF EsLimpia, Limpia
  <2>3. CASE EsLimpia /\ Elegir
    <3>1. ElegidaClockModificado(b, c) = Elegida(b, c, k)
      BY <2>1, <2>2, <2>3, EligeClockModificado
    <3>2. Reemplazada(algoritmo_reemplazo, pedido.bits, pedido.cursor)
            = [victima |-> cursor, bits |-> bits]
      BY <1>1, <1>2, <2>1, <3>1 DEF Reemplazada, Elegida
    <3> QED BY <2>3, <3>2, EligioBien
  <2>4. CASE ~EsLimpia /\ Pasar(bits) /\ i' = i + 1
    <3>1. \A d \in 0 .. (k + 1) - 1 : ~Limpia(b, c, d)
      BY <1>4, <2>1, <2>2, <2>4
    <3>2. cursor' = Avanzar(c, k + 1) /\ bits' = b /\ i' = k + 1
      BY <1>3, <1>5, <2>1, <2>4 DEF Pasar
    <3>3. EnPrimerPaso(b, c)'
      BY <3>1, <3>2 DEF EnPrimerPaso
    <3>4. paso' = "primer_paso" /\ pedido' = pedido
      BY <1>6, <2>4 DEF Pasar
    <3>5. Vueltas(pedido.bits, pedido.cursor)' /\ paso' \in DOMAIN Siguiente
      BY <1>1, <3>3, <3>4 DEF Vueltas, EnPrimerPaso, Siguiente
    <3> QED BY <1>2, <3>5, VueltaSigue
  <2> QED BY <2>3, <2>4 DEF IterarPrimerPaso
<1>7. CASE paso = "primer_paso_otra_vez"
  <2>1. /\ cursor = Avanzar(c, k) /\ bits = QuitarUso(b, c, MARCOS_POR_PROCESO)
        /\ \A d \in Posiciones : ~Limpia(b, c, d) /\ ~Sucia(b, c, d)
        /\ \A d \in 0 .. k - 1 : b[Avanzar(c, d)].modificado
    BY <1>2, <1>3, <1>7 DEF Vueltas, EnPrimerPasoOtraVez
  <2>2. EsLimpia <=> ~b[Avanzar(c, k)].modificado
    <3>1. MARCOS_POR_PROCESO \in 0 .. MARCOS_POR_PROCESO /\ k < MARCOS_POR_PROCESO
      BY MarcosAssumption DEF Posiciones
    <3>2. bits[cursor] = [b[Avanzar(c, k)] EXCEPT !.uso = FALSE]
      BY <2>1, <3>1, BitsTrasQuitar
    <3>3. b[Avanzar(c, k)] \in Bits
      <4>1. k \in 0 .. MARCOS_POR_PROCESO
        BY MarcosAssumption DEF Posiciones
      <4> QED BY <4>1, UnaVuelta
    <3> QED BY <3>2, <3>3 DEF EsLimpia, Bits
  <2>3. CASE EsLimpia /\ Elegir
    <3>1. ElegidaClockModificado(b, c) = Elegida(QuitarUso(b, c, MARCOS_POR_PROCESO), c, k)
      BY <2>1, <2>2, <2>3, EligeClockModificado
    <3>2. Reemplazada(algoritmo_reemplazo, pedido.bits, pedido.cursor)
            = [victima |-> cursor, bits |-> bits]
      BY <1>1, <1>2, <2>1, <3>1 DEF Reemplazada, Elegida
    <3> QED BY <2>3, <3>2, EligioBien
  <2>4. CASE ~EsLimpia /\ Pasar(bits) /\ i' = i + 1
    <3>1. \A d \in 0 .. (k + 1) - 1 : b[Avanzar(c, d)].modificado
      BY <1>4, <2>1, <2>2, <2>4
    <3>2. cursor' = Avanzar(c, k + 1) /\ bits' = bits /\ i' = k + 1
      BY <1>3, <1>5, <2>1, <2>4 DEF Pasar
    <3>3. EnPrimerPasoOtraVez(b, c)'
      BY <2>1, <3>1, <3>2 DEF EnPrimerPasoOtraVez
    <3>4. paso' = "primer_paso_otra_vez" /\ pedido' = pedido
      BY <1>7, <2>4 DEF Pasar
    <3>5. Vueltas(pedido.bits, pedido.cursor)' /\ paso' \in DOMAIN Siguiente
      BY <1>1, <3>3, <3>4 DEF Vueltas, EnPrimerPasoOtraVez, Siguiente
    <3> QED BY <1>2, <3>5, VueltaSigue
  <2> QED BY <2>3, <2>4 DEF IterarPrimerPaso
<1> QED BY <1>6, <1>7 DEF IterarPrimerPaso

(* buscar_pagina_modif_sin_uso: the first call clears use bits on the way; *)
(* the second one, with none left and all modified, takes the first page.  *)
LEMMA ModificadaSinUsoSigue ==
  ASSUME IndInv, TypeOK', IterarModificadaSinUso, UNCHANGED algoritmo_reemplazo
  PROVE  IndInv'
<1>1. PICK b \in [Posiciones -> Bits], c \in Posiciones : b = pedido.bits /\ c = pedido.cursor
  BY DEF IndInv, TypeOK
<1>2. /\ algoritmo_reemplazo = "CLOCK-M" /\ Vueltas(b, c)
      /\ paso \in DOMAIN Siguiente
  BY <1>1 DEF IndInv, IterarModificadaSinUso, Siguiente
<1>3. PICK k \in Posiciones : k = i
  BY MarcosAssumption DEF IndInv, TypeOK, IterarModificadaSinUso, Posiciones
<1>4. \A d \in 0 .. (k + 1) - 1 : d \in 0 .. k - 1 \/ d = k
  BY <1>3 DEF Posiciones
<1>5. MoverCursor(Avanzar(c, k)) = Avanzar(c, k + 1)
  BY UnaVuelta
<1>6. k \in 0 .. MARCOS_POR_PROCESO /\ 0 \in Posiciones /\ 0 < MARCOS_POR_PROCESO
      /\ MARCOS_POR_PROCESO \in 0 .. MARCOS_POR_PROCESO
  BY MarcosAssumption DEF Posiciones
<1>7. CASE paso = "modif_sin_uso"
  <2>1. /\ cursor = Avanzar(c, k) /\ bits = QuitarUso(b, c, k)
        /\ \A d \in Posiciones : ~Limpia(b, c, d)
        /\ \A d \in 0 .. k - 1 : ~Sucia(b, c, d)
    BY <1>2, <1>3, <1>7 DEF Vueltas, EnModificadaSinUso
  <2>2. bits[cursor] = b[Avanzar(c, k)]
    <3>1. ~(k < k)
      BY DEF Posiciones
    <3>2. QuitarUso(b, c, k)[Avanzar(c, k)] = b[Avanzar(c, k)]
      <4>1. k \in 0 .. MARCOS_POR_PROCESO
        BY <1>6
      <4> QED BY <3>1, <4>1, BitsTrasQuitar
    <3> QED BY <2>1, <3>2
  <2>3. ~bits[cursor].uso /\ bits[cursor].modificado <=> Sucia(b, c, k)
    BY <2>2 DEF Sucia
  <2>4. CASE Elegir /\ ~bits[cursor].uso /\ bits[cursor].modificado
    <3>1. ElegidaClockModificado(b, c) = Elegida(QuitarUso(b, c, k), c, k)
      BY <2>1, <2>3, <2>4, EligeClockModificado
    <3>2. Reemplazada(algoritmo_reemplazo, pedido.bits, pedido.cursor)
            = [victima |-> cursor, bits |-> bits]
      BY <1>1, <1>2, <2>1, <3>1 DEF Reemplazada, Elegida
    <3> QED BY <2>4, <3>2, EligioBien
  <2>5. CASE ~Sucia(b, c, k) /\ Pasar(SinUso) /\ i' = i + 1
    <3>1. \A d \in 0 .. (k + 1) - 1 : ~Sucia(b, c, d)
      BY <1>4, <2>1, <2>5
    <3>2. cursor' = Avanzar(c, k + 1) /\ i' = k + 1
      BY <1>3, <1>5, <2>1, <2>5 DEF Pasar
    <3>3. bits' = QuitarUso(b, c, k + 1)
      BY <2>1, <2>5, QuitarUnoMas DEF Pasar, SinUso
    <3>4. EnModificadaSinUso(b, c)'
      BY <2>1, <3>1, <3>2, <3>3 DEF EnModificadaSinUso
    <3>5. paso' = "modif_sin_uso" /\ pedido' = pedido
      BY <1>7, <2>5 DEF Pasar
    <3>6. Vueltas(pedido.bits, pedido.cursor)' /\ paso' \in DOMAIN Siguiente
      BY <1>1, <3>4, <3>5 DEF Vueltas, EnModificadaSinUso, Siguiente
    <3> QED BY <1>2, <3>6, VueltaSigue
  <2>6. \/ Elegir /\ ~bits[cursor].uso /\ bits[cursor].modificado
        \/ ~(~bits[cursor].uso /\ bits[cursor].modificado) /\ Pasar(SinUso) /\ i' = i + 1
    BY DEF IterarModificadaSinUso
  <2> QED BY <2>3, <2>4, <2>5, <2>6
<1>8. CASE paso = "modif_sin_uso_otra_vez"
  <2>1. /\ cursor = c /\ bits = QuitarUso(b, c, MARCOS_POR_PROCESO)
        /\ \A d \in Posiciones : ~Limpia(b, c, d) /\ ~Sucia(b, c, d)
        /\ \A d \in Posiciones : b[Avanzar(c, d)].modificado
    BY <1>2, <1>8 DEF Vueltas, EnModificadaOtraVez
  <2>2. Avanzar(c, 0) = c
    BY UnaVuelta
  <2>3. ~bits[cursor].uso /\ bits[cursor].modificado
    <3>1. bits[Avanzar(c, 0)] = [b[Avanzar(c, 0)] EXCEPT !.uso = FALSE]
      BY <1>6, <2>1, BitsTrasQuitar
    <3>2. b[c] \in Bits /\ b[c].modificado
      BY <1>6, <2>1, <2>2
    <3> QED BY <2>1, <2>2, <3>1, <3>2 DEF Bits
  <2>4. Elegir
    BY <2>3 DEF IterarModificadaSinUso
  <2>5. ElegidaClockModificado(b, c) = Elegida(QuitarUso(b, c, MARCOS_POR_PROCESO), c, 0)
    BY <2>1, EligeClockModificado
  <2>6. Reemplazada(algoritmo_reemplazo, pedido.bits, pedido.cursor)
          = [victima |-> cursor, bits |-> bits]
    BY <1>1, <1>2, <2>1, <2>2, <2>5 DEF Reemplazada, Elegida
  <2> QED BY <2>4, <2>6, EligioBien
<1> QED BY <1>7, <1>8 DEF IterarModificadaSinUso

(* A loop that went round has looked at every page, and the cursor is back *)
(* where it was; the last loop of all is never left this way.              *)
LEMMA OtraVueltaEmpieza ==
  ASSUME IndInv, TypeOK', TerminarVuelta, UNCHANGED algoritmo_reemplazo
  PROVE  IndInv'
<1>1. PICK b \in [Posiciones -> Bits], c \in Posiciones : b = pedido.bits /\ c = pedido.cursor
  BY DEF IndInv, TypeOK
<1>2. /\ algoritmo_reemplazo = "CLOCK-M" /\ Vueltas(b, c)
      /\ paso \in DOMAIN Siguiente /\ i = MARCOS_POR_PROCESO
  BY <1>1 DEF IndInv, TerminarVuelta, OtraVuelta
<1>3. /\ paso' = Siguiente[paso] /\ i' = 0 /\ bits' = bits /\ cursor' = cursor
      /\ pedido' = pedido
  BY DEF TerminarVuelta, OtraVuelta
<1>4. /\ MARCOS_POR_PROCESO # 0 /\ 0 .. MARCOS_POR_PROCESO - 1 = Posiciones
      /\ 0 .. 0 - 1 = {}
  BY MarcosAssumption DEF Posiciones
<1>5. Avanzar(c, 0) = c /\ Avanzar(c, MARCOS_POR_PROCESO) = c
  BY UnaVuelta
<1>6. CASE paso = "primer_paso"
  <2>1. /\ cursor = c /\ bits = b
        /\ \A d \in Posiciones : ~Limpia(b, c, d)
    BY <1>2, <1>4, <1>5, <1>6 DEF Vueltas, EnPrimerPaso
  <2>2. bits' = QuitarUso(b, c, 0)
    BY <1>3, <2>1, QuitarNada
  <2>3. EnModificadaSinUso(b, c)'
    BY <1>3, <1>4, <1>5, <2>1, <2>2 DEF EnModificadaSinUso
  <2>4. paso' = "modif_sin_uso"
    BY <1>3, <1>6 DEF Siguiente
  <2>5. Vueltas(pedido.bits, pedido.cursor)' /\ paso' \in DOMAIN Siguiente
    BY <1>1, <1>3, <2>3, <2>4 DEF Vueltas, EnModificadaSinUso, Siguiente
  <2> QED BY <1>2, <2>5, VueltaSigue
<1>7. CASE paso = "modif_sin_uso"
  <2>1. /\ cursor = c /\ bits = QuitarUso(b, c, MARCOS_POR_PROCESO)
        /\ \A d \in Posiciones : ~Limpia(b, c, d) /\ ~Sucia(b, c, d)
    BY <1>2, <1>4, <1>5, <1>7 DEF Vueltas, EnModificadaSinUso
  <2>2. EnPrimerPasoOtraVez(b, c)'
    BY <1>3, <1>4, <1>5, <2>1 DEF EnPrimerPasoOtraVez
  <2>3. paso' = "primer_paso_otra_vez"
    BY <1>3, <1>7 DEF Siguiente
  <2>4. Vueltas(pedido.bits, pedido.cursor)' /\ paso' \in DOMAIN Siguiente
    BY <1>1, <1>3, <2>2, <2>3 DEF Vueltas, EnPrimerPasoOtraVez, Siguiente
  <2> QED BY <1>2, <2>4, VueltaSigue
<1>8. CASE paso = "primer_paso_otra_vez"
  <2>1. /\ cursor = c /\ bits = QuitarUso(b, c, MARCOS_POR_PROCESO)
        /\ \A d \in Posiciones : ~Limpia(b, c, d) /\ ~Sucia(b, c, d)
        /\ \A d \in Posiciones : b[Avanzar(c, d)].modificado
    BY <1>2, <1>4, <1>5, <1>8 DEF Vueltas, EnPrimerPasoOtraVez
  <2>2. EnModificadaOtraVez(b, c)'
    BY <1>3, <2>1 DEF EnModificadaOtraVez
  <2>3. paso' = "modif_sin_uso_otra_vez"
    BY <1>3, <1>8 DEF Siguiente
  <2>4. Vueltas(pedido.bits, pedido.cursor)' /\ paso' \in DOMAIN Siguiente
    BY <1>1, <1>3, <2>2, <2>3 DEF Vueltas, EnModificadaOtraVez, Siguiente
  <2> QED BY <1>2, <2>4, VueltaSigue
<1>9. paso # "modif_sin_uso_otra_vez"
  BY <1>2, <1>4 DEF Vueltas, EnModificadaOtraVez
<1> QED BY <1>2, <1>6, <1>7, <1>8, <1>9 DEF Siguiente

(* Outside a search there is nothing to keep.                              *)
LEMMA EnLibre ==
  ASSUME IndInv, TypeOK', UNCHANGED algoritmo_reemplazo, paso' = "libre"
  PROVE  IndInv'
<1>1. paso' # "clock" /\ paso' # "reemplazar" /\ paso' \notin DOMAIN Siguiente
  BY DEF Siguiente
<1> QED BY <1>1 DEF IndInv, CalculaReemplazada

(* It is inductive.                                                        *)
LEMMA Induccion ==
  /\ Init => IndInv
  /\ IndInv /\ [Next]_vars => IndInv'
<1>1. Init => IndInv
  <2> SUFFICES ASSUME Init PROVE IndInv
    OBVIOUS
  <2>1. 0 \in Posiciones /\ 0 \in 0 .. MARCOS_POR_PROCESO
    BY MarcosAssumption DEF Posiciones
  <2>2. bits \in [Posiciones -> Bits]
    BY DEF Init, Bits
  <2>3. TypeOK
    BY <2>1, <2>2 DEF Init, TypeOK
  <2>4. paso = "libre" /\ paso \notin DOMAIN Siguiente
    BY DEF Init, Siguiente
  <2> QED BY <2>3, <2>4 DEF IndInv, CalculaReemplazada
<1>2. ASSUME IndInv, [Next]_vars PROVE IndInv'
  <2>1. TypeOK'
    BY <1>2, TiposDelPaso DEF IndInv
  <2>2. CASE UNCHANGED vars
    <3>1. CalculaReemplazada'
      BY <1>2, <2>2 DEF IndInv, CalculaReemplazada, vars
    <3>2. EnClock(pedido.bits, pedido.cursor)' <=> EnClock(pedido.bits, pedido.cursor)
      BY <2>2 DEF vars, EnClock
    <3>3. Vueltas(pedido.bits, pedido.cursor)' <=> Vueltas(pedido.bits, pedido.cursor)
      BY <2>2 DEF vars, Vueltas, EnPrimerPaso, EnModificadaSinUso, EnPrimerPasoOtraVez,
                  EnModificadaOtraVez
    <3>4. paso' = paso /\ algoritmo_reemplazo' = algoritmo_reemplazo
      BY <2>2 DEF vars
    <3> QED BY <1>2, <2>1, <3>1, <3>2, <3>3, <3>4 DEF IndInv
  <2>3. CASE Next
    <3>1. UNCHANGED algoritmo_reemplazo
      BY <2>3 DEF Next
    <3>2. ASSUME NEW p \in Posiciones, NEW escribe \in BOOLEAN, Acceder(p, escribe)
          PROVE  IndInv'
      BY <1>2, <2>1, <3>1, <3>2, EnLibre DEF Acceder
    <3>3. CASE PageFault
      BY <1>2, <2>1, <3>1, <3>3, FaultEmpieza
    <3>4. CASE IterarClock
      BY <1>2, <2>1, <3>1, <3>4, ClockSigue
    <3>5. CASE IterarPrimerPaso
      BY <1>2, <2>1, <3>1, <3>5, PrimerPasoSigue
    <3>6. CASE IterarModificadaSinUso
      BY <1>2, <2>1, <3>1, <3>6, ModificadaSinUsoSigue
    <3>7. CASE TerminarVuelta
      BY <1>2, <2>1, <3>1, <3>7, OtraVueltaEmpieza
    <3>8. ASSUME NEW nueva \in Bits, ReemplazarPaginas(nueva)
          PROVE  IndInv'
      BY <1>2, <2>1, <3>1, <3>8, EnLibre DEF ReemplazarPaginas
    <3> QED BY <2>3, <3>2, <3>3, <3>4, <3>5, <3>6, <3>7, <3>8 DEF Next, Algoritmo
  <2> QED BY <1>2, <2>2, <2>3
<1> QED BY <1>1, <1>2

(* When no move of a turn leads to a set, no page is in it.                *)
LEMMA NingunaDe ==
  ASSUME NEW c \in Posiciones, NEW S, Distancias(c, S) = {}
  PROVE  \A p \in Posiciones : p \notin S
<1>1. \A p \in Posiciones : \E d \in Posiciones : Avanzar(c, d) = p
  BY UnaVuelta
<1> QED BY <1>1 DEF Distancias

(* The four passes look for the classes from the lowest up.                *)
LEMMA ClaseDeLaElegida ==
  ASSUME NEW b \in [Posiciones -> Bits], NEW c \in Posiciones, NEW p \in Posiciones
  PROVE  Clase(b[ElegidaClockModificado(b, c).victima]) <= Clase(b[p])
<1> DEFINE Limpias == Posiciones \ (EnUso(b) \union Modificadas(b))
           Sucias == Modificadas(b) \ EnUso(b)
           Usadas == Posiciones \ Modificadas(b)
           limpias == Distancias(c, Limpias)
           sucias == Distancias(c, Sucias)
           usadas == Distancias(c, Usadas)
           v == ElegidaClockModificado(b, c).victima
<1>1. /\ \A S : Distancias(c, S) # {} => Avanzar(c, Min(Distancias(c, S))) \in S
      /\ \A S : Distancias(c, S) = {} => p \notin S
  BY DistanciaMinima, NingunaDe
<1>2. /\ limpias # {} => v = Avanzar(c, Min(limpias))
      /\ limpias = {} /\ sucias # {} => v = Avanzar(c, Min(sucias))
      /\ limpias = {} /\ sucias = {} /\ usadas # {} => v = Avanzar(c, Min(usadas))
  BY DEF ElegidaClockModificado, Elegida
<1>3. /\ limpias # {} => v \in Limpias
      /\ limpias = {} /\ sucias # {} => v \in Sucias
      /\ limpias = {} /\ sucias = {} /\ usadas # {} => v \in Usadas
  <2> HIDE DEF Limpias, Sucias, Usadas, v
  <2> QED BY <1>1, <1>2
<1>4. /\ limpias = {} => p \notin Limpias
      /\ sucias = {} => p \notin Sucias
      /\ usadas = {} => p \notin Usadas
  <2> HIDE DEF Limpias, Sucias, Usadas
  <2> QED BY <1>1
<1>5. /\ v \in Limpias => ~b[v].uso /\ ~b[v].modificado
      /\ v \in Sucias => ~b[v].uso
      /\ v \in Usadas => ~b[v].modificado
  BY DEF EnUso, Modificadas
<1>6. /\ p \notin Limpias => b[p].uso \/ b[p].modificado
      /\ p \notin Limpias /\ p \notin Sucias => b[p].uso
      /\ p \notin Usadas => b[p].modificado
  BY DEF EnUso, Modificadas
<1> HIDE DEF Limpias, Sucias, Usadas, limpias, sucias, usadas, v
<1> SUFFICES Clase(b[v]) <= Clase(b[p])
  BY DEF v
<1>7. CASE limpias # {}
  BY <1>3, <1>5, <1>7 DEF Clase
<1>8. CASE limpias = {} /\ sucias # {}
  BY <1>3, <1>4, <1>5, <1>6, <1>8 DEF Clase
<1>9. CASE limpias = {} /\ sucias = {} /\ usadas # {}
  BY <1>3, <1>4, <1>5, <1>6, <1>9 DEF Clase
<1>10. CASE limpias = {} /\ sucias = {} /\ usadas = {}
  BY <1>4, <1>6, <1>10 DEF Clase
<1> QED BY <1>7, <1>8, <1>9, <1>10

(* The types of module Reemplazo, in every behaviour.                      *)
THEOREM TiposReemplazo == Spec => []TypeOK
<1>1. Init => TypeOK
  BY Induccion DEF IndInv
<1> QED BY <1>1, TiposDelPaso, PTL DEF Spec

(* Whatever the bits and wherever the cursor was left, the loops of        *)
(* memoria.c 577-700 end with the page, and leave the bits, that the sets  *)
(* of module Clock define: no pass misses a page or goes round too far, and*)
(* the NULL of the last one is never what would be replaced.               *)
THEOREM CalculoCorrecto == Spec => []CalculaReemplazada
<1>1. IndInv => CalculaReemplazada
  BY DEF IndInv
<1> QED BY <1>1, Induccion, PTL DEF Spec

(* The modified algorithm takes a page of the lowest class there was at the*)
(* fault: a page not in use before one in use, and, among these, a page not*)
(* modified before a modified one.                                         *)
THEOREM MenorClase == Spec => []ClaseMinima
<1>1. IndInv => ClaseMinima
  <2> SUFFICES ASSUME IndInv, paso = "reemplazar", algoritmo_reemplazo = "CLOCK-M",
                      NEW p \in Posiciones
               PROVE  Clase(pedido.bits[victima]) <= Clase(pedido.bits[p])
    BY DEF ClaseMinima
  <2>1. PICK b \in [Posiciones -> Bits], c \in Posiciones : b = pedido.bits /\ c = pedido.cursor
    BY DEF IndInv, TypeOK
  <2>2. [victima |-> victima, bits |-> bits] = ElegidaClockModificado(b, c)
    BY <2>1 DEF IndInv, CalculaReemplazada, Reemplazada
  <2>3. victima = ElegidaClockModificado(b, c).victima
    BY <2>2
  <2> QED BY <2>1, <2>3, ClaseDeLaElegida
<1> QED BY <1>1, Induccion, PTL DEF Spec
=============================================================================

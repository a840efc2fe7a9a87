---------------------------- MODULE Clock_proofs ----------------------------
(***************************************************************************)
(* What module Clock says of the replacement, for any number of frames:    *)
(* the arithmetic of the cursor, and that the page chosen is one of those  *)
(* the process has.                                                        *)
(***************************************************************************)
EXTENDS Clock, WellFoundedInduction, TLAPS

(* Every non-empty set of naturals has a minimum, so Min picks it.         *)
LEMMA MinimoDePosiciones ==
  ASSUME NEW S \in SUBSET Nat, S # {}
  PROVE  Min(S) \in S /\ \A y \in S : Min(S) <= y
<1> DEFINE R == {ss \in Nat \X Nat : ss[1] < ss[2]}
<1>1. IsWellFoundedOn(R, Nat)
  BY NatLessThanWellFounded DEF OpToRel
<1>2. PICK x \in S : \A y \in S : ~(<<y, x>> \in R)
  <2> HIDE DEF R
  <2> QED BY <1>1, WFMin
<1>3. \A y \in S : x <= y
  <2>1. \A y \in S : ~(y < x)
    BY <1>2
  <2> QED BY <2>1
<1> QED BY <1>3 DEF Min

(* An element of a set of naturals below which there is none is its Min.   *)
LEMMA EsElMinimo ==
  ASSUME NEW S \in SUBSET Nat, NEW k \in S, \A y \in S : k <= y
  PROVE  Min(S) = k
<1>1. Min(S) \in S /\ \A y \in S : Min(S) <= y
  BY MinimoDePosiciones
<1>2. k \in Nat /\ Min(S) \in Nat /\ Min(S) <= k /\ k <= Min(S)
  BY <1>1
<1> QED BY <1>2

(* The remainder is the only number in range.                              *)
LEMMA RestoUnico ==
  ASSUME NEW a \in Int, NEW b \in Nat \ {0}, NEW q \in Int, NEW r \in 0 .. (b - 1),
         a = b * q + r
  PROVE  a % b = r
  BY Z3

(* The cursor goes round once at most.                                     *)
LEMMA AvanzarForma ==
  ASSUME NEW c \in Posiciones, NEW d \in 0 .. MARCOS_POR_PROCESO
  PROVE  Avanzar(c, d) = IF c + d < MARCOS_POR_PROCESO THEN c + d
                                                       ELSE c + d - MARCOS_POR_PROCESO
<1>1. MARCOS_POR_PROCESO \in Nat /\ MARCOS_POR_PROCESO > 0 /\ c \in Nat /\ d \in Nat
      /\ c < MARCOS_POR_PROCESO /\ d <= MARCOS_POR_PROCESO
  BY MarcosAssumption DEF Posiciones
<1>2. CASE c + d < MARCOS_POR_PROCESO
  <2>1. c + d \in 0 .. (MARCOS_POR_PROCESO - 1) /\ c + d = MARCOS_POR_PROCESO * 0 + (c + d)
    BY <1>1, <1>2
  <2>2. (c + d) % MARCOS_POR_PROCESO = c + d
    BY <1>1, <2>1, RestoUnico
  <2> QED BY <1>2, <2>2 DEF Avanzar
<1>3. CASE ~(c + d < MARCOS_POR_PROCESO)
  <2> DEFINE r == c + d - MARCOS_POR_PROCESO
  <2>1. r \in 0 .. (MARCOS_POR_PROCESO - 1) /\ c + d = MARCOS_POR_PROCESO * 1 + r
    BY <1>1, <1>3
  <2>2. (c + d) % MARCOS_POR_PROCESO = r
    BY <1>1, <2>1, RestoUnico
  <2> QED BY <1>3, <2>2 DEF Avanzar
<1> QED BY <1>2, <1>3

(* The moves of a turn go to every position, each to its own.              *)
LEMMA UnaVuelta ==
  ASSUME NEW c \in Posiciones
  PROVE  /\ \A d \in 0 .. MARCOS_POR_PROCESO : Avanzar(c, d) \in Posiciones
         /\ \A d, e \in Posiciones : Avanzar(c, d) = Avanzar(c, e) => d = e
         /\ \A p \in Posiciones : \E d \in Posiciones : Avanzar(c, d) = p
         /\ Avanzar(c, 0) = c /\ Avanzar(c, MARCOS_POR_PROCESO) = c
         /\ \A d \in Posiciones : MoverCursor(Avanzar(c, d)) = Avanzar(c, d + 1)
<1>1. MARCOS_POR_PROCESO \in Nat /\ MARCOS_POR_PROCESO > 0 /\ c \in 0 .. MARCOS_POR_PROCESO - 1
  BY MarcosAssumption DEF Posiciones
<1>2. \A d \in 0 .. MARCOS_POR_PROCESO :
        Avanzar(c, d) = IF c + d < MARCOS_POR_PROCESO THEN c + d ELSE c + d - MARCOS_POR_PROCESO
  BY AvanzarForma
<1>3. \A d \in 0 .. MARCOS_POR_PROCESO : Avanzar(c, d) \in Posiciones
  BY <1>1, <1>2 DEF Posiciones
<1>4. \A d, e \in Posiciones : Avanzar(c, d) = Avanzar(c, e) => d = e
  BY <1>1, <1>2 DEF Posiciones
<1>5. ASSUME NEW p \in Posiciones PROVE \E d \in Posiciones : Avanzar(c, d) = p
  <2> DEFINE d == IF p >= c THEN p - c ELSE p - c + MARCOS_POR_PROCESO
  <2>1. d \in Posiciones /\ d \in 0 .. MARCOS_POR_PROCESO
    BY <1>1 DEF Posiciones
  <2>2. Avanzar(c, d) = IF c + d < MARCOS_POR_PROCESO THEN c + d ELSE c + d - MARCOS_POR_PROCESO
    BY <1>2, <2>1
  <2>3. Avanzar(c, d) = p
    BY <1>1, <2>2 DEF Posiciones
  <2> QED BY <2>1, <2>3
<1>6. Avanzar(c, 0) = c /\ Avanzar(c, MARCOS_POR_PROCESO) = c
  BY <1>1, <1>2
<1>7. ASSUME NEW d \in Posiciones PROVE MoverCursor(Avanzar(c, d)) = Avanzar(c, d + 1)
  <2>1. d \in 0 .. MARCOS_POR_PROCESO /\ d + 1 \in 0 .. MARCOS_POR_PROCESO
    BY <1>1 DEF Posiciones
  <2> QED BY <1>1, <1>2, <2>1 DEF MoverCursor, Posiciones
<1> QED BY <1>3, <1>4, <1>5, <1>6, <1>7

(* Taking use bits away leaves bits, and does not touch the modified ones. *)
LEMMA QuitarUsoTipo ==
  ASSUME NEW b \in [Posiciones -> Bits], NEW c, NEW k
  PROVE  /\ QuitarUso(b, c, k) \in [Posiciones -> Bits]
         /\ \A p \in Posiciones : QuitarUso(b, c, k)[p].modificado = b[p].modificado
  BY DEF QuitarUso, Bits

(* Distances are moves within a turn, and lead to the positions they are   *)
(* the distances of.                                                       *)
LEMMA DistanciaMinima ==
  ASSUME NEW c \in Posiciones, NEW S, Distancias(c, S) # {}
  PROVE  /\ Min(Distancias(c, S)) \in Posiciones
         /\ Avanzar(c, Min(Distancias(c, S))) \in S
         /\ \A d \in Posiciones : Avanzar(c, d) \in S => Min(Distancias(c, S)) <= d
<1>1. Distancias(c, S) \in SUBSET Nat
  BY DEF Distancias, Posiciones
<1>2. /\ Min(Distancias(c, S)) \in Distancias(c, S)
      /\ \A d \in Distancias(c, S) : Min(Distancias(c, S)) <= d
  BY <1>1, MinimoDePosiciones
<1> QED BY <1>2 DEF Distancias

(* Whatever the algorithm, the bits and the cursor, the victim is one of   *)
(* the pages in memory, and only use bits are changed (memoria.c 577-700). *)
THEOREM VictimaPresente ==
  ASSUME NEW algoritmo \in Algoritmos, NEW b \in [Posiciones -> Bits], NEW c \in Posiciones
  PROVE  /\ Reemplazada(algoritmo, b, c).victima \in Posiciones
         /\ Reemplazada(algoritmo, b, c).bits \in [Posiciones -> Bits]
         /\ \A p \in Posiciones :
              Reemplazada(algoritmo, b, c).bits[p].modificado = b[p].modificado
<1> DEFINE Bien(r) == /\ r.victima \in Posiciones
                      /\ r.bits \in [Posiciones -> Bits]
                      /\ \A p \in Posiciones : r.bits[p].modificado = b[p].modificado
<1>1. ASSUME NEW k \in 0 .. MARCOS_POR_PROCESO, NEW x \in [Posiciones -> Bits],
             \A p \in Posiciones : x[p].modificado = b[p].modificado
      PROVE  Bien(Elegida(x, c, k))
  BY <1>1, UnaVuelta DEF Elegida
<1>2. ASSUME NEW S, Distancias(c, S) # {}
      PROVE  Min(Distancias(c, S)) \in 0 .. MARCOS_POR_PROCESO
  BY <1>2, DistanciaMinima, MarcosAssumption DEF Posiciones
<1>3. MARCOS_POR_PROCESO \in 0 .. MARCOS_POR_PROCESO /\ 0 \in 0 .. MARCOS_POR_PROCESO
  BY MarcosAssumption
<1>4. Bien(ElegidaClock(b, c))
  <2> DEFINE S == Posiciones \ EnUso(b)
             k == IF Distancias(c, S) = {} THEN MARCOS_POR_PROCESO ELSE Min(Distancias(c, S))
  <2>1. k \in 0 .. MARCOS_POR_PROCESO
    BY <1>2, <1>3
  <2>2. ElegidaClock(b, c) = Elegida(QuitarUso(b, c, k), c, k)
    BY DEF ElegidaClock
  <2> HIDE DEF k, Bien
  <2> QED BY <1>1, <2>1, <2>2, QuitarUsoTipo
<1>5. Bien(ElegidaClockModificado(b, c))
  <2> DEFINE limpias == Distancias(c, Posiciones \ (EnUso(b) \union Modificadas(b)))
             sucias == Distancias(c, Modificadas(b) \ EnUso(b))
             usadas == Distancias(c, Posiciones \ Modificadas(b))
             sinUso == QuitarUso(b, c, MARCOS_POR_PROCESO)
  <2> HIDE DEF Bien
  <2>1. CASE limpias # {}
    <3>1. ElegidaClockModificado(b, c) = Elegida(b, c, Min(limpias))
      BY <2>1 DEF ElegidaClockModificado
    <3> QED BY <1>1, <1>2, <2>1, <3>1
  <2>2. CASE limpias = {} /\ sucias # {}
    <3>1. ElegidaClockModificado(b, c) = Elegida(QuitarUso(b, c, Min(sucias)), c, Min(sucias))
      BY <2>2 DEF ElegidaClockModificado
    <3>2. Min(sucias) \in 0 .. MARCOS_POR_PROCESO
      BY <1>2, <2>2
    <3> HIDE DEF sucias
    <3> QED BY <1>1, <3>1, <3>2, QuitarUsoTipo
  <2>3. CASE limpias = {} /\ sucias = {} /\ usadas # {}
    <3>1. ElegidaClockModificado(b, c) = Elegida(sinUso, c, Min(usadas))
      BY <2>3 DEF ElegidaClockModificado
    <3>2. Min(usadas) \in 0 .. MARCOS_POR_PROCESO
      BY <1>2, <2>3
    <3> HIDE DEF usadas
    <3> QED BY <1>1, <3>1, <3>2, QuitarUsoTipo
  <2>4. CASE limpias = {} /\ sucias = {} /\ usadas = {}
    <3>1. ElegidaClockModificado(b, c) = Elegida(sinUso, c, 0)
      BY <2>4 DEF ElegidaClockModificado
    <3> QED BY <1>1, <1>3, <3>1, QuitarUsoTipo
  <2> QED BY <2>1, <2>2, <2>3, <2>4
<1> QED BY <1>4, <1>5 DEF Reemplazada
=============================================================================

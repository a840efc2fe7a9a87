--------------------------- MODULE Tablas_proofs ---------------------------
(***************************************************************************)
(* What the arithmetic of module Mmu gives for pages and tables of any     *)
(* size: a logical address and its parts determine each other, a physical  *)
(* address is in its frame, and a process has an entry for each of its     *)
(* addresses.  Then, that the tables of module Tablas lead every address   *)
(* to its page, for any processes, sizes of processes and of pages, and    *)
(* any order of creations and destructions.                                *)
(***************************************************************************)
EXTENDS Tablas, SequenceTheorems, TLAPS

(* Quotient and remainder.                                                 *)
LEMMA Division ==
  ASSUME NEW a \in Int, NEW b \in Nat \ {0}
  PROVE  /\ a \div b \in Int
         /\ a % b \in 0 .. (b - 1)
         /\ a = b * (a \div b) + (a % b)
  BY Z3

(* The quotient is the only number with a remainder in range.              *)
LEMMA CocienteUnico ==
  ASSUME NEW a \in Int, NEW b \in Nat \ {0}, NEW q \in Int, NEW r \in 0 .. (b - 1),
         a = b * q + r
  PROVE  a \div b = q /\ a % b = r
  BY Z3

(* The quotients of naturals are naturals.                                 *)
LEMMA CocienteNatural ==
  ASSUME NEW a \in Nat, NEW b \in Nat \ {0}
  PROVE  a \div b \in Nat
  BY Z3

(* The parts of a logical address (cpu.c 214-217) are in range, and put    *)
(* together they give the address back: no two addresses share them.       *)
THEOREM PartesDeLaDireccion ==
  ASSUME NEW dir \in Nat
  PROVE  /\ NumeroPagina(dir) \in Nat
         /\ EntradaPrimerNivel(dir) \in Nat
         /\ EntradaSegundoNivel(dir) \in 0 .. (ENTRADAS_POR_TABLA - 1)
         /\ Desplazamiento(dir) \in 0 .. (TAM_PAGINA - 1)
         /\ NumeroPagina(dir)
              = PaginaDeEntrada(EntradaPrimerNivel(dir), EntradaSegundoNivel(dir))
         /\ dir = NumeroPagina(dir) * TAM_PAGINA + Desplazamiento(dir)
<1>1. NumeroPagina(dir) \in Nat
  BY CocienteNatural, MmuAssumption DEF NumeroPagina
<1>2. EntradaPrimerNivel(dir) \in Nat
  BY <1>1, CocienteNatural, MmuAssumption DEF EntradaPrimerNivel
<1>3. /\ EntradaSegundoNivel(dir) \in 0 .. (ENTRADAS_POR_TABLA - 1)
      /\ NumeroPagina(dir) = ENTRADAS_POR_TABLA * EntradaPrimerNivel(dir)
                               + EntradaSegundoNivel(dir)
  <2> DEFINE p == NumeroPagina(dir)
  <2>1. p \in Nat
    BY <1>1
  <2> HIDE DEF p
  <2>2. /\ p % ENTRADAS_POR_TABLA \in 0 .. (ENTRADAS_POR_TABLA - 1)
        /\ p = ENTRADAS_POR_TABLA * (p \div ENTRADAS_POR_TABLA) + (p % ENTRADAS_POR_TABLA)
    BY <2>1, MmuAssumption, Division
  <2>3. QED
    BY <2>2 DEF EntradaPrimerNivel, EntradaSegundoNivel, p
<1>4. /\ dir % TAM_PAGINA \in 0 .. (TAM_PAGINA - 1)
      /\ dir = TAM_PAGINA * NumeroPagina(dir) + (dir % TAM_PAGINA)
  BY Division, MmuAssumption DEF NumeroPagina
<1>5. Desplazamiento(dir) = dir % TAM_PAGINA
  BY <1>1, <1>4, MmuAssumption, Z3 DEF Desplazamiento
<1>6. dir = NumeroPagina(dir) * TAM_PAGINA + Desplazamiento(dir)
  BY <1>1, MmuAssumption DEF Desplazamiento
<1>7. EntradaPrimerNivel(dir) * ENTRADAS_POR_TABLA = ENTRADAS_POR_TABLA * EntradaPrimerNivel(dir)
  BY <1>2, MmuAssumption
<1>8. QED
  BY <1>1, <1>2, <1>3, <1>4, <1>5, <1>6, <1>7 DEF PaginaDeEntrada

(* The bytes of an access (memoria.c 320) are in the frame it is for if the*)
(* offset leaves room for them: an access is never of two frames.          *)
THEOREM AccesoConLugar ==
  ASSUME NEW dir \in Nat, NEW marco \in Nat,
         Desplazamiento(dir) + ANCHO <= TAM_PAGINA,
         NEW b \in DireccionFisica(marco, dir) .. (DireccionFisica(marco, dir) + ANCHO - 1)
  PROVE  b \div TAM_PAGINA = marco
<1>1. Desplazamiento(dir) \in 0 .. (TAM_PAGINA - 1)
  BY PartesDeLaDireccion
<1> DEFINE r == b - TAM_PAGINA * marco
<1>2. b \in Int /\ r \in 0 .. (TAM_PAGINA - 1) /\ b = TAM_PAGINA * marco + r
  BY <1>1, MmuAssumption, Z3 DEF DireccionFisica, ANCHO
<1>3. QED
  <2> HIDE DEF r
  <2>1. QED
    BY <1>2, CocienteUnico, MmuAssumption

(* Addresses that are multiples of four leave room for an access in pages  *)
(* of a multiple of four bytes, as the programs and configurations have.   *)
THEOREM AccesoAlineado ==
  ASSUME NEW dir \in Nat, dir % ANCHO = 0, TAM_PAGINA % ANCHO = 0
  PROVE  Desplazamiento(dir) + ANCHO <= TAM_PAGINA
<1>1. /\ NumeroPagina(dir) \in Nat
      /\ Desplazamiento(dir) \in 0 .. (TAM_PAGINA - 1)
      /\ dir = NumeroPagina(dir) * TAM_PAGINA + Desplazamiento(dir)
  BY PartesDeLaDireccion
<1> DEFINE k == TAM_PAGINA \div 4
           d == dir \div 4
<1>2. k \in Int /\ TAM_PAGINA = 4 * k
  BY MmuAssumption, Z3 DEF ANCHO
<1>3. d \in Int /\ dir = 4 * d
  BY Z3 DEF ANCHO
<1> HIDE DEF k, d
<1>4. Desplazamiento(dir) = 4 * (d - NumeroPagina(dir) * k)
  BY <1>1, <1>2, <1>3, Z3
<1>5. QED
  BY <1>1, <1>2, <1>4, MmuAssumption, Z3 DEF ANCHO

(* calcular_cantidad_tablas_necesarias (memoria.c 242) gives enough tables,*)
(* and none too many: every address of a process has its entry, and every  *)
(* table has an address.                                                   *)
THEOREM TablasSuficientes ==
  ASSUME NEW tam \in Nat
  PROVE  /\ TablasNecesarias(tam) \in Nat
         /\ \A dir \in 0 .. (tam - 1) : EntradaPrimerNivel(dir) < TablasNecesarias(tam)
         /\ (TablasNecesarias(tam) - 1) * BytesPorTabla < tam \/ tam = 0
<1> DEFINE n == TablasNecesarias(tam)
<1>1. BytesPorTabla \in Nat \ {0}
  BY MmuAssumption DEF BytesPorTabla
<1>2. tam + BytesPorTabla - 1 \in Nat
  BY <1>1
<1>3. n \in Nat
  BY <1>1, <1>2, CocienteNatural DEF TablasNecesarias
<1>4. PICK r \in 0 .. (BytesPorTabla - 1) : tam + BytesPorTabla - 1 = BytesPorTabla * n + r
  <2> DEFINE a == tam + BytesPorTabla - 1
  <2>1. a % BytesPorTabla \in 0 .. (BytesPorTabla - 1)
        /\ a = BytesPorTabla * (a \div BytesPorTabla) + (a % BytesPorTabla)
    BY <1>1, <1>2, Z3
  <2>2. QED
    BY <2>1 DEF TablasNecesarias
<1> HIDE DEF n
<1>5. tam <= BytesPorTabla * n
  BY <1>1, <1>3, <1>4
<1>6. ASSUME NEW dir \in 0 .. (tam - 1)
      PROVE  EntradaPrimerNivel(dir) < n
  <2> DEFINE i == EntradaPrimerNivel(dir)
             j == EntradaSegundoNivel(dir)
             d == Desplazamiento(dir)
  <2>1. /\ dir \in Nat /\ i \in Nat /\ j \in Nat /\ d \in Nat
        /\ dir = (i * ENTRADAS_POR_TABLA + j) * TAM_PAGINA + d
    BY PartesDeLaDireccion DEF PaginaDeEntrada
  <2> HIDE DEF i, j, d
  <2>2. i * BytesPorTabla <= dir
    BY <2>1, MmuAssumption, Z3 DEF BytesPorTabla
  <2>3. i * BytesPorTabla < BytesPorTabla * n
    BY <2>1, <2>2, <1>1, <1>3, <1>5, Z3
  <2>4. i < n
    BY <2>1, <2>3, <1>1, <1>3, Z3
  <2>5. QED
    BY <2>4 DEF i
<1>7. (n - 1) * BytesPorTabla < tam \/ tam = 0
  BY <1>1, <1>3, <1>4, Z3
<1>8. QED
  BY <1>3, <1>6, <1>7 DEF n

-----------------------------------------------------------------------------
(* The sizes consoles ask for are unsigned.                                *)
TamaniosNaturales == Tamanios \subseteq Nat

Viva(p) == tabla_paginas[p] # SinTabla
PrimerNivel(p) == tablas_primer_nivel[tabla_paginas[p] + 1]

TablasPosibles == {TablaSegundoNivel(p, i) : p \in Procesos, i \in Nat} \union {<<>>}

TiposTablas ==
  /\ tablas_primer_nivel \in Seq(Seq(Nat))
  /\ tablas_segundo_nivel \in Seq(TablasPosibles)
  /\ tabla_paginas \in [Procesos -> Nat \union {SinTabla}]
  /\ tam_proceso \in [Procesos -> Nat]

(* The table of first level of p is in its place, with an entry for each   *)
(* table of second level p needs, and those are in theirs.                 *)
TablasEnSuLugar(p) ==
  /\ tabla_paginas[p] + 1 \in 1 .. Len(tablas_primer_nivel)
  /\ Len(PrimerNivel(p)) = TablasNecesarias(tam_proceso[p])
  /\ \A i \in 1 .. Len(PrimerNivel(p)) :
       /\ PrimerNivel(p)[i] + 1 \in 1 .. Len(tablas_segundo_nivel)
       /\ tablas_segundo_nivel[PrimerNivel(p)[i] + 1] = TablaSegundoNivel(p, i - 1)

(* The strengthening.  That no two processes have the same table has to be *)
(* said, since tables of no entries are alike; that they share none of     *)
(* second level follows from what is in these.                             *)
IndInvTablas ==
  /\ TiposTablas
  /\ \A p \in Procesos : Viva(p) => TablasEnSuLugar(p)
  /\ \A p, q \in Procesos :
       (Viva(p) /\ Viva(q) /\ p # q) => tabla_paginas[p] # tabla_paginas[q]

(* A table of first level is a list of positions.                          *)
LEMMA NumerosDeTablas ==
  ASSUME TiposTablas, NEW p \in Procesos, TablasEnSuLugar(p)
  PROVE  PrimerNivel(p) \in Seq(Nat)
<1> DEFINE k == tabla_paginas[p] + 1
<1>1. tablas_primer_nivel \in Seq(Seq(Nat)) /\ k \in 1 .. Len(tablas_primer_nivel)
  BY DEF TiposTablas, TablasEnSuLugar
<1> HIDE DEF k
<1>2. tablas_primer_nivel[k] \in Seq(Nat)
  BY <1>1, ElementOfSeq
<1>3. QED
  BY <1>2 DEF PrimerNivel, k

(* A table of second level is of one process.                              *)
LEMMA TablaDeUno ==
  ASSUME NEW p, NEW q, NEW i, NEW j, TablaSegundoNivel(p, i) = TablaSegundoNivel(q, j)
  PROVE  p = q
<1>1. 0 \in Entradas
  BY MmuAssumption DEF Entradas
<1>2. TablaSegundoNivel(p, i)[0].pid = p /\ TablaSegundoNivel(q, j)[0].pid = q
  BY <1>1 DEF TablaSegundoNivel
<1>3. QED
  BY <1>2

(* Before any process there are no tables.                                 *)
LEMMA InicioTablas == InitTablas => IndInvTablas
  BY DEF InitTablas, IndInvTablas, TiposTablas, Viva, SinTabla

(* Creation puts tables at the end of both lists, and moves no other.      *)
LEMMA PasoCrear ==
  ASSUME IndInvTablas, NEW p \in Procesos, NEW tam \in Nat, CrearTablas(p, tam)
  PROVE  IndInvTablas'
<1> DEFINE n == TablasNecesarias(tam)
           primera == Len(tablas_segundo_nivel)
           numeros == [i \in 1 .. n |-> primera + i - 1]
           nuevas == [i \in 1 .. n |-> TablaSegundoNivel(p, i - 1)]
<1>1. /\ n \in Nat /\ primera \in Nat
      /\ TiposTablas
  <2>1. n \in Nat
    BY TablasSuficientes
  <2>2. TiposTablas
    BY DEF IndInvTablas
  <2>3. QED
    BY <2>1, <2>2 DEF TiposTablas
<1> HIDE DEF n
<1>2. numeros \in Seq(Nat) /\ Len(numeros) = n
  BY <1>1
<1>3. nuevas \in Seq(TablasPosibles) /\ Len(nuevas) = n
  BY <1>1 DEF TablasPosibles
<1>4. /\ tabla_paginas[p] = SinTabla
      /\ tabla_paginas' = [tabla_paginas EXCEPT ![p] = Len(tablas_primer_nivel)]
      /\ tam_proceso' = [tam_proceso EXCEPT ![p] = tam]
      /\ tablas_primer_nivel' = Append(tablas_primer_nivel, numeros)
      /\ tablas_segundo_nivel' = tablas_segundo_nivel \o nuevas
  BY DEF CrearTablas, n
<1>5. TiposTablas'
  BY <1>1, <1>2, <1>3, <1>4 DEF TiposTablas
<1>6. /\ Len(tablas_primer_nivel') = Len(tablas_primer_nivel) + 1
      /\ \A k \in 1 .. Len(tablas_primer_nivel) :
           tablas_primer_nivel'[k] = tablas_primer_nivel[k]
      /\ tablas_primer_nivel'[Len(tablas_primer_nivel) + 1] = numeros
  <2>1. tablas_primer_nivel \in Seq(Seq(Nat)) /\ tablas_primer_nivel' = Append(tablas_primer_nivel, numeros)
    BY <1>1, <1>4 DEF TiposTablas
  <2> HIDE DEF numeros
  <2>2. QED
    BY <2>1, <1>2
<1>7. /\ Len(tablas_segundo_nivel') = primera + n
      /\ \A k \in 1 .. primera : tablas_segundo_nivel'[k] = tablas_segundo_nivel[k]
      /\ \A k \in 1 .. n : tablas_segundo_nivel'[primera + k] = nuevas[k]
  <2>1. /\ tablas_segundo_nivel \in Seq(TablasPosibles)
        /\ tablas_segundo_nivel' = tablas_segundo_nivel \o nuevas
    BY <1>1, <1>4 DEF TiposTablas
  <2> HIDE DEF nuevas, TablasPosibles
  <2>2. /\ Len(tablas_segundo_nivel') = primera + n
        /\ \A k \in 1 .. primera + n : tablas_segundo_nivel'[k] =
             IF k <= primera THEN tablas_segundo_nivel[k] ELSE nuevas[k - primera]
    BY <2>1, <1>3, ConcatProperties
  <2> HIDE DEF primera
  <2>3. ASSUME NEW k \in 1 .. n
        PROVE  tablas_segundo_nivel'[primera + k] = nuevas[k]
    <3>1. /\ primera + k \in 1 .. primera + n /\ ~(primera + k <= primera)
          /\ (primera + k) - primera = k
      BY <1>1
    <3>2. QED
      BY <2>2, <3>1
  <2>4. QED
    BY <2>2, <2>3, <1>1
<1>8. ASSUME NEW q \in Procesos, Viva(q)'
      PROVE  TablasEnSuLugar(q)'
  <2>1. CASE q = p
    <3>1. /\ tabla_paginas'[p] = Len(tablas_primer_nivel) /\ tam_proceso'[p] = tam
          /\ PrimerNivel(p)' = numeros
      BY <1>1, <1>4, <1>6 DEF TiposTablas, PrimerNivel
    <3>2. \A i \in 1 .. n : /\ numeros[i] + 1 \in 1 .. Len(tablas_segundo_nivel')
                            /\ tablas_segundo_nivel'[numeros[i] + 1] = TablaSegundoNivel(p, i - 1)
      <4>1. TAKE i \in 1 .. n
      <4>2. numeros[i] + 1 = primera + i /\ nuevas[i] = TablaSegundoNivel(p, i - 1)
        BY <1>1
      <4>3. tablas_segundo_nivel'[primera + i] = nuevas[i]
        BY <1>7
      <4>4. QED
        BY <4>2, <4>3, <1>1, <1>7
    <3> HIDE DEF numeros, nuevas, primera
    <3>3. QED
      BY <2>1, <3>1, <3>2, <1>1, <1>2, <1>6 DEF TablasEnSuLugar, TiposTablas, n
  <2>2. CASE q # p
    <3>1. /\ tabla_paginas'[q] = tabla_paginas[q] /\ tam_proceso'[q] = tam_proceso[q]
          /\ Viva(q)
      BY <2>2, <1>1, <1>4, <1>8 DEF TiposTablas, Viva
    <3>2. TablasEnSuLugar(q)
      BY <3>1 DEF IndInvTablas
    <3>3. PrimerNivel(q)' = PrimerNivel(q)
      BY <3>1, <3>2, <1>6 DEF PrimerNivel, TablasEnSuLugar
    <3>4. tabla_paginas'[q] + 1 \in 1 .. Len(tablas_primer_nivel')
      BY <3>1, <3>2, <1>1, <1>6 DEF TablasEnSuLugar, TiposTablas
    <3>5. ASSUME NEW i \in 1 .. Len(PrimerNivel(q))
          PROVE  /\ PrimerNivel(q)[i] + 1 \in 1 .. Len(tablas_segundo_nivel')
                 /\ tablas_segundo_nivel'[PrimerNivel(q)[i] + 1] = TablaSegundoNivel(q, i - 1)
      <4> DEFINE k == PrimerNivel(q)[i] + 1
      <4>1. /\ k \in 1 .. primera
            /\ tablas_segundo_nivel[k] = TablaSegundoNivel(q, i - 1)
        BY <3>2 DEF TablasEnSuLugar
      <4> HIDE DEF k, primera, nuevas
      <4>2. k \in 1 .. Len(tablas_segundo_nivel') /\ tablas_segundo_nivel'[k] = tablas_segundo_nivel[k]
        BY <4>1, <1>1, <1>7
      <4>3. QED
        BY <4>1, <4>2 DEF k
    <3> HIDE DEF n, numeros, nuevas, primera
    <3>6. Len(PrimerNivel(q)) = TablasNecesarias(tam_proceso[q])
      BY <3>2 DEF TablasEnSuLugar
    <3>7. QED
      BY <3>1, <3>3, <3>4, <3>5, <3>6 DEF TablasEnSuLugar
  <2>3. QED
    BY <2>1, <2>2
<1>9. ASSUME NEW q \in Procesos, NEW r \in Procesos, Viva(q)', Viva(r)', q # r
      PROVE  tabla_paginas'[q] # tabla_paginas'[r]
  <2>1. \A s \in Procesos : (s # p /\ Viva(s)') =>
          /\ tabla_paginas'[s] = tabla_paginas[s] /\ Viva(s)
          /\ tabla_paginas[s] < Len(tablas_primer_nivel)
    BY <1>1, <1>4 DEF IndInvTablas, TiposTablas, TablasEnSuLugar, Viva, SinTabla
  <2>2. tabla_paginas'[p] = Len(tablas_primer_nivel)
    BY <1>1, <1>4 DEF TiposTablas
  <2>3. QED
    BY <2>1, <2>2, <1>1, <1>9 DEF IndInvTablas, TiposTablas
<1>10. QED
  BY <1>5, <1>8, <1>9 DEF IndInvTablas

(* Destruction frees the tables of one process in their places, and those  *)
(* of the others are not among them.                                       *)
LEMMA PasoDestruir ==
  ASSUME IndInvTablas, NEW p \in Procesos, DestruirTablas(p)
  PROVE  IndInvTablas'
<1> DEFINE t == tabla_paginas[p] + 1
           ids == ToSet(tablas_primer_nivel[t])
<1>1. TiposTablas /\ Viva(p) /\ TablasEnSuLugar(p)
  BY DEF IndInvTablas, DestruirTablas, Viva
<1>2. t \in 1 .. Len(tablas_primer_nivel)
  BY <1>1 DEF TablasEnSuLugar
<1>3. /\ tabla_paginas' = [tabla_paginas EXCEPT ![p] = SinTabla]
      /\ tam_proceso' = tam_proceso
      /\ tablas_primer_nivel' = [tablas_primer_nivel EXCEPT ![t] = <<>>]
      /\ tablas_segundo_nivel' = [k \in DOMAIN tablas_segundo_nivel |->
                                    IF k - 1 \in ids THEN <<>> ELSE tablas_segundo_nivel[k]]
  BY DEF DestruirTablas, LiberarPrimerNivel, LiberarSegundoNivel
<1>4. /\ Len(tablas_primer_nivel') = Len(tablas_primer_nivel)
      /\ \A k \in 1 .. Len(tablas_primer_nivel) :
           k # t => tablas_primer_nivel'[k] = tablas_primer_nivel[k]
      /\ tablas_primer_nivel' \in Seq(Seq(Nat))
  BY <1>1, <1>2, <1>3 DEF TiposTablas
<1>5. /\ Len(tablas_segundo_nivel') = Len(tablas_segundo_nivel)
      /\ \A k \in 1 .. Len(tablas_segundo_nivel) :
           k - 1 \notin ids => tablas_segundo_nivel'[k] = tablas_segundo_nivel[k]
      /\ tablas_segundo_nivel' \in Seq(TablasPosibles)
  <2>1. tablas_segundo_nivel \in Seq(TablasPosibles) /\ <<>> \in TablasPosibles
    BY <1>1 DEF TiposTablas, TablasPosibles
  <2> HIDE DEF ids
  <2>2. /\ Len(tablas_segundo_nivel) \in Nat
        /\ DOMAIN tablas_segundo_nivel = 1 .. Len(tablas_segundo_nivel)
        /\ \A k \in 1 .. Len(tablas_segundo_nivel) : tablas_segundo_nivel[k] \in TablasPosibles
    BY <2>1, LenProperties, ElementOfSeq
  <2>3. tablas_segundo_nivel' = [k \in 1 .. Len(tablas_segundo_nivel) |->
                                   IF k - 1 \in ids THEN <<>> ELSE tablas_segundo_nivel[k]]
    BY <2>2, <1>3
  <2>4. tablas_segundo_nivel' \in [1 .. Len(tablas_segundo_nivel) -> TablasPosibles]
    BY <2>1, <2>2, <2>3
  <2> HIDE DEF TablasPosibles
  <2>5. QED
    BY <2>2, <2>3, <2>4
<1>6. TiposTablas'
  BY <1>1, <1>3, <1>4, <1>5 DEF TiposTablas
<1>7. ASSUME NEW q \in Procesos, Viva(q)'
      PROVE  TablasEnSuLugar(q)'
  <2>1. /\ q # p /\ Viva(q)
        /\ tabla_paginas'[q] = tabla_paginas[q] /\ tam_proceso'[q] = tam_proceso[q]
    BY <1>1, <1>3, <1>7 DEF TiposTablas, Viva
  <2>2. TablasEnSuLugar(q) /\ tabla_paginas[q] + 1 # t
    BY <2>1, <1>1 DEF IndInvTablas, TiposTablas, Viva, SinTabla
  <2>3. PrimerNivel(q)' = PrimerNivel(q)
    BY <2>1, <2>2, <1>4 DEF PrimerNivel, TablasEnSuLugar
  <2>4. ASSUME NEW i \in 1 .. Len(PrimerNivel(q))
        PROVE  PrimerNivel(q)[i] \notin ids
    <3>1. SUFFICES ASSUME PrimerNivel(q)[i] \in ids PROVE FALSE
      OBVIOUS
    <3>2. PICK j \in 1 .. Len(PrimerNivel(p)) : PrimerNivel(p)[j] = PrimerNivel(q)[i]
      <4>1. PrimerNivel(p) \in Seq(Nat) /\ PrimerNivel(q)[i] \in ToSet(PrimerNivel(p))
        BY <3>1, <1>1, NumerosDeTablas DEF PrimerNivel
      <4>2. QED
        BY <4>1 DEF ToSet
    <3>3. TablaSegundoNivel(p, j - 1) = TablaSegundoNivel(q, i - 1)
      BY <3>2, <1>1, <2>2 DEF TablasEnSuLugar
    <3>4. QED
      BY <3>3, <2>1, TablaDeUno
  <2> HIDE DEF ids, t
  <2>5. \A i \in 1 .. Len(PrimerNivel(q)) :
          /\ PrimerNivel(q)[i] + 1 \in 1 .. Len(tablas_segundo_nivel')
          /\ tablas_segundo_nivel'[PrimerNivel(q)[i] + 1] = TablaSegundoNivel(q, i - 1)
    <3>1. TAKE i \in 1 .. Len(PrimerNivel(q))
    <3>2. PrimerNivel(q)[i] \in Nat
      BY <1>1, <2>2, NumerosDeTablas
    <3> DEFINE k == PrimerNivel(q)[i]
    <3>3. /\ k + 1 \in 1 .. Len(tablas_segundo_nivel) /\ k \notin ids
          /\ tablas_segundo_nivel[k + 1] = TablaSegundoNivel(q, i - 1)
      BY <2>2, <2>4 DEF TablasEnSuLugar
    <3> HIDE DEF k
    <3>4. (k + 1) - 1 = k
      BY <3>2 DEF k
    <3>5. /\ k + 1 \in 1 .. Len(tablas_segundo_nivel')
          /\ tablas_segundo_nivel'[k + 1] = TablaSegundoNivel(q, i - 1)
      BY <3>3, <3>4, <1>5
    <3>6. QED
      BY <3>5 DEF k
  <2>6. QED
    BY <2>1, <2>2, <2>3, <2>5, <1>4 DEF TablasEnSuLugar
<1>8. ASSUME NEW q \in Procesos, NEW r \in Procesos, Viva(q)', Viva(r)', q # r
      PROVE  tabla_paginas'[q] # tabla_paginas'[r]
  BY <1>1, <1>3, <1>8 DEF IndInvTablas, TiposTablas, Viva
<1>9. QED
  BY <1>6, <1>7, <1>8 DEF IndInvTablas

(* The strengthening is enough: the two positions of an address exist.     *)
LEMMA RutaPorTablas == IndInvTablas => RutaDePagina
<1> SUFFICES ASSUME IndInvTablas, NEW p \in Procesos, Viva(p),
                    NEW dir \in 0 .. tam_proceso[p] - 1
             PROVE  /\ TieneEntrada(tabla_paginas[p], dir)
                    /\ EntradaDe(tabla_paginas[p], dir) = [pid |-> p, pagina |-> NumeroPagina(dir)]
  BY DEF RutaDePagina, Viva
<1> DEFINE i == EntradaPrimerNivel(dir)
           j == EntradaSegundoNivel(dir)
           k == PrimerNivel(p)[i + 1]
<1>1. TiposTablas /\ TablasEnSuLugar(p) /\ tam_proceso[p] \in Nat /\ dir \in Nat
  BY DEF IndInvTablas, TiposTablas
<1>2. /\ i \in Nat /\ j \in Entradas
      /\ NumeroPagina(dir) = PaginaDeEntrada(i, j)
  BY <1>1, PartesDeLaDireccion DEF Entradas
<1>3. i < TablasNecesarias(tam_proceso[p]) /\ TablasNecesarias(tam_proceso[p]) \in Nat
  BY <1>1, TablasSuficientes
<1>4. i + 1 \in 1 .. Len(PrimerNivel(p))
  <2> HIDE DEF i
  <2>1. QED
    BY <1>1, <1>2, <1>3 DEF TablasEnSuLugar
<1>5. /\ k + 1 \in 1 .. Len(tablas_segundo_nivel)
      /\ tablas_segundo_nivel[k + 1] = TablaSegundoNivel(p, i)
  <2> HIDE DEF i
  <2>1. (i + 1) - 1 = i
    BY <1>2
  <2>2. QED
    BY <1>1, <1>4, <2>1 DEF TablasEnSuLugar
<1>6. /\ tabla_paginas[p] + 1 \in DOMAIN tablas_primer_nivel
      /\ i + 1 \in DOMAIN tablas_primer_nivel[tabla_paginas[p] + 1]
      /\ k + 1 \in DOMAIN tablas_segundo_nivel
  <2> HIDE DEF i, k
  <2>1. tabla_paginas[p] + 1 \in DOMAIN tablas_primer_nivel
    BY <1>1 DEF TiposTablas, TablasEnSuLugar
  <2>2. PrimerNivel(p) = tablas_primer_nivel[tabla_paginas[p] + 1]
    BY DEF PrimerNivel
  <2>3. tablas_primer_nivel[tabla_paginas[p] + 1] \in Seq(Nat)
    BY <1>1, <2>1 DEF TiposTablas
  <2>4. i + 1 \in DOMAIN tablas_primer_nivel[tabla_paginas[p] + 1]
    BY <1>4, <2>2, <2>3
  <2>5. k + 1 \in DOMAIN tablas_segundo_nivel
    BY <1>1, <1>5 DEF TiposTablas
  <2>6. QED
    BY <2>1, <2>4, <2>5
<1>7. TablaSegundoNivel(p, i)[j] = [pid |-> p, pagina |-> PaginaDeEntrada(i, j)]
      /\ j \in DOMAIN TablaSegundoNivel(p, i)
  BY <1>2 DEF TablaSegundoNivel
<1>8. k = NumeroTablaSegundoNivel(tabla_paginas[p], dir)
  BY DEF NumeroTablaSegundoNivel, PrimerNivel
<1> HIDE DEF k
<1>9. QED
  BY <1>2, <1>5, <1>6, <1>7, <1>8 DEF TieneEntrada, EntradaDe

(* Every table of a process that exists is in its place (memoria.c 170-210,*)
(* 483-512).                                                               *)
THEOREM TablasEnOrden ==
  ASSUME TamaniosNaturales
  PROVE  SpecTablas => []IndInvTablas
<1>1. IndInvTablas /\ [NextTablas]_varsTablas => IndInvTablas'
  <2>1. SUFFICES ASSUME IndInvTablas, [NextTablas]_varsTablas PROVE IndInvTablas'
    OBVIOUS
  <2>2. ASSUME NEW p \in Procesos, NEW tam \in Tamanios, CrearTablas(p, tam)
        PROVE  IndInvTablas'
    BY <2>1, <2>2, PasoCrear DEF TamaniosNaturales
  <2>3. ASSUME NEW p \in Procesos, DestruirTablas(p)
        PROVE  IndInvTablas'
    BY <2>1, <2>3, PasoDestruir
  <2>4. CASE UNCHANGED varsTablas
    BY <2>1, <2>4 DEF varsTablas, IndInvTablas, TiposTablas, Viva, TablasEnSuLugar,
                      PrimerNivel, TablasPosibles, TablaSegundoNivel, Entradas
  <2>5. QED
    BY <2>1, <2>2, <2>3, <2>4 DEF NextTablas
<1>2. QED
  BY <1>1, InicioTablas, PTL DEF SpecTablas

(* The number the kernel keeps leads every address of a process to the     *)
(* entry of its page, however processes are created and destroyed          *)
(* (memoria.c 170-210, 483-512).                                           *)
THEOREM RutaSiempre ==
  ASSUME TamaniosNaturales
  PROVE  SpecTablas => []RutaDePagina
<1>1. IndInvTablas => RutaDePagina
  BY RutaPorTablas
<1>2. QED
  BY <1>1, TablasEnOrden, PTL
=============================================================================

--------------------------- MODULE Memoria_proofs ---------------------------
(***************************************************************************)
(* Proofs about the memory module, for any number of processes, pages and  *)
(* frames and either algorithm: frames are neither lost nor shared by its  *)
(* two threads, and a page keeps what was written to it wherever it is.    *)
(***************************************************************************)
EXTENDS Memoria, Clock_proofs, FiniteSetTheorems, FunctionTheorems, SequenceTheorems

Presente(p, n) == tabla[p][n].presencia
MarcoDe(p, n) == tabla[p][n].marco

(* The thread of the kernel works on a process the CPU does not execute.   *)
HiloDeAcuerdo ==
  /\ hilo_kernel.accion = "suspender" =>
       hilo_kernel.pid \in Procesos /\ proceso[hilo_kernel.pid] = "suspendiendo"
  /\ hilo_kernel.accion = "destruir" =>
       hilo_kernel.pid \in Procesos /\ proceso[hilo_kernel.pid] = "destruido"

(* The pages of a destroyed process leave memory in order.                 *)
EntradasLiberadas ==
  \A p \in Procesos, n \in Paginas :
    proceso[p] = "destruido" /\ Presente(p, n) =>
      /\ hilo_kernel.accion = "destruir" /\ hilo_kernel.pid = p
      /\ hilo_kernel.pagina <= n

SinPaginas ==
  \A p \in Procesos, n \in Paginas : proceso[p] = "sin_estructuras" => ~Presente(p, n)

(* MarcosRepartidos without counting.                                      *)
LibreUnaVez ==
  \A j, k \in 1 .. Len(marcos_disponibles) :
    marcos_disponibles[j] = marcos_disponibles[k] => j = k
LibreNoOcupado ==
  \A k \in 1 .. Len(marcos_disponibles), p \in Procesos, n \in Paginas :
    Presente(p, n) => MarcoDe(p, n) # marcos_disponibles[k]
OcupadoUnaVez ==
  \A p, q \in Procesos, n, k \in Paginas :
    Presente(p, n) /\ Presente(q, k) /\ MarcoDe(p, n) = MarcoDe(q, k) => p = q /\ n = k
NingunoPerdido ==
  \A m \in Marcos :
    \/ \E k \in 1 .. Len(marcos_disponibles) : marcos_disponibles[k] = m
    \/ \E p \in Procesos, n \in Paginas : Presente(p, n) /\ MarcoDe(p, n) = m
Reparto == LibreUnaVez /\ LibreNoOcupado /\ OcupadoUnaVez /\ NingunoPerdido

(* What the CPU waits to access is a page of a process.                    *)
PedidoDeProceso == pedido # SinPedido => pedido.pid \in Procesos

(* What a process that exists may find in its pages is a value.            *)
Vivo(p) == proceso[p] \notin {"sin_estructuras", "destruido"}
PaginasConValor ==
  \A p \in Procesos, n \in Paginas : Vivo(p) =>
    /\ swap[p][n] \in Valores
    /\ Presente(p, n) => base_memoria[MarcoDe(p, n)] \in Valores

(* The strengthening.                                                      *)
IndInv ==
  /\ TypeOK /\ HiloDeAcuerdo /\ EntradasLiberadas /\ SinPaginas
  /\ Reparto /\ MarcosAcotados /\ LimpiaEnDisco /\ PedidoVigente
  /\ PedidoDeProceso /\ PaginasConValor
-----------------------------------------------------------------------------
Hilos == [accion : {"ninguna", "suspender", "destruir"},
          pid : Procesos \union {Nada}, pagina : 0 .. PAGINAS]

(* The requests of the kernel under way have their type.                   *)
LEMMA TiposDeHilo ==
  /\ Libre \in Hilos /\ Libre.accion = "ninguna"
  /\ \A a \in {"suspender", "destruir"}, p \in Procesos, n \in 0 .. PAGINAS :
       /\ Atendiendo(a, p, n) \in Hilos
       /\ Atendiendo(a, p, n).accion = a /\ Atendiendo(a, p, n).pid = p
       /\ Atendiendo(a, p, n).pagina = n
  /\ 0 \in 0 .. PAGINAS /\ 0 \in Paginas /\ 0 \in Marcos /\ 0 \in Posiciones
  BY TamaniosAssumption, MarcosAssumption
     DEF Libre, Atendiendo, Hilos, Paginas, Marcos, Posiciones

(* The pages of a process in memory are finitely many.                     *)
LEMMA PresentesFinitas ==
  ASSUME NEW p
  PROVE  IsFiniteSet(Presentes(p)) /\ Cardinality(Presentes(p)) \in Nat
<1>1. IsFiniteSet(Paginas)
  BY TamaniosAssumption, FS_Interval DEF Paginas
<1>2. Presentes(p) \in SUBSET Paginas
  BY DEF Presentes
<1> QED BY <1>1, <1>2, FS_Subset, FS_CardinalityType

(* The list sorted by frame: the pages of a process in memory have places  *)
(* of their own.                                                           *)
LEMMA LugarUnico ==
  ASSUME TypeOK, OcupadoUnaVez, NEW p \in Procesos
  PROVE  /\ \A n \in Presentes(p) : Lugar(p, n) \in 0 .. Cardinality(Presentes(p)) - 1
         /\ \A n, k \in Presentes(p) : Lugar(p, n) = Lugar(p, k) => n = k
<1> DEFINE P == Presentes(p)
           f(n) == tabla[p][n].marco
           D(n) == {q \in P : f(q) < f(n)}
<1>1. IsFiniteSet(P) /\ Cardinality(P) \in Nat
  BY PresentesFinitas
<1>2. /\ \A n \in P : f(n) \in Int
      /\ \A n, k \in P : f(n) = f(k) => n = k
  <2>1. P \subseteq Paginas /\ \A n \in P : Presente(p, n)
    BY DEF Presentes, Presente
  <2>2. \A n \in Paginas : f(n) \in Marcos
    BY DEF TypeOK, Entrada
  <2>3. \A n, k \in P : f(n) = f(k) => n = k
    BY <2>1 DEF OcupadoUnaVez, MarcoDe
  <2> QED BY <2>1, <2>2, <2>3 DEF Marcos
<1>3. \A n \in P : Lugar(p, n) = Cardinality(D(n)) /\ D(n) \in SUBSET P
  BY DEF Lugar
<1>4. \A n \in P : IsFiniteSet(D(n)) /\ Cardinality(D(n)) \in Nat
  BY <1>1, <1>3, FS_Subset, FS_CardinalityType
<1> HIDE DEF P
<1>5. ASSUME NEW n \in P PROVE Lugar(p, n) \in 0 .. Cardinality(P) - 1
  <2>1. D(n) \in SUBSET (P \ {n})
    BY <1>2
  <2>2. IsFiniteSet(P \ {n}) /\ Cardinality(P \ {n}) = Cardinality(P) - 1
    BY <1>1, FS_RemoveElement
  <2> HIDE DEF D
  <2>3. Cardinality(D(n)) <= Cardinality(P) - 1
    BY <2>1, <2>2, FS_Subset
  <2> QED BY <2>3, <1>1, <1>3, <1>4
<1>6. ASSUME NEW n \in P, NEW k \in P, f(n) < f(k) PROVE Lugar(p, n) < Lugar(p, k)
  <2>1. D(n) \in SUBSET (D(k) \ {n}) /\ n \in D(k)
    BY <1>2, <1>6
  <2> HIDE DEF D
  <2>2. IsFiniteSet(D(k) \ {n}) /\ Cardinality(D(k) \ {n}) = Cardinality(D(k)) - 1
    BY <1>4, <2>1, FS_RemoveElement
  <2>3. Cardinality(D(n)) <= Cardinality(D(k)) - 1
    BY <2>1, <2>2, FS_Subset
  <2> QED BY <2>3, <1>3, <1>4
<1>7. \A n, k \in P : Lugar(p, n) = Lugar(p, k) => n = k
  <2> SUFFICES ASSUME NEW n \in P, NEW k \in P, n # k PROVE Lugar(p, n) # Lugar(p, k)
    OBVIOUS
  <2>1. f(n) < f(k) \/ f(k) < f(n)
    BY <1>2
  <2>2. Lugar(p, n) \in Nat /\ Lugar(p, k) \in Nat
    BY <1>3, <1>4
  <2> HIDE DEF f
  <2> QED BY <2>1, <2>2, <1>6
<1> QED BY <1>5, <1>7 DEF P

(* When all the frames of a process are taken, its pages in memory and the *)
(* positions correspond one to one.                                        *)
LEMMA LugarBiyectivo ==
  ASSUME TypeOK, OcupadoUnaVez, NEW p \in Procesos,
         Cardinality(Presentes(p)) = MARCOS_POR_PROCESO
  PROVE  /\ \A n \in Presentes(p) : Lugar(p, n) \in Posiciones
         /\ \A i \in Posiciones : EnLugar(p, i) \in Presentes(p) /\ Lugar(p, EnLugar(p, i)) = i
<1> DEFINE P == Presentes(p)
           L == [n \in P |-> Lugar(p, n)]
<1>1. L \in [P -> Posiciones] /\ \A n, k \in P : L[n] = L[k] => n = k
  BY LugarUnico DEF Posiciones
<1>2. IsFiniteSet(Posiciones) /\ Cardinality(Posiciones) = MARCOS_POR_PROCESO
  BY MarcosAssumption, FS_Interval DEF Posiciones
<1> HIDE DEF L, P
<1>3. L \in Injection(P, Posiciones)
  BY <1>1, Fun_IsInj
<1>4. L \in Surjection(P, Posiciones)
  BY <1>2, <1>3, FS_Injection DEF P
<1>5. \A i \in Posiciones : \E n \in P : L[n] = i
  BY <1>4, Fun_SurjectionProperties
<1>6. \A i \in Posiciones : \E n \in P : Lugar(p, n) = i
  BY <1>5 DEF L
<1> QED BY <1>1, <1>6 DEF EnLugar, P, L

(* What the inductive invariant says of frames is what MarcosRepartidos    *)
(* says counting.                                                          *)
LEMMA RepartoCuenta == TypeOK /\ Reparto => MarcosRepartidos
<1> SUFFICES ASSUME TypeOK, Reparto, NEW m \in Marcos
             PROVE  Cardinality({k \in 1 .. Len(marcos_disponibles) : marcos_disponibles[k] = m})
                      + Cardinality(Ocupantes(m)) = 1
  BY DEF MarcosRepartidos
<1> DEFINE L == {k \in 1 .. Len(marcos_disponibles) : marcos_disponibles[k] = m}
           O == Ocupantes(m)
<1>1. \A j, k \in L : j = k
  BY DEF Reparto, LibreUnaVez
<1>2. \A a, b \in O : a = b
  BY DEF Reparto, OcupadoUnaVez, Ocupantes, Presente, MarcoDe
<1>3. L = {} \/ O = {}
  BY DEF Reparto, LibreNoOcupado, Ocupantes, Presente, MarcoDe
<1>4. L # {} \/ O # {}
  <2>1. CASE \E k \in 1 .. Len(marcos_disponibles) : marcos_disponibles[k] = m
    BY <2>1
  <2>2. CASE \E p \in Procesos, n \in Paginas : Presente(p, n) /\ MarcoDe(p, n) = m
    <3>1. PICK p \in Procesos, n \in Paginas : Presente(p, n) /\ MarcoDe(p, n) = m
      BY <2>2
    <3>2. <<p, n>> \in O
      BY <3>1 DEF Ocupantes, Presente, MarcoDe
    <3> QED BY <3>2
  <2> QED BY <2>1, <2>2 DEF Reparto, NingunoPerdido
<1> HIDE DEF L, O
<1>5. ASSUME NEW S, \A a, b \in S : a = b, S # {} PROVE Cardinality(S) = 1
  <2>1. PICK a : S = {a}
    BY <1>5
  <2> QED BY <2>1, FS_Singleton
<1> SUFFICES Cardinality(L) + Cardinality(O) = 1
  BY DEF L, O
<1>6. CASE L = {}
  <2>1. Cardinality(L) = 0
    BY <1>6, FS_EmptySet
  <2>2. Cardinality(O) = 1
    BY <1>2, <1>4, <1>5, <1>6
  <2> QED BY <2>1, <2>2
<1>7. CASE O = {}
  <2>1. Cardinality(O) = 0
    BY <1>7, FS_EmptySet
  <2>2. Cardinality(L) = 1
    BY <1>1, <1>4, <1>5, <1>7
  <2> QED BY <2>1, <2>2
<1> QED BY <1>3, <1>6, <1>7
-----------------------------------------------------------------------------
(* Before any request the list has every frame, once.                      *)
LEMMA InicioMemoria == Init => IndInv
<1> SUFFICES ASSUME Init PROVE IndInv
  OBVIOUS
<1>1. /\ MARCOS \in Nat /\ MARCOS > 0 /\ PAGINAS \in Nat /\ PAGINAS > 0
      /\ MARCOS_POR_PROCESO \in Nat /\ MARCOS_POR_PROCESO > 0
  BY TamaniosAssumption, MarcosAssumption
<1>2. /\ marcos_disponibles \in Seq(Marcos) /\ Len(marcos_disponibles) = MARCOS
      /\ \A k \in 1 .. MARCOS : marcos_disponibles[k] = k - 1
  BY <1>1 DEF Init, Marcos
<1>3. TypeOK
  <2>1. EntradaVacia \in Entrada /\ SinPedido \in [pid : Procesos \union {Nada}, pagina : Paginas, marco : Marcos]
    BY TiposDeHilo DEF EntradaVacia, Entrada, SinPedido
  <2> QED BY <1>2, <2>1, TiposDeHilo DEF Init, TypeOK, Hilos
<1>4. /\ HiloDeAcuerdo /\ EntradasLiberadas /\ SinPaginas /\ LimpiaEnDisco
      /\ PedidoVigente /\ PedidoDeProceso /\ PaginasConValor
  BY DEF Init, PedidoDeProceso, HiloDeAcuerdo, EntradasLiberadas, SinPaginas, LimpiaEnDisco, PedidoVigente,
         PaginasConValor, Vivo, Presente, EntradaVacia, Libre
<1>5. Reparto
  <2>1. \A p \in Procesos, n \in Paginas : ~Presente(p, n)
    BY DEF Init, Presente, EntradaVacia
  <2>2. \A m \in Marcos : m + 1 \in 1 .. MARCOS /\ (m + 1) - 1 = m
    BY <1>1 DEF Marcos
  <2>3. NingunoPerdido
    BY <1>2, <2>2 DEF NingunoPerdido
  <2>4. LibreUnaVez
    BY <1>1, <1>2 DEF LibreUnaVez
  <2> QED BY <2>1, <2>3, <2>4 DEF Reparto, LibreNoOcupado, OcupadoUnaVez
<1>6. MarcosAcotados
  <2>1. \A p \in Procesos : Presentes(p) = {}
    BY DEF Init, Presentes, EntradaVacia
  <2> QED BY <1>1, <2>1, FS_EmptySet DEF MarcosAcotados
<1> QED BY <1>3, <1>4, <1>5, <1>6 DEF IndInv

(* Requests that begin or end move no page.                                *)
LEMMA PasoSinPaginas ==
  ASSUME IndInv, NEW p \in Procesos,
         \/ InicializarEstructuras(p) \/ Suspender(p) \/ DestruirEstructuras(p)
         \/ ConfirmarSuspension \/ ConfirmarDestruccion \/ Readmitir(p)
  PROVE  IndInv'
<1>1. /\ TypeOK /\ HiloDeAcuerdo /\ EntradasLiberadas /\ SinPaginas /\ LimpiaEnDisco
      /\ PedidoVigente /\ PedidoDeProceso /\ PaginasConValor
  BY DEF IndInv
<1>2. UNCHANGED <<tabla, marcos_disponibles, base_memoria, pedido, caida>>
  BY DEF InicializarEstructuras, Suspender, DestruirEstructuras, ConfirmarSuspension,
         ConfirmarDestruccion, Readmitir
<1>3. (Reparto /\ MarcosAcotados)'
  BY <1>2 DEF IndInv, Reparto, LibreUnaVez, LibreNoOcupado, OcupadoUnaVez, NingunoPerdido,
              Presente, MarcoDe, MarcosAcotados, Presentes
<1> USE DEF Presente, MarcoDe, Vivo
<1>4. ASSUME InicializarEstructuras(p) PROVE IndInv'
  <2>1. TypeOK'
    BY <1>1, <1>4, ValoresAssumption DEF InicializarEstructuras, TypeOK
  <2>2. (HiloDeAcuerdo /\ EntradasLiberadas /\ SinPaginas)'
    BY <1>1, <1>4 DEF InicializarEstructuras, TypeOK, HiloDeAcuerdo, EntradasLiberadas, SinPaginas, Libre
  <2>3. (LimpiaEnDisco /\ PedidoVigente /\ PedidoDeProceso /\ PaginasConValor)'
    BY <1>1, <1>4, ValoresAssumption
       DEF InicializarEstructuras, TypeOK, SinPaginas, LimpiaEnDisco, PedidoVigente, PedidoDeProceso, PaginasConValor
  <2> QED BY <1>3, <2>1, <2>2, <2>3 DEF IndInv
<1>5. ASSUME Suspender(p) \/ DestruirEstructuras(p) PROVE IndInv'
  <2>1. PICK e \in {"suspendiendo", "destruido"}, a \in {"suspender", "destruir"} :
          /\ proceso' = [proceso EXCEPT ![p] = e]
          /\ hilo_kernel' = Atendiendo(a, p, 0)
          /\ a = "suspender" <=> e = "suspendiendo"
    BY <1>5 DEF Suspender, DestruirEstructuras
  <2>2. /\ hilo_kernel = Libre /\ proceso[p] = "en_memoria" /\ pedido.pid # p
        /\ swap' = swap
        /\ posicion_cursor' = posicion_cursor \/ posicion_cursor' = [posicion_cursor EXCEPT ![p] = 0]
    BY <1>5 DEF Suspender, DestruirEstructuras
  <2>3. TypeOK'
    <3>1. hilo_kernel' \in Hilos
      BY <2>1, TiposDeHilo
    <3>2. posicion_cursor' \in [Procesos -> Posiciones]
      BY <1>1, <2>2, TiposDeHilo DEF TypeOK
    <3> QED BY <1>1, <1>2, <2>1, <2>2, <3>1, <3>2 DEF TypeOK, Hilos
  <2>4. (HiloDeAcuerdo /\ EntradasLiberadas /\ SinPaginas)'
    BY <1>1, <1>2, <2>1, <2>2, TiposDeHilo
       DEF TypeOK, HiloDeAcuerdo, EntradasLiberadas, SinPaginas, Paginas
  <2>5. (LimpiaEnDisco /\ PedidoDeProceso)'
    BY <1>1, <1>2, <2>2 DEF LimpiaEnDisco, PedidoDeProceso
  <2>6. PedidoVigente'
    BY <1>1, <1>2, <2>1, <2>2 DEF TypeOK, PedidoVigente, PedidoDeProceso
  <2>7. PaginasConValor'
    <3>1. \A q \in Procesos : Vivo(q)' => Vivo(q)
      BY <1>1, <2>1, <2>2 DEF TypeOK
    <3> QED BY <1>1, <1>2, <2>2, <3>1 DEF PaginasConValor
  <2> QED BY <1>3, <2>3, <2>4, <2>5, <2>6, <2>7 DEF IndInv
<1>6. ASSUME ConfirmarSuspension \/ Readmitir(p) PROVE IndInv'
  <2>1. PICK q \in Procesos, e \in {"suspendido", "en_memoria"} :
          /\ proceso' = [proceso EXCEPT ![q] = e]
          /\ proceso[q] \in {"suspendiendo", "suspendido"}
          /\ \/ hilo_kernel' = Libre /\ hilo_kernel.accion = "suspender"
             \/ hilo_kernel' = hilo_kernel /\ proceso[q] = "suspendido"
    BY <1>1, <1>6 DEF ConfirmarSuspension, Readmitir, HiloDeAcuerdo
  <2>2. swap' = swap /\ posicion_cursor' = posicion_cursor
    BY <1>6 DEF ConfirmarSuspension, Readmitir
  <2>3. TypeOK'
    BY <1>1, <1>2, <2>1, <2>2, TiposDeHilo DEF TypeOK, Hilos
  <2>4. (HiloDeAcuerdo /\ EntradasLiberadas /\ SinPaginas)'
    BY <1>1, <1>2, <2>1, TiposDeHilo
       DEF TypeOK, HiloDeAcuerdo, EntradasLiberadas, SinPaginas
  <2>5. (LimpiaEnDisco /\ PedidoVigente /\ PedidoDeProceso /\ PaginasConValor)'
    BY <1>1, <1>2, <2>1, <2>2
       DEF TypeOK, LimpiaEnDisco, PedidoVigente, PedidoDeProceso, PaginasConValor
  <2> QED BY <1>3, <2>3, <2>4, <2>5 DEF IndInv
<1>7. ASSUME ConfirmarDestruccion PROVE IndInv'
  <2>1. TypeOK'
    BY <1>1, <1>7, TiposDeHilo DEF ConfirmarDestruccion, TypeOK, Hilos
  <2>2. /\ hilo_kernel.pid \in Procesos /\ proceso[hilo_kernel.pid] = "destruido"
        /\ \A n \in Paginas : ~Presente(hilo_kernel.pid, n)
    BY <1>1, <1>7, TamaniosAssumption
       DEF ConfirmarDestruccion, HiloDeAcuerdo, EntradasLiberadas, Paginas
  <2>3. (HiloDeAcuerdo /\ EntradasLiberadas /\ SinPaginas)'
    BY <1>1, <1>7, <2>2 DEF ConfirmarDestruccion, TypeOK, HiloDeAcuerdo, EntradasLiberadas,
                            SinPaginas, Libre
  <2>4. (LimpiaEnDisco /\ PedidoVigente /\ PedidoDeProceso /\ PaginasConValor)'
    BY <1>1, <1>7, <2>2 DEF ConfirmarDestruccion, TypeOK, LimpiaEnDisco, PedidoVigente,
                            PedidoDeProceso, PaginasConValor
  <2> QED BY <1>3, <2>1, <2>3, <2>4 DEF IndInv
<1> QED BY <1>4, <1>5, <1>6, <1>7
-----------------------------------------------------------------------------
(* A step that only touches the entry of page n of p.                      *)
SoloEntrada(p, n) ==
  /\ tabla' \in [Procesos -> [Paginas -> Entrada]]
  /\ \A q \in Procesos, k \in Paginas : (q # p \/ k # n) => tabla'[q][k] = tabla[q][k]

(* A page that leaves memory and gives its frame back keeps the frames in  *)
(* order.                                                                  *)
LEMMA SoltarReparto ==
  ASSUME TypeOK, Reparto, MarcosAcotados, NEW p \in Procesos, NEW n \in Paginas,
         SoloEntrada(p, n), Presente(p, n), ~Presente(p, n)',
         marcos_disponibles' = Append(marcos_disponibles, MarcoDe(p, n))
  PROVE  Reparto' /\ MarcosAcotados' /\ marcos_disponibles' \in Seq(Marcos)
<1> DEFINE m == MarcoDe(p, n)
           largo == Len(marcos_disponibles)
<1>1. /\ marcos_disponibles \in Seq(Marcos) /\ largo \in Nat /\ m \in Marcos
  BY DEF TypeOK, Entrada, MarcoDe
<1>2. /\ marcos_disponibles' \in Seq(Marcos) /\ Len(marcos_disponibles') = largo + 1
      /\ \A k \in 1 .. largo : marcos_disponibles'[k] = marcos_disponibles[k]
      /\ marcos_disponibles'[largo + 1] = m
  <2> HIDE DEF m
  <2> QED BY <1>1, AppendProperties DEF m
<1>3. \A q \in Procesos, k \in Paginas :
        Presente(q, k)' => /\ Presente(q, k) /\ MarcoDe(q, k)' = MarcoDe(q, k)
                           /\ q # p \/ k # n
  BY DEF SoloEntrada, Presente, MarcoDe
<1>4. \A q \in Procesos, k \in Paginas :
        Presente(q, k) => (q = p /\ k = n) \/ (Presente(q, k)' /\ MarcoDe(q, k)' = MarcoDe(q, k))
  BY DEF SoloEntrada, Presente, MarcoDe
<1>5. LibreUnaVez /\ LibreNoOcupado /\ OcupadoUnaVez /\ NingunoPerdido
  BY DEF Reparto
<1>6. \A k \in 1 .. largo : marcos_disponibles[k] # m
  BY <1>5 DEF LibreNoOcupado
<1> HIDE DEF largo
<1>7. LibreUnaVez'
  <2> SUFFICES ASSUME NEW j \in 1 .. largo + 1, NEW k \in 1 .. largo + 1, j # k
               PROVE  marcos_disponibles'[j] # marcos_disponibles'[k]
    BY <1>2 DEF LibreUnaVez
  <2>1. j \in 1 .. largo \/ j = largo + 1
    BY <1>1
  <2>2. k \in 1 .. largo \/ k = largo + 1
    BY <1>1
  <2> QED BY <2>1, <2>2, <1>2, <1>5, <1>6 DEF LibreUnaVez, largo
<1>8. LibreNoOcupado'
  <2> SUFFICES ASSUME NEW j \in 1 .. largo + 1, NEW q \in Procesos, NEW k \in Paginas,
                      Presente(q, k)'
               PROVE  MarcoDe(q, k)' # marcos_disponibles'[j]
    BY <1>2 DEF LibreNoOcupado
  <2>1. Presente(q, k) /\ MarcoDe(q, k)' = MarcoDe(q, k) /\ (q # p \/ k # n)
    BY <1>3
  <2>2. MarcoDe(q, k) # m
    BY <2>1, <1>5 DEF OcupadoUnaVez
  <2>3. j \in 1 .. largo \/ j = largo + 1
    BY <1>1
  <2> QED BY <2>1, <2>2, <2>3, <1>2, <1>5 DEF LibreNoOcupado, largo
<1>9. OcupadoUnaVez'
  BY <1>3, <1>5 DEF OcupadoUnaVez
<1>10. NingunoPerdido'
  <2> SUFFICES ASSUME NEW x \in Marcos
               PROVE  \/ \E k \in 1 .. largo + 1 : marcos_disponibles'[k] = x
                      \/ \E q \in Procesos, k \in Paginas : Presente(q, k)' /\ MarcoDe(q, k)' = x
    BY <1>2 DEF NingunoPerdido
  <2>1. CASE \E k \in 1 .. largo : marcos_disponibles[k] = x
    BY <2>1, <1>1, <1>2
  <2>2. CASE \E q \in Procesos, k \in Paginas : Presente(q, k) /\ MarcoDe(q, k) = x
    <3>1. PICK q \in Procesos, k \in Paginas : Presente(q, k) /\ MarcoDe(q, k) = x
      BY <2>2
    <3>2. CASE q = p /\ k = n
      BY <3>1, <3>2, <1>1, <1>2
    <3>3. CASE ~(q = p /\ k = n)
      BY <3>1, <3>3, <1>4
    <3> QED BY <3>2, <3>3
  <2> QED BY <2>1, <2>2, <1>5 DEF NingunoPerdido, largo
<1>11. MarcosAcotados'
  <2> SUFFICES ASSUME NEW q \in Procesos
               PROVE  Cardinality(Presentes(q)') <= MARCOS_POR_PROCESO
    BY DEF MarcosAcotados
  <2>1. Presentes(q)' \in SUBSET Presentes(q)
    BY <1>3 DEF Presentes, Presente
  <2>2. IsFiniteSet(Presentes(q)) /\ Cardinality(Presentes(q)) \in Nat
    BY PresentesFinitas
  <2>3. Cardinality(Presentes(q)') <= Cardinality(Presentes(q)) /\ Cardinality(Presentes(q)') \in Nat
    BY <2>1, <2>2, FS_Subset, FS_CardinalityType
  <2> QED BY <2>2, <2>3, MarcosAssumption DEF MarcosAcotados
<1> QED BY <1>2, <1>7, <1>8, <1>9, <1>10, <1>11 DEF Reparto

(* The suspension of a page: if it is modified its value goes to disk.     *)
LEMMA PasoEnviarPagina ==
  ASSUME IndInv, EnviarPaginaSwap
  PROVE  IndInv'
<1>1. /\ TypeOK /\ HiloDeAcuerdo /\ EntradasLiberadas /\ SinPaginas /\ LimpiaEnDisco
      /\ PedidoVigente /\ PedidoDeProceso /\ PaginasConValor /\ Reparto /\ MarcosAcotados
  BY DEF IndInv
<1>0. PICK p \in Procesos, n \in Paginas : p = hilo_kernel.pid /\ n = hilo_kernel.pagina
  BY <1>1 DEF EnviarPaginaSwap, HiloDeAcuerdo
<1>2. /\ hilo_kernel.accion = "suspender" /\ p = hilo_kernel.pid
      /\ proceso[p] = "suspendiendo" /\ hilo_kernel' = Atendiendo("suspender", p, n + 1)
      /\ UNCHANGED <<proceso, base_memoria, posicion_cursor, pedido, caida>>
  BY <1>0, <1>1 DEF EnviarPaginaSwap, HiloDeAcuerdo
<1>3. n + 1 \in 0 .. PAGINAS
  BY TamaniosAssumption DEF Paginas
<1>4. (HiloDeAcuerdo /\ PedidoDeProceso)'
  BY <1>1, <1>2, <1>3, TiposDeHilo DEF HiloDeAcuerdo, PedidoDeProceso
<1>5. ASSUME SoloEntrada(p, n), swap' \in [Procesos -> [Paginas -> Valores \union {Nada}]],
             ~Presente(p, n)' \/ tabla' = tabla,
             marcos_disponibles' \in Seq(Marcos), Reparto', MarcosAcotados',
             LimpiaEnDisco', PaginasConValor'
      PROVE  IndInv'
  <2>1. TypeOK'
    BY <1>1, <1>2, <1>3, <1>5, TiposDeHilo DEF TypeOK, SoloEntrada, Hilos
  <2>2. \A q \in Procesos, k \in Paginas : Presente(q, k)' => Presente(q, k)
    BY <1>5 DEF SoloEntrada, Presente
  <2>3. EntradasLiberadas'
    BY <1>1, <1>2, <2>2 DEF EntradasLiberadas, TypeOK
  <2>4. SinPaginas'
    BY <1>1, <1>2, <2>2 DEF SinPaginas
  <2>5. PedidoVigente'
    <3>1. pedido # SinPedido => pedido.pid \in Procesos /\ pedido.pid # p /\ pedido.pagina \in Paginas
      BY <1>1, <1>2 DEF PedidoVigente, PedidoDeProceso, TypeOK
    <3> QED BY <1>1, <1>2, <1>5, <3>1 DEF PedidoVigente, SoloEntrada
  <2> QED BY <1>4, <1>5, <2>1, <2>3, <2>4, <2>5 DEF IndInv
<1>6. CASE EscribirYSoltar(p, n) /\ Presente(p, n)
  <2>1. /\ swap' = [swap EXCEPT ![p][n] = base_memoria[MarcoDe(p, n)]]
        /\ tabla' = [tabla EXCEPT ![p][n].presencia = FALSE, ![p][n].modificado = FALSE]
        /\ marcos_disponibles' = Append(marcos_disponibles, MarcoDe(p, n))
    BY <1>6 DEF EscribirYSoltar, MarcoDe
  <2>2. SoloEntrada(p, n) /\ ~Presente(p, n)'
    <3>1. tabla \in [Procesos -> [Paginas -> Entrada]]
      BY <1>1 DEF TypeOK
    <3> DEFINE e == [tabla[p][n] EXCEPT !.presencia = FALSE, !.modificado = FALSE]
    <3>2. e \in Entrada /\ ~e.presencia
      <4>1. tabla[p][n] \in Entrada
        BY <3>1
      <4> QED BY <4>1 DEF Entrada
    <3>3. tabla' = [tabla EXCEPT ![p][n].presencia = FALSE, ![p][n].modificado = FALSE]
      BY <2>1
    <3>4. tabla' = [tabla EXCEPT ![p] = [tabla[p] EXCEPT ![n] = e]]
      BY <3>1, <3>3
    <3> HIDE DEF e
    <3> QED BY <3>1, <3>2, <3>4 DEF SoloEntrada, Presente
  <2>3. Reparto' /\ MarcosAcotados' /\ marcos_disponibles' \in Seq(Marcos)
    BY <1>1, <1>2, <1>6, <2>1, <2>2, SoltarReparto
  <2>4. base_memoria[MarcoDe(p, n)] \in Valores
    BY <1>1, <1>2, <1>6 DEF PaginasConValor, Vivo
  <2>5. /\ swap' \in [Procesos -> [Paginas -> Valores \union {Nada}]]
        /\ swap'[p][n] \in Valores
        /\ \A q \in Procesos, k \in Paginas : (q # p \/ k # n) => swap'[q][k] = swap[q][k]
    BY <1>1, <1>2, <2>1, <2>4 DEF TypeOK
  <2>6. LimpiaEnDisco'
    BY <1>1, <1>2, <2>2, <2>5 DEF LimpiaEnDisco, SoloEntrada, Presente
  <2>7. PaginasConValor'
    BY <1>1, <1>2, <2>2, <2>5 DEF PaginasConValor, SoloEntrada, Presente, MarcoDe, Vivo
  <2> QED BY <1>5, <2>2, <2>3, <2>5, <2>6, <2>7
<1>7. CASE UNCHANGED <<swap, tabla, marcos_disponibles>>
  <2>1. SoloEntrada(p, n) /\ swap' \in [Procesos -> [Paginas -> Valores \union {Nada}]]
        /\ marcos_disponibles' \in Seq(Marcos)
    BY <1>1, <1>7 DEF SoloEntrada, TypeOK
  <2>2. Reparto' /\ MarcosAcotados'
    BY <1>1, <1>7 DEF Reparto, LibreUnaVez, LibreNoOcupado, OcupadoUnaVez, NingunoPerdido,
              Presente, MarcoDe, MarcosAcotados, Presentes
  <2>3. LimpiaEnDisco' /\ PaginasConValor'
    BY <1>1, <1>2, <1>7 DEF LimpiaEnDisco, PaginasConValor, Presente, MarcoDe, Vivo
  <2> QED BY <1>5, <1>7, <2>1, <2>2, <2>3
<1> QED BY <1>0, <1>6, <1>7 DEF EnviarPaginaSwap, Presente

(* The destruction of a page: its frame is free again.                     *)
LEMMA PasoLiberarEntrada ==
  ASSUME IndInv, LiberarEntrada
  PROVE  IndInv'
<1>1. /\ TypeOK /\ HiloDeAcuerdo /\ EntradasLiberadas /\ SinPaginas /\ LimpiaEnDisco
      /\ PedidoVigente /\ PedidoDeProceso /\ PaginasConValor /\ Reparto /\ MarcosAcotados
  BY DEF IndInv
<1>0. PICK p \in Procesos, n \in Paginas : p = hilo_kernel.pid /\ n = hilo_kernel.pagina
  BY <1>1 DEF LiberarEntrada, HiloDeAcuerdo
<1>2. /\ hilo_kernel.accion = "destruir" /\ p = hilo_kernel.pid /\ n = hilo_kernel.pagina
      /\ proceso[p] = "destruido" /\ hilo_kernel' = Atendiendo("destruir", p, n + 1)
      /\ tabla' = [tabla EXCEPT ![p][n] = EntradaVacia]
      /\ UNCHANGED <<proceso, base_memoria, swap, posicion_cursor, pedido, caida>>
  BY <1>0, <1>1 DEF LiberarEntrada, HiloDeAcuerdo
<1>3. n \in Nat /\ n + 1 \in 0 .. PAGINAS
  BY TamaniosAssumption DEF Paginas
<1>4. marcos_disponibles' = IF Presente(p, n) THEN Append(marcos_disponibles, MarcoDe(p, n))
                                              ELSE marcos_disponibles
  BY <1>0 DEF LiberarEntrada, SoltarMarco, Presente, MarcoDe
<1>5. EntradaVacia \in Entrada /\ ~EntradaVacia.presencia
  BY TiposDeHilo DEF EntradaVacia, Entrada
<1>6. SoloEntrada(p, n) /\ ~Presente(p, n)'
  BY <1>1, <1>2, <1>5 DEF TypeOK, SoloEntrada, Presente
<1>7. \A q \in Procesos, k \in Paginas :
        Presente(q, k)' => /\ Presente(q, k) /\ MarcoDe(q, k)' = MarcoDe(q, k)
                           /\ tabla'[q][k] = tabla[q][k] /\ (q # p \/ k # n)
  BY <1>6 DEF SoloEntrada, Presente, MarcoDe
<1>8. Reparto' /\ MarcosAcotados' /\ marcos_disponibles' \in Seq(Marcos)
  <2>1. CASE Presente(p, n)
    BY <1>1, <1>2, <1>4, <1>6, <2>1, SoltarReparto
  <2>2. CASE ~Presente(p, n)
    <3>1. \A q \in Procesos, k \in Paginas :
            Presente(q, k) => Presente(q, k)' /\ MarcoDe(q, k)' = MarcoDe(q, k)
      BY <1>6, <2>2 DEF SoloEntrada, Presente, MarcoDe
    <3>2. marcos_disponibles' = marcos_disponibles
      BY <1>4, <2>2
    <3>3. Reparto'
      BY <1>1, <1>7, <3>1, <3>2
         DEF Reparto, LibreUnaVez, LibreNoOcupado, OcupadoUnaVez, NingunoPerdido
    <3>4. \A q \in Procesos : Presentes(q)' = Presentes(q)
      BY <1>7, <3>1 DEF Presentes, Presente
    <3> QED BY <1>1, <3>2, <3>3, <3>4 DEF MarcosAcotados, TypeOK
  <2> QED BY <2>1, <2>2
<1>9. TypeOK'
  BY <1>1, <1>2, <1>3, <1>6, <1>8, TiposDeHilo DEF TypeOK, SoloEntrada, Hilos
<1>10. (HiloDeAcuerdo /\ PedidoDeProceso)'
  BY <1>1, <1>2, <1>3, TiposDeHilo DEF HiloDeAcuerdo, PedidoDeProceso
<1>11. EntradasLiberadas'
  <2> SUFFICES ASSUME NEW q \in Procesos, NEW k \in Paginas, proceso[q] = "destruido", Presente(q, k)'
               PROVE  q = p /\ n + 1 <= k
    BY <1>2, <1>3, TiposDeHilo DEF EntradasLiberadas
  <2>1. q = p /\ n <= k
    BY <1>1, <1>2, <1>7 DEF EntradasLiberadas
  <2>2. k # n /\ k \in Nat
    BY <1>7, <2>1 DEF Paginas
  <2> QED BY <1>3, <2>1, <2>2
<1>12. (SinPaginas /\ LimpiaEnDisco /\ PaginasConValor)'
  BY <1>1, <1>2, <1>7 DEF SinPaginas, LimpiaEnDisco, PaginasConValor, Presente, MarcoDe, Vivo
<1>13. PedidoVigente'
  <2>1. pedido # SinPedido => pedido.pid \in Procesos /\ pedido.pid # p /\ pedido.pagina \in Paginas
    BY <1>1, <1>2 DEF PedidoVigente, PedidoDeProceso, TypeOK
  <2> QED BY <1>1, <1>2, <1>6, <2>1 DEF PedidoVigente, SoloEntrada
<1> QED BY <1>8, <1>9, <1>10, <1>11, <1>12, <1>13 DEF IndInv
-----------------------------------------------------------------------------
(* A step of the CPU that leaves every page where it is.                   *)
LEMMA PaginasQuietas ==
  ASSUME IndInv, UNCHANGED <<proceso, marcos_disponibles, swap, posicion_cursor, hilo_kernel, caida>>,
         tabla' \in [Procesos -> [Paginas -> Entrada]],
         \A q \in Procesos, k \in Paginas :
           Presente(q, k)' = Presente(q, k) /\ MarcoDe(q, k)' = MarcoDe(q, k),
         base_memoria' \in [Marcos -> Valores \union {Nada}],
         pedido' \in [pid : Procesos \union {Nada}, pagina : Paginas, marco : Marcos],
         LimpiaEnDisco', PedidoVigente', PedidoDeProceso', PaginasConValor'
  PROVE  IndInv'
<1>1. TypeOK'
  BY DEF IndInv, TypeOK
<1>2. (HiloDeAcuerdo /\ EntradasLiberadas /\ SinPaginas)'
  BY DEF IndInv, HiloDeAcuerdo, EntradasLiberadas, SinPaginas
<1>3. Reparto'
  BY DEF IndInv, Reparto, LibreUnaVez, LibreNoOcupado, OcupadoUnaVez, NingunoPerdido
<1>4. MarcosAcotados'
  <2>1. \A q \in Procesos : Presentes(q)' = Presentes(q)
    BY DEF Presentes, Presente
  <2> QED BY <2>1 DEF IndInv, MarcosAcotados
<1> QED BY <1>1, <1>2, <1>3, <1>4 DEF IndInv

(* An access to the page the CPU asked for marks its entry; a write changes*)
(* its frame, which no other page has.                                     *)
LEMMA PasoAcceso ==
  ASSUME IndInv, Acceso
  PROVE  IndInv'
<1>1. /\ TypeOK /\ LimpiaEnDisco /\ PedidoVigente /\ PedidoDeProceso /\ PaginasConValor
      /\ OcupadoUnaVez
  BY DEF IndInv, Reparto
<1>2. /\ UNCHANGED <<proceso, marcos_disponibles, swap, posicion_cursor, hilo_kernel, caida>>
      /\ pedido # SinPedido /\ pedido' = SinPedido
  BY DEF Acceso, EjecutarLectura, EjecutarEscritura
<1>3. PICK p \in Procesos, n \in Paginas, m \in Marcos :
         /\ p = pedido.pid /\ n = pedido.pagina /\ m = pedido.marco
         /\ Presente(p, n) /\ MarcoDe(p, n) = m /\ Vivo(p)
  BY <1>1, <1>2 DEF PedidoVigente, PedidoDeProceso, TypeOK, Presente, MarcoDe, Vivo
<1>4. tabla \in [Procesos -> [Paginas -> Entrada]] /\ tabla[p][n] \in Entrada
      /\ base_memoria \in [Marcos -> Valores \union {Nada}]
  BY <1>1 DEF TypeOK
<1>5. pedido' \in [pid : Procesos \union {Nada}, pagina : Paginas, marco : Marcos]
  BY <1>2, TiposDeHilo DEF SinPedido
<1>6. (PedidoVigente /\ PedidoDeProceso)'
  BY <1>2 DEF PedidoVigente, PedidoDeProceso
<1>7. CASE EjecutarLectura
  <2> DEFINE e == [tabla[p][n] EXCEPT !.uso = TRUE]
  <2>1. tabla' = [tabla EXCEPT ![p] = [tabla[p] EXCEPT ![n] = e]]
    <3>1. tabla' = [tabla EXCEPT ![p][n].uso = TRUE]
      BY <1>3, <1>7 DEF EjecutarLectura
    <3> QED BY <3>1, <1>4
  <2>2. /\ e \in Entrada /\ e.presencia = tabla[p][n].presencia /\ e.marco = tabla[p][n].marco
        /\ e.modificado = tabla[p][n].modificado
    BY <1>4 DEF Entrada
  <2> HIDE DEF e
  <2>3. /\ tabla' \in [Procesos -> [Paginas -> Entrada]]
        /\ \A q \in Procesos, k \in Paginas :
             /\ Presente(q, k)' = Presente(q, k) /\ MarcoDe(q, k)' = MarcoDe(q, k)
             /\ tabla'[q][k].modificado = tabla[q][k].modificado
    BY <1>4, <2>1, <2>2 DEF Presente, MarcoDe
  <2>4. base_memoria' = base_memoria
    BY <1>7 DEF EjecutarLectura
  <2>5. LimpiaEnDisco'
    BY <1>1, <1>2, <2>3, <2>4 DEF LimpiaEnDisco, Presente, MarcoDe
  <2>6. PaginasConValor'
    BY <1>1, <1>2, <2>3, <2>4 DEF PaginasConValor, Vivo
  <2> QED BY <1>2, <1>4, <1>5, <1>6, <2>3, <2>4, <2>5, <2>6, PaginasQuietas
<1>8. ASSUME NEW valor \in Valores, EjecutarEscritura(valor) PROVE IndInv'
  <2> DEFINE e == [tabla[p][n] EXCEPT !.uso = TRUE, !.modificado = TRUE]
  <2>1. tabla' = [tabla EXCEPT ![p] = [tabla[p] EXCEPT ![n] = e]]
    <3>1. tabla' = [tabla EXCEPT ![p][n].uso = TRUE, ![p][n].modificado = TRUE]
      BY <1>3, <1>8 DEF EjecutarEscritura, MarcarModificado
    <3> QED BY <3>1, <1>4
  <2>2. /\ e \in Entrada /\ e.presencia = tabla[p][n].presencia /\ e.marco = tabla[p][n].marco
        /\ e.modificado
    BY <1>4 DEF Entrada
  <2> HIDE DEF e
  <2>3. /\ tabla' \in [Procesos -> [Paginas -> Entrada]]
        /\ \A q \in Procesos, k \in Paginas :
             /\ Presente(q, k)' = Presente(q, k) /\ MarcoDe(q, k)' = MarcoDe(q, k)
             /\ (q # p \/ k # n) => tabla'[q][k] = tabla[q][k]
        /\ tabla'[p][n].modificado
    BY <1>4, <2>1, <2>2 DEF Presente, MarcoDe
  <2>4. base_memoria' = [base_memoria EXCEPT ![m] = valor]
    BY <1>3, <1>8 DEF EjecutarEscritura
  <2>5. /\ base_memoria' \in [Marcos -> Valores \union {Nada}]
        /\ base_memoria'[m] = valor /\ \A x \in Marcos : x # m => base_memoria'[x] = base_memoria[x]
    BY <1>4, <2>4
  <2>6. \A q \in Procesos, k \in Paginas :
          Presente(q, k) /\ (q # p \/ k # n) =>
            MarcoDe(q, k) # m /\ base_memoria'[MarcoDe(q, k)] = base_memoria[MarcoDe(q, k)]
    <3>1. \A q \in Procesos, k \in Paginas : MarcoDe(q, k) \in Marcos
      BY <1>4 DEF MarcoDe, Entrada
    <3>2. \A q \in Procesos, k \in Paginas : Presente(q, k) /\ (q # p \/ k # n) => MarcoDe(q, k) # m
      BY <1>1, <1>3 DEF OcupadoUnaVez
    <3> QED BY <2>5, <3>1, <3>2
  <2>7. LimpiaEnDisco'
    <3> SUFFICES ASSUME NEW q \in Procesos, NEW k \in Paginas,
                        tabla'[q][k].presencia, ~tabla'[q][k].modificado
                 PROVE  base_memoria'[tabla'[q][k].marco] = swap'[q][k]
      BY DEF LimpiaEnDisco
    <3>1. (q # p \/ k # n) /\ Presente(q, k) /\ tabla'[q][k] = tabla[q][k]
      BY <2>3 DEF Presente
    <3> QED BY <1>1, <1>2, <2>6, <3>1 DEF LimpiaEnDisco, Presente, MarcoDe
  <2>8. PaginasConValor'
    <3> SUFFICES ASSUME NEW q \in Procesos, NEW k \in Paginas, Vivo(q)'
                 PROVE  /\ swap'[q][k] \in Valores
                        /\ Presente(q, k)' => base_memoria'[MarcoDe(q, k)'] \in Valores
      BY DEF PaginasConValor
    <3>1. swap'[q][k] \in Valores /\ (Presente(q, k) => base_memoria[MarcoDe(q, k)] \in Valores)
      BY <1>1, <1>2 DEF PaginasConValor, Vivo
    <3>2. CASE q = p /\ k = n
      BY <1>3, <2>3, <2>5, <3>1, <3>2
    <3>3. CASE q # p \/ k # n
      BY <2>3, <2>6, <3>1, <3>3
    <3> QED BY <3>2, <3>3
  <2> QED BY <1>2, <1>5, <1>6, <2>3, <2>5, <2>7, <2>8, PaginasQuietas
<1> QED BY <1>7, <1>8 DEF Acceso

(* The page is in memory: the CPU learns its frame.                        *)
LEMMA PasoMarcoPresente ==
  ASSUME IndInv, NEW p \in Procesos, NEW n \in Paginas, proceso[p] = "en_memoria",
         MarcoPresente(p, n)
  PROVE  IndInv'
<1>1. TypeOK /\ LimpiaEnDisco /\ PaginasConValor
  BY DEF IndInv
<1>2. /\ Presente(p, n) /\ MarcoDe(p, n) \in Marcos
      /\ pedido' = [pid |-> p, pagina |-> n, marco |-> MarcoDe(p, n)]
      /\ UNCHANGED <<proceso, tabla, marcos_disponibles, base_memoria, swap, posicion_cursor,
                     hilo_kernel, caida>>
  BY <1>1 DEF MarcoPresente, Presente, MarcoDe, TypeOK, Entrada
<1>3. pedido' \in [pid : Procesos \union {Nada}, pagina : Paginas, marco : Marcos]
  BY <1>2
<1>4. (PedidoVigente /\ PedidoDeProceso)'
  BY <1>2 DEF PedidoVigente, PedidoDeProceso, Presente, MarcoDe
<1>5. (LimpiaEnDisco /\ PaginasConValor)'
  BY <1>1, <1>2 DEF LimpiaEnDisco, PaginasConValor, Presente, MarcoDe, Vivo
<1>6. tabla' \in [Procesos -> [Paginas -> Entrada]] /\ base_memoria' \in [Marcos -> Valores \union {Nada}]
  BY <1>1, <1>2 DEF TypeOK
<1>7. \A q \in Procesos, k \in Paginas :
        Presente(q, k)' = Presente(q, k) /\ MarcoDe(q, k)' = MarcoDe(q, k)
  BY <1>2 DEF Presente, MarcoDe
<1> QED BY <1>2, <1>3, <1>4, <1>5, <1>6, <1>7, PaginasQuietas

(* There is no free frame: the module dies, and nothing else changes.      *)
LEMMA PasoSinMarcoLibre ==
  ASSUME IndInv, NEW p \in Procesos, NEW n \in Paginas, SinMarcoLibre(p, n)
  PROVE  IndInv'
<1>1. /\ caida' = TRUE
      /\ UNCHANGED <<proceso, tabla, marcos_disponibles, base_memoria, swap, posicion_cursor,
                     hilo_kernel, pedido>>
  BY DEF SinMarcoLibre
<1>2. TypeOK'
  BY <1>1 DEF IndInv, TypeOK
<1>3. (HiloDeAcuerdo /\ EntradasLiberadas /\ SinPaginas)'
  BY <1>1 DEF IndInv, HiloDeAcuerdo, EntradasLiberadas, SinPaginas, Presente
<1>4. (Reparto /\ MarcosAcotados)'
  BY <1>1 DEF IndInv, Reparto, LibreUnaVez, LibreNoOcupado, OcupadoUnaVez, NingunoPerdido,
              Presente, MarcoDe, MarcosAcotados, Presentes
<1>5. (LimpiaEnDisco /\ PedidoVigente /\ PedidoDeProceso /\ PaginasConValor)'
  BY <1>1 DEF IndInv, LimpiaEnDisco, PedidoVigente, PedidoDeProceso, PaginasConValor,
              Presente, MarcoDe, Vivo
<1> QED BY <1>2, <1>3, <1>4, <1>5 DEF IndInv
-----------------------------------------------------------------------------
(* A page comes into frame m with the value the disk has, and what other   *)
(* pages in memory hold stays.                                             *)
LEMMA EntraPagina ==
  ASSUME IndInv, NEW p \in Procesos, NEW n \in Paginas, NEW m \in Marcos,
         proceso[p] = "en_memoria", UNCHANGED <<proceso, hilo_kernel, caida>>,
         marcos_disponibles' \in Seq(Marcos), posicion_cursor' \in [Procesos -> Posiciones],
         tabla' \in [Procesos -> [Paginas -> Entrada]],
         swap' \in [Procesos -> [Paginas -> Valores \union {Nada}]],
         Presente(p, n)', MarcoDe(p, n)' = m, swap'[p][n] = swap[p][n],
         \A q \in Procesos, k \in Paginas : Presente(q, k)' /\ (q # p \/ k # n) =>
           /\ Presente(q, k) /\ MarcoDe(q, k)' = MarcoDe(q, k) /\ MarcoDe(q, k) # m
           /\ tabla'[q][k].modificado = tabla[q][k].modificado
           /\ swap'[q][k] = swap[q][k],
         \A q \in Procesos, k \in Paginas : Vivo(q) => swap'[q][k] \in Valores,
         base_memoria' = [base_memoria EXCEPT ![m] = swap[p][n]],
         pedido' = [pid |-> p, pagina |-> n, marco |-> m],
         Reparto', MarcosAcotados'
  PROVE  IndInv'
<1>1. /\ TypeOK /\ HiloDeAcuerdo /\ EntradasLiberadas /\ SinPaginas /\ LimpiaEnDisco
      /\ PaginasConValor
  BY DEF IndInv
<1>2. /\ swap[p][n] \in Valores
      /\ base_memoria' \in [Marcos -> Valores \union {Nada}]
      /\ base_memoria'[m] = swap[p][n]
      /\ \A x \in Marcos : x # m => base_memoria'[x] = base_memoria[x]
  BY <1>1 DEF TypeOK, PaginasConValor, Vivo
<1>3. TypeOK'
  BY <1>1, <1>2 DEF TypeOK
<1>4. (HiloDeAcuerdo /\ PedidoDeProceso)'
  BY <1>1 DEF HiloDeAcuerdo, PedidoDeProceso
<1>5. (EntradasLiberadas /\ SinPaginas)'
  BY <1>1 DEF EntradasLiberadas, SinPaginas
<1>6. PedidoVigente'
  BY DEF PedidoVigente, Presente, MarcoDe
<1>7. \A q \in Procesos, k \in Paginas : Presente(q, k)' /\ (q # p \/ k # n) =>
        base_memoria'[MarcoDe(q, k)'] = base_memoria[MarcoDe(q, k)]
  <2>1. \A q \in Procesos, k \in Paginas : MarcoDe(q, k) \in Marcos
    BY <1>1 DEF TypeOK, MarcoDe, Entrada
  <2> QED BY <1>2, <2>1
<1>8. LimpiaEnDisco'
  <2> SUFFICES ASSUME NEW q \in Procesos, NEW k \in Paginas,
                      Presente(q, k)', ~tabla'[q][k].modificado
               PROVE  base_memoria'[MarcoDe(q, k)'] = swap'[q][k]
    BY DEF LimpiaEnDisco, Presente, MarcoDe
  <2>1. CASE q = p /\ k = n
    BY <1>2, <2>1
  <2>2. CASE q # p \/ k # n
    <3>1. Presente(q, k) /\ ~tabla[q][k].modificado /\ swap'[q][k] = swap[q][k]
      BY <2>2
    <3>2. base_memoria[MarcoDe(q, k)] = swap[q][k]
      BY <1>1, <3>1 DEF LimpiaEnDisco, Presente, MarcoDe
    <3> QED BY <1>7, <2>2, <3>1, <3>2
  <2> QED BY <2>1, <2>2
<1>9. PaginasConValor'
  <2> SUFFICES ASSUME NEW q \in Procesos, NEW k \in Paginas, Vivo(q)', Presente(q, k)'
               PROVE  base_memoria'[MarcoDe(q, k)'] \in Valores
    BY DEF PaginasConValor, Vivo
  <2>1. CASE q = p /\ k = n
    BY <1>2, <2>1
  <2>2. CASE q # p \/ k # n
    <3>1. Vivo(q) /\ Presente(q, k)
      BY <2>2 DEF Vivo
    <3>2. base_memoria[MarcoDe(q, k)] \in Valores
      BY <1>1, <3>1 DEF PaginasConValor
    <3> QED BY <1>7, <2>2, <3>2
  <2> QED BY <2>1, <2>2
<1> QED BY <1>3, <1>4, <1>5, <1>6, <1>8, <1>9 DEF IndInv

(* A page fault of a process with frames to spare takes the first free one.*)
LEMMA PasoCargar ==
  ASSUME IndInv, NEW p \in Procesos, NEW n \in Paginas, proceso[p] = "en_memoria",
         CargarEnMarcoLibre(p, n)
  PROVE  IndInv'
<1> DEFINE largo == Len(marcos_disponibles)
<1>1. /\ TypeOK /\ Reparto /\ MarcosAcotados /\ PaginasConValor
      /\ LibreUnaVez /\ LibreNoOcupado /\ OcupadoUnaVez /\ NingunoPerdido
  BY DEF IndInv, Reparto
<1>2. marcos_disponibles \in Seq(Marcos) /\ largo \in Nat /\ marcos_disponibles # <<>>
  BY <1>1 DEF TypeOK, CargarEnMarcoLibre
<1>3. PICK m \in Marcos : m = Head(marcos_disponibles) /\ m = marcos_disponibles[1]
  BY <1>2
<1>4. /\ largo > 0 /\ marcos_disponibles' \in Seq(Marcos)
      /\ Len(marcos_disponibles') = largo - 1
      /\ \A k \in 1 .. largo - 1 : marcos_disponibles'[k] = marcos_disponibles[k + 1]
  BY <1>2 DEF CargarEnMarcoLibre
<1>5. /\ ~Presente(p, n) /\ Cardinality(Presentes(p)) < MARCOS_POR_PROCESO
      /\ UNCHANGED <<proceso, hilo_kernel, caida, swap, posicion_cursor>>
      /\ base_memoria' = [base_memoria EXCEPT ![m] = swap[p][n]]
      /\ pedido' = [pid |-> p, pagina |-> n, marco |-> m]
  BY <1>3 DEF CargarEnMarcoLibre, HayMarcoPropio, Presente
<1>6. /\ SoloEntrada(p, n) /\ Presente(p, n)' /\ MarcoDe(p, n)' = m
  <2>1. tabla \in [Procesos -> [Paginas -> Entrada]] /\ tabla[p][n] \in Entrada
    BY <1>1 DEF TypeOK
  <2> DEFINE e == [tabla[p][n] EXCEPT !.marco = m, !.presencia = TRUE, !.uso = TRUE]
  <2>2. e \in Entrada /\ e.presencia /\ e.marco = m
    BY <2>1 DEF Entrada
  <2>3. tabla' = [tabla EXCEPT ![p] = [tabla[p] EXCEPT ![n] = e]]
    <3>1. tabla' = [tabla EXCEPT ![p][n].marco = m, ![p][n].presencia = TRUE, ![p][n].uso = TRUE]
      BY <1>3 DEF CargarEnMarcoLibre
    <3> QED BY <2>1, <3>1
  <2> HIDE DEF e
  <2> QED BY <2>1, <2>2, <2>3 DEF SoloEntrada, Presente, MarcoDe
<1>7. \A q \in Procesos, k \in Paginas : q # p \/ k # n =>
        /\ Presente(q, k)' = Presente(q, k) /\ MarcoDe(q, k)' = MarcoDe(q, k)
        /\ tabla'[q][k].modificado = tabla[q][k].modificado
        /\ Presente(q, k) => MarcoDe(q, k) # m
  <2>1. \A q \in Procesos, k \in Paginas : Presente(q, k) => MarcoDe(q, k) # marcos_disponibles[1]
    BY <1>1, <1>2, <1>4 DEF LibreNoOcupado
  <2> QED BY <1>3, <1>6, <2>1 DEF SoloEntrada, Presente, MarcoDe
<1>8. \A k \in 1 .. largo - 1 : k + 1 \in 1 .. largo /\ k + 1 # 1
  BY <1>2, <1>4
<1> HIDE DEF largo
<1>9. LibreUnaVez'
  <2> SUFFICES ASSUME NEW j \in 1 .. largo - 1, NEW k \in 1 .. largo - 1,
                      marcos_disponibles'[j] = marcos_disponibles'[k]
               PROVE  j = k
    BY <1>4 DEF LibreUnaVez
  <2>1. j + 1 = k + 1
    BY <1>1, <1>4, <1>8 DEF LibreUnaVez, largo
  <2> QED BY <2>1
<1>10. \A k \in 1 .. largo - 1 : marcos_disponibles'[k] # m
  <2> SUFFICES ASSUME NEW k \in 1 .. largo - 1 PROVE marcos_disponibles[k + 1] # marcos_disponibles[1]
    BY <1>3, <1>4
  <2>1. 1 \in 1 .. largo
    BY <1>2, <1>4
  <2> QED BY <2>1, <1>1, <1>8 DEF LibreUnaVez, largo
<1>11. LibreNoOcupado'
  <2> SUFFICES ASSUME NEW j \in 1 .. largo - 1, NEW q \in Procesos, NEW k \in Paginas, Presente(q, k)'
               PROVE  MarcoDe(q, k)' # marcos_disponibles'[j]
    BY <1>4 DEF LibreNoOcupado
  <2>1. CASE q = p /\ k = n
    BY <1>6, <1>10, <2>1
  <2>2. CASE q # p \/ k # n
    BY <1>1, <1>4, <1>7, <1>8, <2>2 DEF LibreNoOcupado, largo
  <2> QED BY <2>1, <2>2
<1>12. OcupadoUnaVez'
  <2> SUFFICES ASSUME NEW q \in Procesos, NEW r \in Procesos, NEW j \in Paginas, NEW k \in Paginas,
                      Presente(q, j)', Presente(r, k)', MarcoDe(q, j)' = MarcoDe(r, k)'
               PROVE  q = r /\ j = k
    BY DEF OcupadoUnaVez
  <2> QED BY <1>1, <1>6, <1>7 DEF OcupadoUnaVez
<1>13. NingunoPerdido'
  <2> SUFFICES ASSUME NEW x \in Marcos
               PROVE  \/ \E k \in 1 .. largo - 1 : marcos_disponibles'[k] = x
                      \/ \E q \in Procesos, k \in Paginas : Presente(q, k)' /\ MarcoDe(q, k)' = x
    BY <1>4 DEF NingunoPerdido
  <2>1. CASE \E k \in 1 .. largo : marcos_disponibles[k] = x
    <3>1. PICK k \in 1 .. largo : marcos_disponibles[k] = x
      BY <2>1
    <3>2. CASE k = 1
      BY <1>3, <1>6, <3>1, <3>2
    <3>3. CASE k # 1
      <4>1. k - 1 \in 1 .. largo - 1 /\ (k - 1) + 1 = k
        BY <1>2, <3>3 DEF largo
      <4> QED BY <1>4, <3>1, <4>1
    <3> QED BY <3>2, <3>3
  <2>2. CASE \E q \in Procesos, k \in Paginas : Presente(q, k) /\ MarcoDe(q, k) = x
    <3>1. PICK q \in Procesos, k \in Paginas : Presente(q, k) /\ MarcoDe(q, k) = x
      BY <2>2
    <3> QED BY <1>5, <1>7, <3>1
  <2> QED BY <1>1, <2>1, <2>2 DEF NingunoPerdido, largo
<1>14. MarcosAcotados'
  <2> SUFFICES ASSUME NEW q \in Procesos
               PROVE  Cardinality(Presentes(q)') <= MARCOS_POR_PROCESO
    BY DEF MarcosAcotados
  <2>1. CASE q = p
    <3>1. Presentes(p)' = Presentes(p) \union {n} /\ n \notin Presentes(p)
      BY <1>5, <1>6, <1>7 DEF Presentes, Presente
    <3>2. Cardinality(Presentes(p)') = Cardinality(Presentes(p)) + 1
      BY <3>1, PresentesFinitas, FS_AddElement
    <3> QED BY <1>5, <2>1, <3>2, PresentesFinitas, MarcosAssumption
  <2>2. CASE q # p
    <3>1. Presentes(q)' = Presentes(q)
      BY <1>7, <2>2 DEF Presentes, Presente
    <3> QED BY <1>1, <3>1 DEF MarcosAcotados
  <2> QED BY <2>1, <2>2
<1>15. /\ swap' \in [Procesos -> [Paginas -> Valores \union {Nada}]] /\ swap'[p][n] = swap[p][n]
       /\ posicion_cursor' \in [Procesos -> Posiciones]
       /\ \A q \in Procesos, k \in Paginas : Vivo(q) => swap'[q][k] \in Valores
  BY <1>1, <1>5 DEF TypeOK, PaginasConValor
<1>16. \A q \in Procesos, k \in Paginas : Presente(q, k)' /\ (q # p \/ k # n) =>
           /\ Presente(q, k) /\ MarcoDe(q, k)' = MarcoDe(q, k) /\ MarcoDe(q, k) # m
           /\ tabla'[q][k].modificado = tabla[q][k].modificado
           /\ swap'[q][k] = swap[q][k]
  BY <1>5, <1>7
<1>17. tabla' \in [Procesos -> [Paginas -> Entrada]]
  BY <1>6 DEF SoloEntrada
<1>18. Reparto'
  BY <1>9, <1>11, <1>12, <1>13 DEF Reparto
<1>19. UNCHANGED <<proceso, hilo_kernel, caida>> /\ marcos_disponibles' \in Seq(Marcos)
  BY <1>4, <1>5
<1>20. /\ Presente(p, n)' /\ MarcoDe(p, n)' = m
       /\ base_memoria' = [base_memoria EXCEPT ![m] = swap[p][n]]
       /\ pedido' = [pid |-> p, pagina |-> n, marco |-> m]
  BY <1>5, <1>6
<1> QED BY <1>14, <1>15, <1>16, <1>17, <1>18, <1>19, <1>20, EntraPagina

(* What a replacement does: the victim is another page of the process in   *)
(* memory, its frame goes to the page that faulted, and every other page   *)
(* stays where it is.                                                      *)
LEMMA ReemplazoForma ==
  ASSUME TypeOK, OcupadoUnaVez, MarcosAcotados, NEW p \in Procesos, NEW n \in Paginas,
         ReemplazarPagina(p, n)
  PROVE  \E v \in Paginas, m \in Marcos :
           /\ ~Presente(p, n) /\ Presente(p, v) /\ v # n /\ m = MarcoDe(p, v)
           /\ tabla' \in [Procesos -> [Paginas -> Entrada]]
           /\ Presente(p, n)' /\ MarcoDe(p, n)' = m /\ ~Presente(p, v)'
           /\ \A q \in Procesos, k \in Paginas : q # p \/ (k # n /\ k # v) =>
                /\ Presente(q, k)' = Presente(q, k) /\ MarcoDe(q, k)' = MarcoDe(q, k)
                /\ tabla'[q][k].modificado = tabla[q][k].modificado
           /\ EscribirVictima(p, v)
           /\ base_memoria' = [base_memoria EXCEPT ![m] = swap[p][n]]
           /\ posicion_cursor' \in [Procesos -> Posiciones]
           /\ pedido' = [pid |-> p, pagina |-> n, marco |-> m]
           /\ UNCHANGED <<proceso, marcos_disponibles, hilo_kernel, caida>>
<1> DEFINE bits == [i \in Posiciones |->
                      [uso |-> tabla[p][EnLugar(p, i)].uso,
                       modificado |-> tabla[p][EnLugar(p, i)].modificado]]
           r == Reemplazada(ALGORITMO_REEMPLAZO, bits, posicion_cursor[p])
           vp == EnLugar(p, r.victima)
           mp == tabla[p][vp].marco
           Nueva(q) ==
              CASE q = n -> [tabla[p][q] EXCEPT !.marco = mp, !.presencia = TRUE]
                [] q = vp -> [tabla[p][q] EXCEPT !.presencia = FALSE,
                                                 !.uso = r.bits[Lugar(p, q)].uso]
                [] q \in Presentes(p) \ {vp} -> [tabla[p][q] EXCEPT !.uso = r.bits[Lugar(p, q)].uso]
                [] OTHER -> tabla[p][q]
<1>1. /\ ~Presente(p, n) /\ ~HayMarcoPropio(p)
      /\ tabla' = [tabla EXCEPT ![p] = [q \in Paginas |-> Nueva(q)]]
      /\ EscribirVictima(p, vp)
      /\ base_memoria' = [base_memoria EXCEPT ![mp] = swap[p][n]]
      /\ posicion_cursor' = [posicion_cursor EXCEPT ![p] = MoverCursor(r.victima)]
      /\ pedido' = [pid |-> p, pagina |-> n, marco |-> mp]
      /\ UNCHANGED <<proceso, marcos_disponibles, hilo_kernel, caida>>
  BY DEF ReemplazarPagina, Presente
<1>2. tabla \in [Procesos -> [Paginas -> Entrada]] /\ posicion_cursor \in [Procesos -> Posiciones]
  BY DEF TypeOK
<1>3. Cardinality(Presentes(p)) = MARCOS_POR_PROCESO
  <2>1. Cardinality(Presentes(p)) \in Nat
    BY PresentesFinitas
  <2>2. /\ ~(Cardinality(Presentes(p)) < MARCOS_POR_PROCESO)
        /\ Cardinality(Presentes(p)) <= MARCOS_POR_PROCESO
    BY <1>1 DEF HayMarcoPropio, MarcosAcotados
  <2> HIDE DEF bits, r, vp, mp, Nueva
  <2> QED BY <2>1, <2>2, MarcosAssumption
<1>4. /\ \A k \in Presentes(p) : Lugar(p, k) \in Posiciones
      /\ \A i \in Posiciones : EnLugar(p, i) \in Presentes(p)
  BY <1>3, LugarBiyectivo
<1>5. \A k \in Presentes(p) : k \in Paginas /\ Presente(p, k)
  BY DEF Presentes, Presente
<1>6. bits \in [Posiciones -> Bits]
  <2>1. \A i \in Posiciones : tabla[p][EnLugar(p, i)] \in Entrada
    BY <1>2, <1>4, <1>5
  <2> QED BY <2>1 DEF Bits, Entrada
<1> HIDE DEF bits
<1>7. r.victima \in Posiciones /\ r.bits \in [Posiciones -> Bits]
  BY <1>2, <1>6, ReemplazoAssumption, VictimaPresente
<1> HIDE DEF r
<1>8. vp \in Presentes(p) /\ vp \in Paginas /\ Presente(p, vp) /\ vp # n
  BY <1>1, <1>4, <1>5, <1>7
<1> HIDE DEF vp
<1>9. mp \in Marcos
  BY <1>2, <1>8 DEF Entrada
<1>10. \A k \in Presentes(p) : r.bits[Lugar(p, k)].uso \in BOOLEAN
  BY <1>4, <1>7 DEF Bits
<1>11. \A k \in Paginas : tabla[p][k] \in Entrada
  BY <1>2
<1>12. \A k \in Paginas :
         /\ Nueva(k) \in Entrada
         /\ k # n /\ k # vp => /\ Nueva(k).presencia = tabla[p][k].presencia
                               /\ Nueva(k).marco = tabla[p][k].marco
                               /\ Nueva(k).modificado = tabla[p][k].modificado
  BY <1>8, <1>9, <1>10, <1>11 DEF Entrada
<1>13. Nueva(n).presencia /\ Nueva(n).marco = mp /\ ~Nueva(vp).presencia
  <2>1. Nueva(n) = [tabla[p][n] EXCEPT !.marco = mp, !.presencia = TRUE]
    <3>1. n # vp /\ n \notin Presentes(p)
      BY <1>1, <1>5, <1>8
    <3> QED BY <3>1 DEF Nueva
  <2>2. Nueva(vp) = [tabla[p][vp] EXCEPT !.presencia = FALSE,
                                         !.uso = r.bits[Lugar(p, vp)].uso]
    BY <1>8 DEF Nueva
  <2>3. tabla[p][n] \in Entrada /\ tabla[p][vp] \in Entrada
    BY <1>8, <1>11
  <2> HIDE DEF Nueva, mp
  <2> QED BY <2>1, <2>2, <2>3 DEF Entrada
<1> HIDE DEF Nueva
<1>14. /\ tabla' \in [Procesos -> [Paginas -> Entrada]]
       /\ \A k \in Paginas : tabla'[p][k] = Nueva(k)
       /\ \A q \in Procesos : q # p => tabla'[q] = tabla[q]
  BY <1>1, <1>2, <1>12
<1>15. \A q \in Procesos, k \in Paginas : q # p \/ (k # n /\ k # vp) =>
         /\ Presente(q, k)' = Presente(q, k) /\ MarcoDe(q, k)' = MarcoDe(q, k)
         /\ tabla'[q][k].modificado = tabla[q][k].modificado
  BY <1>12, <1>14 DEF Presente, MarcoDe
<1>16. posicion_cursor' \in [Procesos -> Posiciones]
  <2>1. MoverCursor(r.victima) \in Posiciones
    BY <1>7, MarcosAssumption DEF MoverCursor, Posiciones
  <2> QED BY <1>1, <1>2, <2>1
<1>17. PICK v \in Paginas : v = vp
  BY <1>8
<1>18. Presente(p, n)' /\ MarcoDe(p, n)' = mp /\ ~Presente(p, v)' /\ mp = MarcoDe(p, v)
  BY <1>13, <1>14, <1>17 DEF Presente, MarcoDe
<1> HIDE DEF mp
<1>19. PICK m \in Marcos : m = mp
  BY <1>9
<1> QED BY <1>1, <1>8, <1>14, <1>15, <1>16, <1>17, <1>18, <1>19

(* A page fault with every frame of the process taken hands one over.      *)
LEMMA PasoReemplazar ==
  ASSUME IndInv, NEW p \in Procesos, NEW n \in Paginas, proceso[p] = "en_memoria",
         ReemplazarPagina(p, n)
  PROVE  IndInv'
<1>1. /\ TypeOK /\ Reparto /\ MarcosAcotados /\ PaginasConValor
      /\ LibreUnaVez /\ LibreNoOcupado /\ OcupadoUnaVez /\ NingunoPerdido
  BY DEF IndInv, Reparto
<1>2. PICK v \in Paginas, m \in Marcos :
           /\ ~Presente(p, n) /\ Presente(p, v) /\ v # n /\ m = MarcoDe(p, v)
           /\ tabla' \in [Procesos -> [Paginas -> Entrada]]
           /\ Presente(p, n)' /\ MarcoDe(p, n)' = m /\ ~Presente(p, v)'
           /\ \A q \in Procesos, k \in Paginas : q # p \/ (k # n /\ k # v) =>
                /\ Presente(q, k)' = Presente(q, k) /\ MarcoDe(q, k)' = MarcoDe(q, k)
                /\ tabla'[q][k].modificado = tabla[q][k].modificado
           /\ EscribirVictima(p, v)
           /\ base_memoria' = [base_memoria EXCEPT ![m] = swap[p][n]]
           /\ posicion_cursor' \in [Procesos -> Posiciones]
           /\ pedido' = [pid |-> p, pagina |-> n, marco |-> m]
           /\ UNCHANGED <<proceso, marcos_disponibles, hilo_kernel, caida>>
  BY <1>1, ReemplazoForma
<1>3. base_memoria[m] \in Valores
  BY <1>1, <1>2 DEF PaginasConValor, Vivo
<1>4. /\ swap' \in [Procesos -> [Paginas -> Valores \union {Nada}]]
      /\ \A q \in Procesos, k \in Paginas : q # p \/ k # v => swap'[q][k] = swap[q][k]
      /\ \A q \in Procesos, k \in Paginas : Vivo(q) => swap'[q][k] \in Valores
  <2>1. swap \in [Procesos -> [Paginas -> Valores \union {Nada}]]
    BY <1>1 DEF TypeOK
  <2>2. swap' = swap \/ swap' = [swap EXCEPT ![p][v] = base_memoria[m]]
    BY <1>2 DEF EscribirVictima, MarcoDe
  <2>3. \A q \in Procesos, k \in Paginas : Vivo(q) => swap[q][k] \in Valores
    BY <1>1 DEF PaginasConValor
  <2>4. CASE swap' = swap
    BY <2>1, <2>3, <2>4
  <2>5. CASE swap' = [swap EXCEPT ![p][v] = base_memoria[m]]
    BY <1>3, <2>1, <2>3, <2>5
  <2> QED BY <2>2, <2>4, <2>5
<1>5. \A q \in Procesos, k \in Paginas : Presente(q, k)' /\ (q # p \/ k # n) =>
           /\ q # p \/ k # v
           /\ Presente(q, k) /\ MarcoDe(q, k)' = MarcoDe(q, k)
           /\ tabla'[q][k].modificado = tabla[q][k].modificado
  BY <1>2
<1>6. \A q \in Procesos, k \in Paginas : Presente(q, k) /\ (q # p \/ k # v) =>
           Presente(q, k)' /\ MarcoDe(q, k)' = MarcoDe(q, k) /\ MarcoDe(q, k) # m
  <2>1. \A q \in Procesos, k \in Paginas : Presente(q, k) /\ (q # p \/ k # v) => MarcoDe(q, k) # m
    BY <1>1, <1>2 DEF OcupadoUnaVez
  <2> QED BY <1>2, <2>1
<1>7. \A q \in Procesos, k \in Paginas : Presente(q, k)' /\ (q # p \/ k # n) =>
           /\ Presente(q, k) /\ MarcoDe(q, k)' = MarcoDe(q, k) /\ MarcoDe(q, k) # m
           /\ tabla'[q][k].modificado = tabla[q][k].modificado
           /\ swap'[q][k] = swap[q][k]
  BY <1>4, <1>5, <1>6
<1>8. Reparto'
  <2>1. LibreUnaVez'
    BY <1>1, <1>2 DEF LibreUnaVez
  <2>2. LibreNoOcupado'
    <3> SUFFICES ASSUME NEW j \in 1 .. Len(marcos_disponibles), NEW q \in Procesos, NEW k \in Paginas,
                        Presente(q, k)'
                 PROVE  MarcoDe(q, k)' # marcos_disponibles[j]
      BY <1>2 DEF LibreNoOcupado
    <3>1. CASE q = p /\ k = n
      BY <1>1, <1>2, <3>1 DEF LibreNoOcupado
    <3>2. CASE q # p \/ k # n
      BY <1>1, <1>7, <3>2 DEF LibreNoOcupado
    <3> QED BY <3>1, <3>2
  <2>3. OcupadoUnaVez'
    <3> SUFFICES ASSUME NEW q \in Procesos, NEW r \in Procesos, NEW j \in Paginas, NEW k \in Paginas,
                        Presente(q, j)', Presente(r, k)', MarcoDe(q, j)' = MarcoDe(r, k)'
                 PROVE  q = r /\ j = k
      BY DEF OcupadoUnaVez
    <3>1. MarcoDe(p, n)' = m
      BY <1>2
    <3> QED BY <1>1, <1>7, <3>1 DEF OcupadoUnaVez
  <2>4. NingunoPerdido'
    <3> SUFFICES ASSUME NEW x \in Marcos
                 PROVE  \/ \E j \in 1 .. Len(marcos_disponibles) : marcos_disponibles[j] = x
                        \/ \E q \in Procesos, k \in Paginas : Presente(q, k)' /\ MarcoDe(q, k)' = x
      BY <1>2 DEF NingunoPerdido
    <3>1. CASE \E q \in Procesos, k \in Paginas : Presente(q, k) /\ MarcoDe(q, k) = x
      <4>1. PICK q \in Procesos, k \in Paginas : Presente(q, k) /\ MarcoDe(q, k) = x
        BY <3>1
      <4>2. CASE q = p /\ k = v
        BY <1>2, <4>1, <4>2
      <4>3. CASE q # p \/ k # v
        BY <1>6, <4>1, <4>3
      <4> QED BY <4>2, <4>3
    <3> QED BY <1>1, <3>1 DEF NingunoPerdido
  <2> QED BY <2>1, <2>2, <2>3, <2>4 DEF Reparto
<1>9. MarcosAcotados'
  <2> SUFFICES ASSUME NEW q \in Procesos
               PROVE  Cardinality(Presentes(q)') <= MARCOS_POR_PROCESO
    BY DEF MarcosAcotados
  <2>1. CASE q = p
    <3>1. Presentes(p)' = (Presentes(p) \ {v}) \union {n}
      BY <1>2, <1>5, <1>6 DEF Presentes, Presente
    <3>2. v \in Presentes(p) /\ n \notin Presentes(p) \ {v}
      BY <1>2 DEF Presentes, Presente
    <3>3. /\ IsFiniteSet(Presentes(p) \ {v})
          /\ Cardinality(Presentes(p) \ {v}) = Cardinality(Presentes(p)) - 1
      BY <3>2, PresentesFinitas, FS_RemoveElement
    <3>4. Cardinality(Presentes(p)') = Cardinality(Presentes(p) \ {v}) + 1
      BY <3>1, <3>2, <3>3, FS_AddElement
    <3>5. Cardinality(Presentes(p)) \in Nat /\ Cardinality(Presentes(p)) <= MARCOS_POR_PROCESO
      BY <1>1, PresentesFinitas DEF MarcosAcotados
    <3> QED BY <2>1, <3>3, <3>4, <3>5
  <2>2. CASE q # p
    <3>1. Presentes(q)' = Presentes(q)
      BY <1>2, <2>2 DEF Presentes, Presente
    <3> QED BY <1>1, <3>1 DEF MarcosAcotados
  <2> QED BY <2>1, <2>2
<1>10. /\ UNCHANGED <<proceso, hilo_kernel, caida>> /\ marcos_disponibles' \in Seq(Marcos)
       /\ swap'[p][n] = swap[p][n]
  BY <1>1, <1>2, <1>4 DEF TypeOK
<1> QED BY <1>2, <1>4, <1>7, <1>8, <1>9, <1>10, EntraPagina

(* A fault, or a page that is in memory.                                   *)
LEMMA PasoObtener ==
  ASSUME IndInv, NEW p \in Procesos, NEW n \in Paginas, ObtenerNumeroMarco(p, n)
  PROVE  IndInv'
  BY PasoMarcoPresente, PasoCargar, PasoSinMarcoLibre, PasoReemplazar DEF ObtenerNumeroMarco

(* Every step of the two threads keeps the invariant.                      *)
LEMMA PasoMemoria == IndInv /\ [Next]_vars => IndInv'
<1> SUFFICES ASSUME IndInv, [Next]_vars PROVE IndInv'
  OBVIOUS
<1>1. CASE HiloKernel
  <2>1. CASE \E p \in Procesos :
               InicializarEstructuras(p) \/ Suspender(p) \/ DestruirEstructuras(p)
    BY <2>1, PasoSinPaginas
  <2>2. CASE ConfirmarSuspension \/ ConfirmarDestruccion
    <3>1. hilo_kernel.pid \in Procesos
      BY <2>2 DEF IndInv, HiloDeAcuerdo, ConfirmarSuspension, ConfirmarDestruccion
    <3>2. PICK p \in Procesos : p = hilo_kernel.pid
      BY <3>1
    <3> QED BY <2>2, PasoSinPaginas
  <2> QED BY <1>1, <2>1, <2>2, PasoEnviarPagina, PasoLiberarEntrada DEF HiloKernel
<1>2. CASE HiloCpu
  BY <1>2, PasoObtener, PasoAcceso DEF HiloCpu
<1>3. CASE \E p \in Procesos : Readmitir(p)
  BY <1>3, PasoSinPaginas
<1>4. CASE UNCHANGED vars
  <2>1. (TypeOK /\ HiloDeAcuerdo /\ EntradasLiberadas /\ SinPaginas)'
    BY <1>4 DEF IndInv, vars, TypeOK, HiloDeAcuerdo, EntradasLiberadas, SinPaginas, Presente
  <2>2. (Reparto /\ MarcosAcotados)'
    BY <1>4 DEF IndInv, vars, Reparto, LibreUnaVez, LibreNoOcupado, OcupadoUnaVez,
                NingunoPerdido, Presente, MarcoDe, MarcosAcotados, Presentes
  <2>3. (LimpiaEnDisco /\ PedidoVigente /\ PedidoDeProceso /\ PaginasConValor)'
    BY <1>4 DEF IndInv, vars, LimpiaEnDisco, PedidoVigente, PedidoDeProceso, PaginasConValor,
                Presente, MarcoDe, Vivo
  <2> QED BY <2>1, <2>2, <2>3 DEF IndInv
<1> QED BY <1>1, <1>2, <1>3, <1>4 DEF Next, SinTrabajo

(* The inductive invariant holds in every reachable state (memoria.c).     *)
THEOREM InductivaMemoria == Spec => []IndInv
<1>1. Init => IndInv
  BY InicioMemoria
<1>2. IndInv /\ [Next]_vars => IndInv'
  BY PasoMemoria
<1> QED BY <1>1, <1>2, PTL DEF Spec

(* The variables keep their types: in particular the cursor of a process   *)
(* stays among its positions, and the thread of the kernel never goes past *)
(* the last page.                                                          *)
THEOREM TiposMemoria == Spec => []TypeOK
<1>1. IndInv => TypeOK
  BY DEF IndInv
<1> QED BY <1>1, InductivaMemoria, PTL

(* The two threads share marcos_disponibles without a lock (memoria.c 98,  *)
(* 405, 524): a frame is on the list once or holds one page of one process.*)
THEOREM MarcosSinPerdida == Spec => []MarcosRepartidos
<1>1. IndInv => MarcosRepartidos
  BY RepartoCuenta DEF IndInv
<1> QED BY <1>1, InductivaMemoria, PTL

(* No process takes more frames than MARCOS_POR_PROCESO.                   *)
THEOREM MarcosPorProceso == Spec => []MarcosAcotados
<1>1. IndInv => MarcosAcotados
  BY DEF IndInv
<1> QED BY <1>1, InductivaMemoria, PTL

(* A page without its modified bit may be dropped: what the frame holds is *)
(* what the swap file holds, though a victim keeps its bit and the page    *)
(* that comes in has its old one.                                          *)
THEOREM LimpiasEnDisco == Spec => []LimpiaEnDisco
<1>1. IndInv => LimpiaEnDisco
  BY DEF IndInv
<1> QED BY <1>1, InductivaMemoria, PTL

(* Between OBTENER_NUMERO_MARCO and the access the thread of the kernel may*)
(* suspend or destroy other processes: the frame is still the page's.      *)
THEOREM MarcoDelPedido == Spec => []PedidoVigente
<1>1. IndInv => PedidoVigente
  BY DEF IndInv
<1> QED BY <1>1, InductivaMemoria, PTL
-----------------------------------------------------------------------------
(* When the processes that have pages in memory, and the one that faults,  *)
(* could take all their frames at once, the one that faults finds a free   *)
(* one: the occupied frames have places of their own among theirs, and the *)
(* last place of the one that faults is nobody's.                          *)
LEMMA HayMarcoLibre ==
  ASSUME TypeOK, Reparto, MarcosAcotados, NEW S \in SUBSET Procesos, IsFiniteSet(S),
         Cardinality(S) * MARCOS_POR_PROCESO <= MARCOS,
         \A q \in Procesos, k \in Paginas : Presente(q, k) => q \in S,
         NEW p \in S, HayMarcoPropio(p)
  PROVE  marcos_disponibles # <<>>
<1> SUFFICES ASSUME marcos_disponibles = <<>> PROVE FALSE
  OBVIOUS
<1> DEFINE O == Procesos \X Paginas
           Ocupa(o, m) == Presente(o[1], o[2]) /\ MarcoDe(o[1], o[2]) = m
           g(m) == CHOOSE o \in O : Ocupa(o, m)
           T == S \X Posiciones
           ultimo == <<p, MARCOS_POR_PROCESO - 1>>
           f == [m \in Marcos |-> <<g(m)[1], Lugar(g(m)[1], g(m)[2])>>]
<1>1. /\ MARCOS \in Nat /\ MARCOS > 0 /\ MARCOS_POR_PROCESO \in Nat /\ MARCOS_POR_PROCESO > 0
      /\ IsFiniteSet(Marcos) /\ Cardinality(Marcos) = MARCOS
      /\ IsFiniteSet(Posiciones) /\ Cardinality(Posiciones) = MARCOS_POR_PROCESO
  <2>1. /\ MARCOS \in Nat /\ MARCOS > 0 /\ MARCOS_POR_PROCESO \in Nat /\ MARCOS_POR_PROCESO > 0
    BY TamaniosAssumption, MarcosAssumption
  <2>2. IsFiniteSet(Marcos) /\ Cardinality(Marcos) = MARCOS
    BY <2>1, FS_Interval DEF Marcos
  <2>3. IsFiniteSet(Posiciones) /\ Cardinality(Posiciones) = MARCOS_POR_PROCESO
    BY <2>1, FS_Interval DEF Posiciones
  <2> QED BY <2>1, <2>2, <2>3
<1>2. \A m \in Marcos : g(m) \in O /\ Ocupa(g(m), m)
  <2> SUFFICES ASSUME NEW m \in Marcos PROVE \E o \in O : Ocupa(o, m)
    OBVIOUS
  <2>1. ~ \E k \in 1 .. Len(marcos_disponibles) : marcos_disponibles[k] = m
    BY EmptySeq
  <2>2. PICK q \in Procesos, k \in Paginas : Presente(q, k) /\ MarcoDe(q, k) = m
    BY <2>1 DEF Reparto, NingunoPerdido
  <2>3. Ocupa(<<q, k>>, m) /\ <<q, k>> \in O
    BY <2>2
  <2> QED BY <2>3
<1> HIDE DEF g
<1>3. ASSUME NEW m \in Marcos
      PROVE  /\ g(m)[1] \in S /\ g(m)[2] \in Presentes(g(m)[1])
             /\ Lugar(g(m)[1], g(m)[2]) \in 0 .. Cardinality(Presentes(g(m)[1])) - 1
             /\ Lugar(g(m)[1], g(m)[2]) \in Posiciones
             /\ g(m)[1] = p => Lugar(g(m)[1], g(m)[2]) # MARCOS_POR_PROCESO - 1
  <2>1. PICK q \in Procesos, k \in Paginas : q = g(m)[1] /\ k = g(m)[2] /\ Presente(q, k)
    BY <1>2, <1>3
  <2>2. q \in S /\ k \in Presentes(q)
    BY <2>1 DEF Presentes, Presente
  <2>3. Lugar(q, k) \in 0 .. Cardinality(Presentes(q)) - 1
    BY <2>2, LugarUnico DEF Reparto
  <2>4. Cardinality(Presentes(q)) \in Nat /\ Cardinality(Presentes(q)) <= MARCOS_POR_PROCESO
    BY PresentesFinitas DEF MarcosAcotados
  <2>5. Lugar(q, k) \in Posiciones
    BY <1>1, <2>3, <2>4 DEF Posiciones
  <2>6. q = p => Cardinality(Presentes(q)) < MARCOS_POR_PROCESO
    BY DEF HayMarcoPropio
  <2>7. q = p => Lugar(q, k) # MARCOS_POR_PROCESO - 1
    BY <1>1, <2>3, <2>4, <2>6
  <2> QED BY <2>1, <2>2, <2>3, <2>5, <2>7
<1>4. f \in [Marcos -> T \ {ultimo}]
  BY <1>3
<1>5. ASSUME NEW m \in Marcos, NEW x \in Marcos, f[m] = f[x] PROVE m = x
  <2>1. g(m)[1] = g(x)[1] /\ Lugar(g(m)[1], g(m)[2]) = Lugar(g(x)[1], g(x)[2])
    BY <1>5
  <2>2. g(m)[2] = g(x)[2]
    BY <1>3, <2>1, LugarUnico DEF Reparto
  <2> QED BY <1>2, <2>1, <2>2
<1> HIDE DEF f
<1>6. f \in Injection(Marcos, T \ {ultimo})
  BY <1>4, <1>5, Fun_IsInj
<1>7. IsFiniteSet(T) /\ Cardinality(T) = Cardinality(S) * MARCOS_POR_PROCESO
  BY <1>1, FS_Product
<1>8. ultimo \in T
  BY <1>1 DEF Posiciones
<1> HIDE DEF T, ultimo
<1>9. IsFiniteSet(T \ {ultimo}) /\ Cardinality(T \ {ultimo}) = Cardinality(T) - 1
  BY <1>7, <1>8, FS_RemoveElement
<1>10. MARCOS <= Cardinality(T) - 1
  BY <1>1, <1>6, <1>9, FS_Injection
<1>11. Cardinality(T) \in Nat /\ Cardinality(T) <= MARCOS
  BY <1>7, FS_CardinalityType
<1> QED BY <1>1, <1>10, <1>11

(* The condition on the configuration under which the memory module never  *)
(* runs out of frames: as many as all the processes may take (memoria.c 98 *)
(* takes one without looking at whether there is any).                     *)
THEOREM MarcosSuficientes ==
  ASSUME IsFiniteSet(Procesos), Cardinality(Procesos) * MARCOS_POR_PROCESO <= MARCOS
  PROVE  Spec => []NuncaSinMarco
<1>1. Init => NuncaSinMarco
  BY DEF Init, NuncaSinMarco
<1>2. ASSUME IndInv, NuncaSinMarco, [Next]_vars PROVE NuncaSinMarco'
  <2>1. CASE \E p \in Procesos, n \in Paginas : SinMarcoLibre(p, n)
    <3>1. PICK p \in Procesos, n \in Paginas : SinMarcoLibre(p, n)
      BY <2>1
    <3>2. marcos_disponibles # <<>>
      <4>1. HayMarcoPropio(p) /\ TypeOK /\ Reparto /\ MarcosAcotados
        BY <1>2, <3>1 DEF SinMarcoLibre, IndInv
      <4>2. Procesos \in SUBSET Procesos
        OBVIOUS
      <4> QED BY <4>1, <4>2, HayMarcoLibre
    <3> QED BY <3>1, <3>2 DEF SinMarcoLibre
  <2>2. CASE HiloKernel
    <3>1. caida' = caida
      BY <2>2 DEF HiloKernel, InicializarEstructuras, Suspender, DestruirEstructuras,
         EnviarPaginaSwap, ConfirmarSuspension, LiberarEntrada, ConfirmarDestruccion
    <3> QED BY <1>2, <3>1 DEF NuncaSinMarco
  <2>3. CASE \E p \in Procesos, n \in Paginas :
               MarcoPresente(p, n) \/ CargarEnMarcoLibre(p, n) \/ ReemplazarPagina(p, n)
    <3>1. ASSUME NEW p \in Procesos, NEW n \in Paginas, ReemplazarPagina(p, n)
          PROVE  caida' = caida
      BY <3>1 DEF ReemplazarPagina
    <3>2. caida' = caida
      BY <2>3, <3>1 DEF MarcoPresente, CargarEnMarcoLibre
    <3> QED BY <1>2, <3>2 DEF NuncaSinMarco
  <2>4. CASE Acceso \/ \E p \in Procesos : Readmitir(p)
    BY <1>2, <2>4 DEF Acceso, EjecutarLectura, EjecutarEscritura, Readmitir, NuncaSinMarco
  <2>5. CASE UNCHANGED vars
    BY <1>2, <2>5 DEF vars, NuncaSinMarco
  <2> QED BY <1>2, <2>1, <2>2, <2>3, <2>4, <2>5 DEF Next, HiloCpu, ObtenerNumeroMarco, SinTrabajo
<1> QED BY <1>1, <1>2, InductivaMemoria, PTL DEF Spec
-----------------------------------------------------------------------------
(* The refinement of Almacen.  What a process finds in its pages, and the  *)
(* page the CPU has asked for:                                             *)
ContenidoDe == [p \in Procesos |-> [n \in Paginas |-> Contenido(p, n)]]
AccesoDe == [pid |-> pedido.pid, pagina |-> pedido.pagina]

(* A page is where its presence bit says.                                  *)
LEMMA DondeEsta ==
  ASSUME NEW p, NEW n
  PROVE  /\ Contenido(p, n) = IF ~Vivo(p) THEN Nada ELSE
              IF Presente(p, n) THEN base_memoria[MarcoDe(p, n)] ELSE swap[p][n]
         /\ Contenido(p, n)' = IF ~Vivo(p)' THEN Nada ELSE
              IF Presente(p, n)' THEN base_memoria'[MarcoDe(p, n)'] ELSE swap'[p][n]
  BY DEF Contenido, Vivo, Presente, MarcoDe

(* A step that changes no page and asks for none is a stutter.             *)
LEMMA SinCambio ==
  ASSUME \A q \in Procesos, k \in Paginas : Contenido(q, k)' = Contenido(q, k), pedido' = pedido
  PROVE  [Pagina!Next]_(Pagina!vars)
<1>1. ContenidoDe' = ContenidoDe /\ AccesoDe' = AccesoDe
  BY DEF ContenidoDe, AccesoDe
<1> QED BY <1>1 DEF Pagina!vars, ContenidoDe, AccesoDe

(* A page of a process that exists has a value.                            *)
LEMMA TieneValor ==
  ASSUME IndInv, NEW p \in Procesos, NEW n \in Paginas, Vivo(p)
  PROVE  Contenido(p, n) \in Valores /\ Contenido(p, n) # Nada
<1>1. Contenido(p, n) \in Valores
  BY DondeEsta DEF IndInv, PaginasConValor
<1> QED BY <1>1, ValoresAssumption

(* A step that changes no page and leaves the CPU waiting for one is Pedir.*)
LEMMA EsPedir ==
  ASSUME IndInv, NEW p \in Procesos, NEW n \in Paginas, NEW m, proceso[p] = "en_memoria",
         pedido = SinPedido, pedido' = [pid |-> p, pagina |-> n, marco |-> m],
         \A q \in Procesos, k \in Paginas : Contenido(q, k)' = Contenido(q, k)
  PROVE  [Pagina!Next]_(Pagina!vars)
<1>1. ContenidoDe' = ContenidoDe
  BY DEF ContenidoDe
<1>2. AccesoDe = [pid |-> Nada, pagina |-> 0] /\ AccesoDe' = [pid |-> p, pagina |-> n]
  BY DEF AccesoDe, SinPedido
<1>3. ContenidoDe[p][n] # Nada
  BY TieneValor DEF ContenidoDe, Vivo
<1>4. Pagina!Pedir(p, n)
  BY <1>1, <1>2, <1>3 DEF Pagina!Pedir, Pagina!Ninguno, ContenidoDe, AccesoDe
<1> QED BY <1>4 DEF Pagina!Next

(* Before any request no page has a value.                                 *)
LEMMA InicioAlmacen == Init => Pagina!Init
<1> SUFFICES ASSUME Init PROVE Pagina!Init
  OBVIOUS
<1>1. \A p \in Procesos, n \in Paginas : Contenido(p, n) = Nada
  BY DondeEsta DEF Init, Vivo
<1>2. AccesoDe = [pid |-> Nada, pagina |-> 0]
  BY DEF Init, SinPedido, AccesoDe
<1> QED BY <1>1, <1>2 DEF Pagina!Init, Pagina!Ninguno, AccesoDe

(* The thread of the kernel creates and destroys the pages of a process;   *)
(* what it does one page at a time changes none.                           *)
LEMMA RefinaHiloKernel ==
  ASSUME IndInv, HiloKernel \/ \E p \in Procesos : Readmitir(p)
  PROVE  [Pagina!Next]_(Pagina!vars)
<1>1. /\ TypeOK /\ HiloDeAcuerdo /\ EntradasLiberadas /\ SinPaginas /\ PaginasConValor
  BY DEF IndInv
<1>2. ASSUME NEW p \in Procesos, InicializarEstructuras(p) PROVE Pagina!Next
  <2>1. /\ ~Vivo(p) /\ Vivo(p)' /\ \A n \in Paginas : ~Presente(p, n)' /\ swap'[p][n] = Cero
        /\ \A q \in Procesos : q # p => Vivo(q)' = Vivo(q) /\ swap'[q] = swap[q]
    BY <1>1, <1>2 DEF InicializarEstructuras, TypeOK, SinPaginas, Vivo, Presente
  <2>2. pedido' = pedido /\ tabla' = tabla /\ base_memoria' = base_memoria
    BY <1>2 DEF InicializarEstructuras
  <2>3. \A n \in Paginas : Contenido(p, n) = Nada /\ Contenido(p, n)' = Cero
    BY <2>1, DondeEsta
  <2>4. \A q \in Procesos, k \in Paginas : q # p => Contenido(q, k)' = Contenido(q, k)
    BY <2>1, <2>2, DondeEsta DEF Presente, MarcoDe
  <2>5. ContenidoDe' = [ContenidoDe EXCEPT ![p] = [n \in Paginas |-> Cero]]
    BY <2>3, <2>4 DEF ContenidoDe
  <2>6. AccesoDe' = AccesoDe /\ \A n \in Paginas : ContenidoDe[p][n] = Nada
    BY <2>2, <2>3 DEF AccesoDe, ContenidoDe
  <2>7. Pagina!Crear(p)
    BY <2>5, <2>6 DEF Pagina!Crear, AccesoDe, ContenidoDe
  <2> QED BY <2>7 DEF Pagina!Next
<1>3. ASSUME NEW p \in Procesos, DestruirEstructuras(p) PROVE Pagina!Next
  <2>1. /\ Vivo(p) /\ ~Vivo(p)' /\ \A q \in Procesos : q # p => Vivo(q)' = Vivo(q)
        /\ pedido.pid # p
        /\ pedido' = pedido /\ tabla' = tabla /\ base_memoria' = base_memoria /\ swap' = swap
    BY <1>1, <1>3 DEF DestruirEstructuras, TypeOK, Vivo
  <2>2. \A n \in Paginas : Contenido(p, n) # Nada /\ Contenido(p, n)' = Nada
    BY <2>1, DondeEsta, TieneValor
  <2>3. \A q \in Procesos, k \in Paginas : q # p => Contenido(q, k)' = Contenido(q, k)
    BY <2>1, DondeEsta DEF Presente, MarcoDe
  <2>4. ContenidoDe' = [ContenidoDe EXCEPT ![p] = [n \in Paginas |-> Nada]]
    BY <2>2, <2>3 DEF ContenidoDe
  <2>5. /\ AccesoDe' = AccesoDe /\ AccesoDe.pid # p
        /\ \A n \in Paginas : ContenidoDe[p][n] # Nada
    BY <2>1, <2>2 DEF AccesoDe, ContenidoDe
  <2>6. Pagina!Destruir(p)
    BY <2>4, <2>5 DEF Pagina!Destruir, AccesoDe, ContenidoDe
  <2> QED BY <2>6 DEF Pagina!Next
<1>4. ASSUME NEW p \in Procesos, Suspender(p) \/ Readmitir(p) PROVE [Pagina!Next]_(Pagina!vars)
  <2>1. UNCHANGED <<tabla, base_memoria, swap, pedido>>
    BY <1>4 DEF Suspender, Readmitir
  <2>2. \A q \in Procesos : Vivo(q)' = Vivo(q)
    BY <1>1, <1>4 DEF Suspender, Readmitir, TypeOK, Vivo
  <2> QED BY <2>1, <2>2, DondeEsta, SinCambio DEF Presente, MarcoDe
<1>5. ASSUME ConfirmarSuspension PROVE [Pagina!Next]_(Pagina!vars)
  <2>1. UNCHANGED <<tabla, base_memoria, swap, pedido>>
    BY <1>5 DEF ConfirmarSuspension
  <2>2. \A q \in Procesos : Vivo(q)' = Vivo(q)
    BY <1>1, <1>5 DEF ConfirmarSuspension, HiloDeAcuerdo, TypeOK, Vivo
  <2> QED BY <2>1, <2>2, DondeEsta, SinCambio DEF Presente, MarcoDe
<1>6. ASSUME LiberarEntrada \/ ConfirmarDestruccion PROVE [Pagina!Next]_(Pagina!vars)
  <2>1. PICK p \in Procesos : p = hilo_kernel.pid /\ ~Vivo(p)
    BY <1>1, <1>6 DEF LiberarEntrada, ConfirmarDestruccion, HiloDeAcuerdo, Vivo
  <2>2. UNCHANGED <<proceso, base_memoria, pedido>>
    BY <1>6 DEF LiberarEntrada, ConfirmarDestruccion
  <2>3. \A q \in Procesos, k \in Paginas : q # p => tabla'[q][k] = tabla[q][k] /\ swap'[q][k] = swap[q][k]
    BY <1>1, <1>6, <2>1 DEF LiberarEntrada, ConfirmarDestruccion, TypeOK
  <2>4. \A q \in Procesos : Vivo(q)' = Vivo(q)
    BY <2>2 DEF Vivo
  <2> QED BY <2>1, <2>2, <2>3, <2>4, DondeEsta, SinCambio DEF Presente, MarcoDe
<1>7. ASSUME EnviarPaginaSwap PROVE [Pagina!Next]_(Pagina!vars)
  <2>1. PICK p \in Procesos, n \in Paginas : p = hilo_kernel.pid /\ n = hilo_kernel.pagina
    BY <1>1, <1>7 DEF EnviarPaginaSwap, HiloDeAcuerdo
  <2>2. UNCHANGED <<proceso, base_memoria, pedido>> /\ \A q \in Procesos : Vivo(q)' = Vivo(q)
    BY <1>7 DEF EnviarPaginaSwap, Vivo
  <2>3. CASE UNCHANGED <<swap, tabla, marcos_disponibles>>
    BY <2>2, <2>3, DondeEsta, SinCambio DEF Presente, MarcoDe
  <2>4. CASE EscribirYSoltar(p, n) /\ Presente(p, n)
    <3>1. tabla \in [Procesos -> [Paginas -> Entrada]] /\ tabla[p][n] \in Entrada
      BY <1>1 DEF TypeOK
    <3>2. tabla' = [tabla EXCEPT ![p][n].presencia = FALSE, ![p][n].modificado = FALSE]
      BY <2>4 DEF EscribirYSoltar
    <3>3. ~Presente(p, n)'
      BY <3>1, <3>2 DEF Presente, Entrada
    <3>4. \A q \in Procesos, k \in Paginas : q # p \/ k # n => tabla'[q][k] = tabla[q][k]
      BY <3>1, <3>2
    <3>5. /\ swap'[p][n] = base_memoria[MarcoDe(p, n)]
          /\ \A q \in Procesos, k \in Paginas : q # p \/ k # n => swap'[q][k] = swap[q][k]
      BY <1>1, <2>4 DEF EscribirYSoltar, TypeOK, MarcoDe
    <3>6. Contenido(p, n)' = Contenido(p, n)
      BY <2>2, <2>4, <3>3, <3>5, DondeEsta
    <3>7. \A q \in Procesos, k \in Paginas : q # p \/ k # n => Contenido(q, k)' = Contenido(q, k)
      BY <2>2, <3>4, <3>5, DondeEsta DEF Presente, MarcoDe
    <3> QED BY <2>2, <3>6, <3>7, SinCambio
  <2> QED BY <1>7, <2>1, <2>3, <2>4 DEF EnviarPaginaSwap, Presente
<1> QED BY <1>2, <1>3, <1>4, <1>5, <1>6, <1>7 DEF HiloKernel

(* An access reads or writes the page the CPU asked for, and no other: the *)
(* frame written is still that page's.                                     *)
LEMMA RefinaAcceso ==
  ASSUME IndInv, Acceso
  PROVE  [Pagina!Next]_(Pagina!vars)
<1>1. TypeOK /\ PedidoVigente /\ PedidoDeProceso /\ OcupadoUnaVez
  BY DEF IndInv, Reparto
<1>2. /\ UNCHANGED <<proceso, swap>> /\ pedido # SinPedido /\ pedido' = SinPedido
      /\ \A q \in Procesos : Vivo(q)' = Vivo(q)
  BY DEF Acceso, EjecutarLectura, EjecutarEscritura, Vivo
<1>3. PICK p \in Procesos, n \in Paginas, m \in Marcos :
         /\ p = pedido.pid /\ n = pedido.pagina /\ m = pedido.marco
         /\ Presente(p, n) /\ MarcoDe(p, n) = m /\ Vivo(p)
  BY <1>1, <1>2 DEF PedidoVigente, PedidoDeProceso, TypeOK, Presente, MarcoDe, Vivo
<1>4. tabla \in [Procesos -> [Paginas -> Entrada]] /\ tabla[p][n] \in Entrada
      /\ base_memoria \in [Marcos -> Valores \union {Nada}]
  BY <1>1 DEF TypeOK
<1>5. /\ AccesoDe' = [pid |-> Nada, pagina |-> 0] /\ AccesoDe # [pid |-> Nada, pagina |-> 0]
      /\ AccesoDe.pid = p /\ AccesoDe.pagina = n
  BY <1>2, <1>3, ValoresAssumption DEF AccesoDe, SinPedido
<1>6. CASE EjecutarLectura
  <2>1. tabla' = [tabla EXCEPT ![p][n].uso = TRUE] /\ base_memoria' = base_memoria
    BY <1>3, <1>6 DEF EjecutarLectura
  <2>2. \A q \in Procesos, k \in Paginas :
          Presente(q, k)' = Presente(q, k) /\ MarcoDe(q, k)' = MarcoDe(q, k)
    BY <1>4, <2>1 DEF Presente, MarcoDe, Entrada
  <2>3. \A q \in Procesos, k \in Paginas : Contenido(q, k)' = Contenido(q, k)
    BY <1>2, <2>1, <2>2, DondeEsta
  <2>4. ContenidoDe' = ContenidoDe
    BY <2>3 DEF ContenidoDe
  <2>5. Pagina!Leer
    BY <1>5, <2>4 DEF Pagina!Leer, Pagina!Ninguno, ContenidoDe, AccesoDe
  <2> QED BY <2>5 DEF Pagina!Next
<1>7. ASSUME NEW valor \in Valores, EjecutarEscritura(valor) PROVE Pagina!Next
  <2>1. /\ tabla' = [tabla EXCEPT ![p][n].uso = TRUE, ![p][n].modificado = TRUE]
        /\ base_memoria' = [base_memoria EXCEPT ![m] = valor]
    BY <1>3, <1>7 DEF EjecutarEscritura, MarcarModificado
  <2>2. \A q \in Procesos, k \in Paginas :
          Presente(q, k)' = Presente(q, k) /\ MarcoDe(q, k)' = MarcoDe(q, k)
    BY <1>4, <2>1 DEF Presente, MarcoDe, Entrada
  <2>3. base_memoria'[m] = valor /\ \A x \in Marcos : x # m => base_memoria'[x] = base_memoria[x]
    BY <1>4, <2>1
  <2>4. \A q \in Procesos, k \in Paginas : MarcoDe(q, k) \in Marcos
    BY <1>4 DEF MarcoDe, Entrada
  <2>5. Contenido(p, n)' = valor
    BY <1>2, <1>3, <2>2, <2>3, DondeEsta
  <2>6. \A q \in Procesos, k \in Paginas : q # p \/ k # n => Contenido(q, k)' = Contenido(q, k)
    <3> SUFFICES ASSUME NEW q \in Procesos, NEW k \in Paginas, q # p \/ k # n
                 PROVE  Contenido(q, k)' = Contenido(q, k)
      OBVIOUS
    <3>1. Presente(q, k) => base_memoria'[MarcoDe(q, k)] = base_memoria[MarcoDe(q, k)]
      BY <1>1, <1>3, <2>3, <2>4 DEF OcupadoUnaVez
    <3> QED BY <1>2, <2>2, <3>1, DondeEsta
  <2>7. ContenidoDe' = [ContenidoDe EXCEPT ![p][n] = valor]
    BY <2>5, <2>6 DEF ContenidoDe
  <2>8. Pagina!Escribir(valor)
    BY <1>5, <2>7 DEF Pagina!Escribir, Pagina!Ninguno, ContenidoDe, AccesoDe
  <2> QED BY <1>7, <2>8 DEF Pagina!Next
<1> QED BY <1>6, <1>7 DEF Acceso

(* Wherever the page asked for comes from, no page of any process changes. *)
LEMMA RefinaObtener ==
  ASSUME IndInv, NEW p \in Procesos, NEW n \in Paginas, ObtenerNumeroMarco(p, n)
  PROVE  [Pagina!Next]_(Pagina!vars)
<1>1. /\ TypeOK /\ LimpiaEnDisco /\ MarcosAcotados /\ OcupadoUnaVez /\ LibreNoOcupado
  BY DEF IndInv, Reparto
<1>2. pedido = SinPedido /\ proceso[p] = "en_memoria" /\ Vivo(p)
  BY DEF ObtenerNumeroMarco, Vivo
<1>3. tabla \in [Procesos -> [Paginas -> Entrada]] /\ tabla[p][n] \in Entrada
      /\ base_memoria \in [Marcos -> Valores \union {Nada}]
      /\ \A q \in Procesos, k \in Paginas : MarcoDe(q, k) \in Marcos
  BY <1>1 DEF TypeOK, MarcoDe, Entrada
<1>4. ASSUME NEW m \in Marcos, NEW v \in Paginas,
             proceso' = proceso, ~Presente(p, n), Presente(p, n)', MarcoDe(p, n)' = m,
             \A q \in Procesos, k \in Paginas : q # p \/ (k # n /\ k # v) =>
               /\ Presente(q, k)' = Presente(q, k) /\ MarcoDe(q, k)' = MarcoDe(q, k)
               /\ swap'[q][k] = swap[q][k]
               /\ Presente(q, k) => MarcoDe(q, k) # m,
             v # n => ~Presente(p, v)' /\ Contenido(p, v) = swap'[p][v],
             base_memoria' = [base_memoria EXCEPT ![m] = swap[p][n]],
             pedido' = [pid |-> p, pagina |-> n, marco |-> m]
      PROVE  [Pagina!Next]_(Pagina!vars)
  <2>1. base_memoria'[m] = swap[p][n] /\ \A x \in Marcos : x # m => base_memoria'[x] = base_memoria[x]
    BY <1>3, <1>4
  <2>2. \A q \in Procesos : Vivo(q)' = Vivo(q)
    BY <1>4 DEF Vivo
  <2>3. Contenido(p, n)' = Contenido(p, n)
    BY <1>2, <1>4, <2>1, <2>2, DondeEsta
  <2>4. v # n => Contenido(p, v)' = Contenido(p, v)
    BY <1>2, <1>4, <2>2, DondeEsta
  <2>5. \A q \in Procesos, k \in Paginas : q # p \/ (k # n /\ k # v) =>
          Contenido(q, k)' = Contenido(q, k)
    <3> SUFFICES ASSUME NEW q \in Procesos, NEW k \in Paginas, q # p \/ (k # n /\ k # v)
                 PROVE  Contenido(q, k)' = Contenido(q, k)
      OBVIOUS
    <3>1. Presente(q, k) => base_memoria'[MarcoDe(q, k)] = base_memoria[MarcoDe(q, k)]
      BY <1>3, <1>4, <2>1
    <3> QED BY <1>4, <2>2, <3>1, DondeEsta
  <2>6. \A q \in Procesos, k \in Paginas : Contenido(q, k)' = Contenido(q, k)
    BY <2>3, <2>4, <2>5
  <2> QED BY <1>2, <1>4, <2>6, EsPedir
<1>5. CASE MarcoPresente(p, n)
  <2>1. UNCHANGED <<proceso, tabla, base_memoria, swap>>
        /\ pedido' = [pid |-> p, pagina |-> n, marco |-> MarcoDe(p, n)]
    BY <1>5 DEF MarcoPresente, MarcoDe
  <2>2. \A q \in Procesos, k \in Paginas : Contenido(q, k)' = Contenido(q, k)
    BY <2>1, DondeEsta DEF Vivo, Presente, MarcoDe
  <2> QED BY <1>2, <2>1, <2>2, EsPedir
<1>6. CASE SinMarcoLibre(p, n)
  <2>1. UNCHANGED <<proceso, tabla, base_memoria, swap, pedido>>
    BY <1>6 DEF SinMarcoLibre
  <2> QED BY <2>1, DondeEsta, SinCambio DEF Vivo, Presente, MarcoDe
<1>7. CASE CargarEnMarcoLibre(p, n)
  <2>1. marcos_disponibles \in Seq(Marcos) /\ marcos_disponibles # <<>>
    BY <1>1, <1>7 DEF CargarEnMarcoLibre, TypeOK
  <2>2. PICK m \in Marcos : m = Head(marcos_disponibles) /\ m = marcos_disponibles[1]
    BY <2>1
  <2>3. /\ ~Presente(p, n) /\ proceso' = proceso /\ swap' = swap
        /\ tabla' = [tabla EXCEPT ![p][n].marco = m, ![p][n].presencia = TRUE, ![p][n].uso = TRUE]
        /\ base_memoria' = [base_memoria EXCEPT ![m] = swap[p][n]]
        /\ pedido' = [pid |-> p, pagina |-> n, marco |-> m]
    BY <1>7, <2>2 DEF CargarEnMarcoLibre, Presente
  <2>4. tabla' = [tabla EXCEPT ![p][n].marco = m, ![p][n].presencia = TRUE, ![p][n].uso = TRUE]
    BY <2>3
  <2>5. Presente(p, n)' /\ MarcoDe(p, n)' = m
    BY <1>3, <2>4 DEF Presente, MarcoDe, Entrada
  <2>6. \A q \in Procesos, k \in Paginas : q # p \/ k # n => tabla'[q][k] = tabla[q][k]
    BY <1>3, <2>4
  <2>7. \A q \in Procesos, k \in Paginas : Presente(q, k) => MarcoDe(q, k) # m
    <3>1. 1 \in 1 .. Len(marcos_disponibles)
      BY <2>1
    <3> QED BY <1>1, <2>2, <3>1 DEF LibreNoOcupado
  <2>8. \A q \in Procesos, k \in Paginas : q # p \/ (k # n /\ k # n) =>
               /\ Presente(q, k)' = Presente(q, k) /\ MarcoDe(q, k)' = MarcoDe(q, k)
               /\ swap'[q][k] = swap[q][k]
               /\ Presente(q, k) => MarcoDe(q, k) # m
    BY <2>3, <2>6, <2>7 DEF Presente, MarcoDe
  <2> QED BY <1>4, <2>3, <2>5, <2>8
<1>8. CASE ReemplazarPagina(p, n)
  <2>1. PICK v \in Paginas, m \in Marcos :
           /\ ~Presente(p, n) /\ Presente(p, v) /\ v # n /\ m = MarcoDe(p, v)
           /\ tabla' \in [Procesos -> [Paginas -> Entrada]]
           /\ Presente(p, n)' /\ MarcoDe(p, n)' = m /\ ~Presente(p, v)'
           /\ \A q \in Procesos, k \in Paginas : q # p \/ (k # n /\ k # v) =>
                /\ Presente(q, k)' = Presente(q, k) /\ MarcoDe(q, k)' = MarcoDe(q, k)
                /\ tabla'[q][k].modificado = tabla[q][k].modificado
           /\ EscribirVictima(p, v)
           /\ base_memoria' = [base_memoria EXCEPT ![m] = swap[p][n]]
           /\ posicion_cursor' \in [Procesos -> Posiciones]
           /\ pedido' = [pid |-> p, pagina |-> n, marco |-> m]
           /\ UNCHANGED <<proceso, marcos_disponibles, hilo_kernel, caida>>
    BY <1>1, <1>8, ReemplazoForma
  <2>2. Contenido(p, v) = base_memoria[m]
    BY <1>2, <2>1, DondeEsta
  <2>3. swap \in [Procesos -> [Paginas -> Valores \union {Nada}]]
    BY <1>1 DEF TypeOK
  <2>4. /\ swap'[p][v] = base_memoria[m]
        /\ \A q \in Procesos, k \in Paginas : q # p \/ k # v => swap'[q][k] = swap[q][k]
    <3>1. CASE tabla[p][v].modificado
      BY <2>1, <2>3, <3>1 DEF EscribirVictima, MarcoDe
    <3>2. CASE ~tabla[p][v].modificado
      <4>1. swap' = swap
        BY <2>1, <3>2 DEF EscribirVictima
      <4>2. base_memoria[m] = swap[p][v]
        BY <1>1, <2>1, <3>2 DEF LimpiaEnDisco, Presente, MarcoDe
      <4> QED BY <4>1, <4>2
    <3> QED BY <3>1, <3>2
  <2>5. \A q \in Procesos, k \in Paginas : q # p \/ (k # n /\ k # v) =>
               /\ Presente(q, k)' = Presente(q, k) /\ MarcoDe(q, k)' = MarcoDe(q, k)
               /\ swap'[q][k] = swap[q][k]
               /\ Presente(q, k) => MarcoDe(q, k) # m
    <3>1. \A q \in Procesos, k \in Paginas : Presente(q, k) /\ (q # p \/ k # v) => MarcoDe(q, k) # m
      BY <1>1, <2>1 DEF OcupadoUnaVez
    <3> QED BY <2>1, <2>4, <3>1
  <2>6. /\ proceso' = proceso /\ ~Presente(p, n) /\ Presente(p, n)' /\ MarcoDe(p, n)' = m
        /\ base_memoria' = [base_memoria EXCEPT ![m] = swap[p][n]]
        /\ pedido' = [pid |-> p, pagina |-> n, marco |-> m]
    BY <2>1
  <2>7. v # n => ~Presente(p, v)' /\ Contenido(p, v) = swap'[p][v]
    BY <2>1, <2>2, <2>4
  <2> QED BY <1>4, <2>5, <2>6, <2>7
<1> QED BY <1>5, <1>6, <1>7, <1>8 DEF ObtenerNumeroMarco

(* Every step of the memory module is a step of Almacen or a stutter.      *)
LEMMA RefinaPaso == IndInv /\ [Next]_vars => [Pagina!Next]_(Pagina!vars)
<1> SUFFICES ASSUME IndInv, [Next]_vars PROVE [Pagina!Next]_(Pagina!vars)
  OBVIOUS
<1>1. CASE UNCHANGED vars
  <2>1. UNCHANGED <<proceso, tabla, base_memoria, swap, pedido>>
    BY <1>1 DEF vars
  <2>2. \A q \in Procesos, k \in Paginas : Contenido(q, k)' = Contenido(q, k)
    BY <2>1, DondeEsta DEF Vivo, Presente, MarcoDe
  <2> QED BY <2>1, <2>2, SinCambio
<1>2. CASE HiloKernel \/ \E p \in Procesos : Readmitir(p)
  BY <1>2, RefinaHiloKernel
<1>3. CASE \E p \in Procesos, n \in Paginas : ObtenerNumeroMarco(p, n)
  BY <1>3, RefinaObtener
<1>4. CASE Acceso
  BY <1>4, RefinaAcceso
<1> QED BY <1>1, <1>2, <1>3, <1>4 DEF Next, HiloCpu, SinTrabajo

(* The memory module implements Almacen: with two threads, page faults,    *)
(* victims, suspensions and frames handed over, a process always finds in a*)
(* page what was last written to it, and nothing else ever changes it.     *)
THEOREM MemoriaImplementaAlmacen == Spec => ImplementaAlmacen
<1>1. Init => Pagina!Init
  BY InicioAlmacen
<1>2. IndInv /\ [Next]_vars => [Pagina!Next]_(Pagina!vars)
  BY RefinaPaso
<1> QED BY <1>1, <1>2, InductivaMemoria, PTL DEF Spec, ImplementaAlmacen, Pagina!Spec
=============================================================================

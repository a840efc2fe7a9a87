-------------------------- MODULE Traduccion_proofs --------------------------
(***************************************************************************)
(* Proofs about the system of CPU, memory module and tables.  Its tables   *)
(* behave as module Tablas says, so that what Tablas_proofs proves of them *)
(* alone holds of them here, whatever the CPU, the kernel and the two      *)
(* threads of the memory module do.                                        *)
(***************************************************************************)
EXTENDS Traduccion, Memoria_proofs

TP == INSTANCE Tablas_proofs

(* The sizes consoles ask for are unsigned.                                *)
LEMMA TamaniosDeConsolas == TP!TamaniosNaturales
  BY DireccionesAssumption DEF TP!TamaniosNaturales

(* A request of the kernel under way is about a process.                   *)
HiloDeProceso == hilo_kernel = Libre \/ hilo_kernel.pid \in Procesos

(* The thread of the kernel serves processes, whatever the CPU does.       *)
LEMMA PasoHilo ==
  ASSUME HiloDeProceso, [NextTraduccion]_varsTraduccion
  PROVE  HiloDeProceso'
<1> USE DEF HiloDeProceso
<1>1. CASE UNCHANGED varsTraduccion
  BY <1>1 DEF varsTraduccion, vars, Libre
<1>2. CASE Cpu
  <2>1. ASSUME NEW p \in Procesos, \/ Ejecutar(p) \/ AtenderInterrupcion(p)
                                   \/ EjecutarIO(p) \/ EjecutarExit(p)
        PROVE  UNCHANGED hilo_kernel
    BY <2>1 DEF Ejecutar, AtenderInterrupcion, EjecutarIO, EjecutarExit, Dejar, vars
  <2>2. ASSUME NEW p \in Procesos, NEW dir \in Direcciones,
               MmuAcierto(p, dir) \/ MmuFallo(p, dir)
        PROVE  UNCHANGED hilo_kernel
    BY <2>2 DEF MmuAcierto, MmuFallo, ObtenerNumeroMarco, MarcoPresente,
                CargarEnMarcoLibre, SinMarcoLibre, ReemplazarPagina
  <2>3. ASSUME Acceder PROVE UNCHANGED hilo_kernel
    BY <2>3 DEF Acceder, Acceso, EjecutarLectura, EjecutarEscritura
  <2>4. UNCHANGED hilo_kernel
    BY <1>2, <2>1, <2>2, <2>3 DEF Cpu
  <2>5. QED
    BY <2>4 DEF Libre
<1>3. CASE AtenderKernel
  <2>1. ASSUME NEW p \in Procesos, NEW tam \in Tamanios, CrearEstructuras(p, tam)
        PROVE  HiloDeProceso'
    BY <2>1 DEF CrearEstructuras, InicializarEstructuras, Libre
  <2>2. CASE DestruirDelTodo
    BY <2>2 DEF DestruirDelTodo, ConfirmarDestruccion, Libre
  <2>3. ASSUME NEW p \in Procesos, Suspender(p) \/ DestruirEstructuras(p)
        PROVE  HiloDeProceso'
    BY <2>3 DEF Suspender, DestruirEstructuras, Atendiendo
  <2>4. CASE EnviarPaginaSwap \/ LiberarEntrada
    BY <2>4 DEF EnviarPaginaSwap, LiberarEntrada, Atendiendo, Libre
  <2>5. CASE ConfirmarSuspension
    BY <2>5 DEF ConfirmarSuspension, Libre
  <2>6. QED
    BY <1>3, <2>1, <2>2, <2>3, <2>4, <2>5 DEF AtenderKernel
<1>4. ASSUME NEW p \in Procesos, Desbloquear(p) \/ VolverDeSuspension(p)
      PROVE  HiloDeProceso'
  BY <1>4 DEF Desbloquear, VolverDeSuspension, Readmitir, vars, Libre
<1>5. CASE Terminado
  BY <1>5 DEF Terminado, SinTrabajo, vars, Libre
<1>6. QED
  BY <1>1, <1>2, <1>3, <1>4, <1>5 DEF NextTraduccion

(* Every step of the system is a step of the tables or leaves them alone.  *)
LEMMA PasoDeTablas ==
  ASSUME HiloDeProceso, [NextTraduccion]_varsTraduccion
  PROVE  [TP!NextTablas]_(TP!varsTablas)
<1> USE DEF tablas, TP!varsTablas
<1>1. SUFFICES ASSUME NextTraduccion PROVE TP!NextTablas \/ UNCHANGED tablas
  BY DEF varsTraduccion
<1>2. CASE Cpu
  BY <1>2 DEF Cpu, Ejecutar, AtenderInterrupcion, EjecutarIO, EjecutarExit, Dejar,
              MmuAcierto, MmuFallo, Acceder
<1>3. CASE AtenderKernel
  <2>1. ASSUME NEW p \in Procesos, NEW tam \in Tamanios, CrearEstructuras(p, tam)
        PROVE  TP!NextTablas
    <3>1. T!CrearTablas(p, tam)
      BY <2>1 DEF CrearEstructuras
    <3>2. TP!CrearTablas(p, tam)
      BY <3>1 DEF T!CrearTablas, TP!CrearTablas, T!SinTabla, TP!SinTabla,
                  T!TablasNecesarias, TP!TablasNecesarias, T!BytesPorTabla, TP!BytesPorTabla,
                  T!TablaSegundoNivel, TP!TablaSegundoNivel, T!Entradas, TP!Entradas,
                  T!PaginaDeEntrada, TP!PaginaDeEntrada
    <3>3. QED
      BY <3>2 DEF TP!NextTablas
  <2>2. CASE DestruirDelTodo
    <3>1. T!DestruirTablas(hilo_kernel.pid) /\ hilo_kernel.pid \in Procesos
      BY <2>2 DEF DestruirDelTodo, ConfirmarDestruccion, HiloDeProceso, Libre
    <3>2. TP!DestruirTablas(hilo_kernel.pid)
      BY <3>1 DEF T!DestruirTablas, TP!DestruirTablas, T!SinTabla, TP!SinTabla,
                  T!LiberarSegundoNivel, TP!LiberarSegundoNivel,
                  T!LiberarPrimerNivel, TP!LiberarPrimerNivel, T!ToSet, TP!ToSet
    <3>3. QED
      BY <3>1, <3>2 DEF TP!NextTablas
  <2>3. QED
    BY <1>3, <2>1, <2>2 DEF AtenderKernel
<1>4. ASSUME NEW p \in Procesos, Desbloquear(p) \/ VolverDeSuspension(p)
      PROVE  UNCHANGED tablas
  BY <1>4 DEF Desbloquear, VolverDeSuspension
<1>5. CASE Terminado
  BY <1>5 DEF Terminado
<1>6. QED
  BY <1>1, <1>2, <1>3, <1>4, <1>5 DEF NextTraduccion

(* The tables of the system are always in the order Tablas_proofs proves.  *)
LEMMA TablasDelSistema == SpecTraduccion => []HiloDeProceso /\ []TP!IndInvTablas
<1>1. InitTraduccion => HiloDeProceso
  BY DEF InitTraduccion, Init, HiloDeProceso
<1>2. InitTraduccion => TP!InitTablas
  BY DEF InitTraduccion, T!InitTablas, TP!InitTablas, T!SinTabla, TP!SinTabla
<1>3. SpecTraduccion => []HiloDeProceso
  BY <1>1, PasoHilo, PTL DEF SpecTraduccion
<1>4. SpecTraduccion => TP!SpecTablas
  BY <1>2, <1>3, PasoDeTablas, PTL DEF SpecTraduccion, TP!SpecTablas
<1>5. TP!SpecTablas => []TP!IndInvTablas
  BY TamaniosDeConsolas, TP!TablasEnOrden, MmuAssumption DEF TP!MmuAssumption
<1>6. QED
  BY <1>3, <1>4, <1>5, PTL

(* What they say of addresses is said of module Tablas alone.              *)
LEMMA RutaPorElOrden == TP!IndInvTablas => RutaDePagina
<1>1. TP!RutaDePagina => RutaDePagina
  BY DEF RutaDePagina, T!RutaDePagina, TP!RutaDePagina, T!SinTabla, TP!SinTabla,
         T!TieneEntrada, TP!TieneEntrada, T!EntradaDe, TP!EntradaDe,
         T!NumeroTablaSegundoNivel, TP!NumeroTablaSegundoNivel,
         T!EntradaPrimerNivel, TP!EntradaPrimerNivel,
         T!EntradaSegundoNivel, TP!EntradaSegundoNivel, T!NumeroPagina, TP!NumeroPagina
<1>2. QED
  BY <1>1, TP!RutaPorTablas, MmuAssumption DEF TP!MmuAssumption

(* The tables lead every address of every process to the entry of its page,*)
(* for any sizes of processes and pages and any number of processes, while *)
(* they execute, are suspended, come back and are destroyed (cpu.c 220-226,*)
(* memoria.c 66-84).                                                       *)
THEOREM RutaDeTodaDireccion == SpecTraduccion => []RutaDePagina
  BY TablasDelSistema, RutaPorElOrden, PTL
-----------------------------------------------------------------------------
(* The TLB as a list.  Where the entries of a list t are in a list s.      *)
Reubica(f, t, n, s) ==
  /\ f \in [1 .. n -> 1 .. Len(s)]
  /\ \A j, k \in 1 .. n : f[j] = f[k] => j = k
  /\ \A j \in 1 .. n : t[j] = s[f[j]]

(* A use of an entry changes the order of the TLB and nothing else.        *)
LEMMA TlbTocada ==
  ASSUME NEW S, tabla_tlb \in Seq(S), NEW i \in 1 .. Len(tabla_tlb)
  PROVE  /\ Tocar(i) \in Seq(S) /\ Len(Tocar(i)) = Len(tabla_tlb)
         /\ \E f : Reubica(f, Tocar(i), Len(tabla_tlb), tabla_tlb)
<1> DEFINE s == tabla_tlb
           largo == Len(s)
<1>1. s \in Seq(S) /\ largo \in Nat /\ i \in 1 .. largo /\ \A j \in 1 .. largo : s[j] \in S
  OBVIOUS
<1>2. CASE REEMPLAZO_TLB # "LRU"
  <2>1. Tocar(i) = s
    BY <1>2 DEF Tocar
  <2>2. Reubica([j \in 1 .. largo |-> j], s, largo, s)
    BY DEF Reubica
  <2> QED BY <1>1, <2>1, <2>2
<1>3. CASE REEMPLAZO_TLB = "LRU"
  <2> DEFINE a == SubSeq(s, 1, i - 1)
             b == SubSeq(s, i + 1, largo)
             f == [j \in 1 .. largo |-> IF j < i THEN j ELSE IF j < largo THEN j + 1 ELSE i]
  <2> HIDE DEF s, largo
  <2>1. a \in Seq(S) /\ Len(a) = i - 1 /\ \A j \in 1 .. i - 1 : a[j] = s[j]
    <3>1. \A j \in 1 .. i - 1 : s[j] \in S
      BY <1>1
    <3>2. /\ a \in Seq(S) /\ Len(a) = IF 1 <= i - 1 THEN (i - 1) - 1 + 1 ELSE 0
          /\ \A j \in 1 .. (i - 1) - 1 + 1 : a[j] = s[1 + j - 1]
      BY <1>1, <3>1, SubSeqProperties
    <3> QED BY <1>1, <3>2
  <2>2. b \in Seq(S) /\ Len(b) = largo - i /\ \A j \in 1 .. largo - i : b[j] = s[i + j]
    <3>1. \A j \in i + 1 .. largo : s[j] \in S
      BY <1>1
    <3>2. /\ b \in Seq(S) /\ Len(b) = IF i + 1 <= largo THEN largo - (i + 1) + 1 ELSE 0
          /\ \A j \in 1 .. largo - (i + 1) + 1 : b[j] = s[(i + 1) + j - 1]
      BY <1>1, <3>1, SubSeqProperties
    <3> QED BY <1>1, <3>2
  <2> HIDE DEF a, b
  <2>3. /\ a \o b \in Seq(S) /\ Len(a \o b) = largo - 1
        /\ \A j \in 1 .. largo - 1 : (a \o b)[j] = IF j < i THEN s[j] ELSE s[j + 1]
    <3>1. /\ a \o b \in Seq(S) /\ Len(a \o b) = Len(a) + Len(b)
          /\ \A j \in 1 .. Len(a) + Len(b) : (a \o b)[j] =
                      IF j <= Len(a) THEN a[j] ELSE b[j - Len(a)]
      BY <2>1, <2>2, ConcatProperties
    <3>2. ASSUME NEW j \in 1 .. largo - 1 PROVE (a \o b)[j] = IF j < i THEN s[j] ELSE s[j + 1]
      <4>1. CASE j < i
        BY <1>1, <2>1, <2>2, <3>1, <4>1
      <4>2. CASE ~(j < i)
        <5>1. j - (i - 1) \in 1 .. largo - i /\ i + (j - (i - 1)) = j + 1
          BY <1>1, <4>2
        <5>2. (a \o b)[j] = b[j - (i - 1)]
          BY <1>1, <2>1, <2>2, <3>1, <4>2
        <5> QED BY <2>2, <4>2, <5>1, <5>2
      <4> QED BY <4>1, <4>2
    <3> QED BY <1>1, <2>1, <2>2, <3>1, <3>2
  <2>4. Tocar(i) = Append(a \o b, s[i])
    BY <1>3 DEF Tocar, RemoveAt, a, b, s, largo
  <2>5. /\ Tocar(i) \in Seq(S) /\ Len(Tocar(i)) = largo /\ Tocar(i)[largo] = s[i]
        /\ \A j \in 1 .. largo - 1 : Tocar(i)[j] = (a \o b)[j]
    <3> DEFINE c == a \o b
    <3>1. s[i] \in S /\ c \in Seq(S) /\ Len(c) = largo - 1
      BY <1>1, <2>3
    <3> HIDE DEF c
    <3>2. /\ Append(c, s[i]) \in Seq(S) /\ Len(Append(c, s[i])) = Len(c) + 1
          /\ \A j \in 1 .. Len(c) : Append(c, s[i])[j] = c[j]
          /\ Append(c, s[i])[Len(c) + 1] = s[i]
      BY <3>1, AppendProperties
    <3>3. Tocar(i) = Append(c, s[i])
      BY <2>4 DEF c
    <3>4. (largo - 1) + 1 = largo
      BY <1>1
    <3>5. \A j \in 1 .. largo - 1 : Tocar(i)[j] = c[j]
      BY <3>1, <3>2, <3>3
    <3> QED BY <3>1, <3>2, <3>3, <3>4, <3>5 DEF c
  <2>6. Reubica(f, Tocar(i), largo, s)
    <3>1. f \in [1 .. largo -> 1 .. largo] /\ \A j, k \in 1 .. largo : f[j] = f[k] => j = k
      BY <1>1
    <3>2. ASSUME NEW j \in 1 .. largo PROVE Tocar(i)[j] = s[f[j]]
      <4>1. CASE j = largo
        BY <1>1, <2>5, <4>1
      <4>2. CASE j # largo
        <5>1. j \in 1 .. largo - 1 /\ f[j] = IF j < i THEN j ELSE j + 1
          BY <1>1, <4>2
        <5> QED BY <2>3, <2>5, <5>1
      <4> QED BY <4>1, <4>2
    <3> HIDE DEF f
    <3> QED BY <3>1, <3>2 DEF Reubica, largo
  <2> HIDE DEF f
  <2> QED BY <2>5, <2>6 DEF largo, s
<1> QED BY <1>2, <1>3

(* A new entry goes last, and the first one goes if there is no room.      *)
LEMMA TlbAgregada ==
  ASSUME NEW S, tabla_tlb \in Seq(S), Len(tabla_tlb) <= ENTRADAS_TLB, NEW e \in S
  PROVE  \E n \in Nat : 
           /\ AgregarEntradaTlb(e) \in Seq(S) /\ Len(AgregarEntradaTlb(e)) = n + 1
           /\ n + 1 <= ENTRADAS_TLB /\ AgregarEntradaTlb(e)[n + 1] = e
           /\ \E f : Reubica(f, AgregarEntradaTlb(e), n, tabla_tlb)
<1> DEFINE s == tabla_tlb
           c == IF Len(s) = ENTRADAS_TLB THEN Tail(s) ELSE s
           n == Len(c)
           d == IF Len(s) = ENTRADAS_TLB THEN 1 ELSE 0
           f == [j \in 1 .. n |-> j + d]
<1>1. s \in Seq(S) /\ Len(s) \in Nat /\ ENTRADAS_TLB \in Nat /\ ENTRADAS_TLB > 0
  BY TlbAssumption
<1>2. /\ c \in Seq(S) /\ n \in Nat /\ n = Len(s) - d /\ n + 1 <= ENTRADAS_TLB
      /\ \A j \in 1 .. n : c[j] = s[j + d]
  <2>1. CASE Len(s) = ENTRADAS_TLB
    <3>1. s # <<>>
      BY <1>1, <2>1
    <3>2. /\ Tail(s) \in Seq(S) /\ Len(Tail(s)) = Len(s) - 1
          /\ \A j \in 1 .. Len(Tail(s)) : Tail(s)[j] = s[j + 1]
      BY <1>1, <3>1, HeadTailProperties
    <3> QED BY <1>1, <2>1, <3>2
  <2>2. CASE Len(s) # ENTRADAS_TLB
    BY <1>1, <2>2
  <2> QED BY <2>1, <2>2
<1>3. AgregarEntradaTlb(e) = Append(c, e)
  BY DEF AgregarEntradaTlb
<1>4. d \in 0 .. 1
  OBVIOUS
<1> HIDE DEF c, d, s
<1>5. /\ Append(c, e) \in Seq(S) /\ Len(Append(c, e)) = n + 1
      /\ \A j \in 1 .. n : Append(c, e)[j] = c[j]
      /\ Append(c, e)[n + 1] = e
  BY <1>2, AppendProperties
<1> HIDE DEF n
<1>6. Reubica(f, Append(c, e), n, s)
  <2>1. f \in [1 .. n -> 1 .. Len(s)] /\ \A j, k \in 1 .. n : f[j] = f[k] => j = k
    BY <1>1, <1>2, <1>4
  <2>2. \A j \in 1 .. n : Append(c, e)[j] = s[f[j]]
    BY <1>2, <1>5
  <2> HIDE DEF f
  <2> QED BY <2>1, <2>2 DEF Reubica
<1> HIDE DEF f
<1> QED BY <1>2, <1>3, <1>5, <1>6 DEF s

(* The TLB is a list, as TlbAcotada says.                                  *)
TlbLista == (\E S : tabla_tlb \in Seq(S)) /\ TlbAcotada

(* The entry of a page in the TLB is the only one it has there.            *)
LEMMA UnicaEnTlb ==
  ASSUME TlbLista, NEW n, PosicionesTlb(n) # {}
  PROVE  EnTlb(n) \in 1 .. Len(tabla_tlb) /\ tabla_tlb[EnTlb(n)].pagina = n
<1>1. PICK i \in 1 .. Len(tabla_tlb) : tabla_tlb[i].pagina = n
  BY DEF PosicionesTlb
<1>2. \A j \in PosicionesTlb(n) : i <= j
  <2>1. Len(tabla_tlb) \in Nat
    BY DEF TlbLista
  <2> QED BY <1>1, <2>1 DEF PosicionesTlb, TlbLista, TlbAcotada
<1>3. i \in PosicionesTlb(n)
  BY <1>1 DEF PosicionesTlb
<1>4. EnTlb(n) \in PosicionesTlb(n)
  BY <1>2, <1>3 DEF EnTlb
<1> QED BY <1>4 DEF PosicionesTlb

(* What a step makes of the TLB: nothing, an empty one, one with an entry  *)
(* used, or one with an entry more, of a page that was not there.          *)
LEMMA PasosDeTlb ==
  ASSUME NextTraduccion
  PROVE  \/ tabla_tlb' = tabla_tlb \/ tabla_tlb' = <<>>
         \/ \E n : PosicionesTlb(n) # {} /\ tabla_tlb' = Tocar(EnTlb(n))
         \/ \E p \in Procesos, dir \in Direcciones : MmuFallo(p, dir) /\ ~caida'
<1>1. CASE Cpu
  <2>1. ASSUME NEW p \in Procesos, \/ Ejecutar(p) \/ AtenderInterrupcion(p)
                                   \/ EjecutarIO(p) \/ EjecutarExit(p)
        PROVE  tabla_tlb' = tabla_tlb \/ tabla_tlb' = <<>>
    BY <2>1 DEF Ejecutar, LimpiarTlb, AtenderInterrupcion, EjecutarIO, EjecutarExit, Dejar, cpu
  <2>2. ASSUME NEW p \in Procesos, NEW dir \in Direcciones, MmuAcierto(p, dir)
        PROVE  \E n : PosicionesTlb(n) # {} /\ tabla_tlb' = Tocar(EnTlb(n))
    BY <2>2 DEF MmuAcierto
  <2>3. ASSUME NEW p \in Procesos, NEW dir \in Direcciones, MmuFallo(p, dir)
        PROVE  tabla_tlb' = tabla_tlb \/ ~caida'
    BY <2>3 DEF MmuFallo
  <2>4. CASE Acceder
    BY <2>4 DEF Acceder
  <2> QED BY <1>1, <2>1, <2>2, <2>3, <2>4 DEF Cpu
<1>2. CASE AtenderKernel
  BY <1>2 DEF AtenderKernel, cpu
<1>3. ASSUME NEW p \in Procesos, Desbloquear(p) \/ VolverDeSuspension(p)
      PROVE  tabla_tlb' = tabla_tlb
  BY <1>3 DEF Desbloquear, VolverDeSuspension, cpu
<1>4. CASE Terminado
  BY <1>4 DEF Terminado, cpu
<1> QED BY <1>1, <1>2, <1>3, <1>4 DEF NextTraduccion

(* The TLB stays a list with room and without repetitions.                 *)
LEMMA PasoTlbLista ==
  ASSUME TlbLista, [NextTraduccion]_varsTraduccion
  PROVE  TlbLista'
<1>1. PICK S : tabla_tlb \in Seq(S)
  BY DEF TlbLista
<1>2. CASE tabla_tlb' = tabla_tlb
  BY <1>2 DEF TlbLista, TlbAcotada
<1>3. CASE tabla_tlb' = <<>>
  <2>1. tabla_tlb' \in Seq({}) /\ Len(tabla_tlb') = 0
    BY <1>3
  <2> QED BY <2>1, TlbAssumption DEF TlbLista, TlbAcotada
<1>4. ASSUME NEW n, PosicionesTlb(n) # {}, tabla_tlb' = Tocar(EnTlb(n))
      PROVE  TlbLista'
  <2>1. EnTlb(n) \in 1 .. Len(tabla_tlb)
    BY <1>4, UnicaEnTlb
  <2>2. tabla_tlb' \in Seq(S) /\ Len(tabla_tlb') = Len(tabla_tlb)
    BY <1>1, <1>4, <2>1, TlbTocada
  <2>3. PICK f : Reubica(f, tabla_tlb', Len(tabla_tlb), tabla_tlb)
    BY <1>1, <1>4, <2>1, TlbTocada
  <2>4. \A i, j \in 1 .. Len(tabla_tlb) :
          tabla_tlb'[i].pagina = tabla_tlb'[j].pagina => i = j
    <3> SUFFICES ASSUME NEW i \in 1 .. Len(tabla_tlb), NEW j \in 1 .. Len(tabla_tlb),
                        tabla_tlb'[i].pagina = tabla_tlb'[j].pagina
                 PROVE  i = j
      OBVIOUS
    <3>1. /\ f[i] \in 1 .. Len(tabla_tlb) /\ tabla_tlb'[i] = tabla_tlb[f[i]]
          /\ f[j] \in 1 .. Len(tabla_tlb) /\ tabla_tlb'[j] = tabla_tlb[f[j]]
          /\ f[i] = f[j] => i = j
      BY <2>3 DEF Reubica
    <3>2. tabla_tlb[f[i]].pagina = tabla_tlb[f[j]].pagina
      BY <3>1
    <3> QED BY <3>1, <3>2 DEF TlbLista, TlbAcotada
  <2> QED BY <2>2, <2>4 DEF TlbLista, TlbAcotada
<1>5. ASSUME NEW n, NEW m, PosicionesTlb(n) = {},
             tabla_tlb' = AgregarEntradaTlb([pagina |-> n, marco |-> m])
      PROVE  TlbLista'
  <2> DEFINE e == [pagina |-> n, marco |-> m]
             R == S \union {e}
  <2>1. tabla_tlb \in Seq(R) /\ e \in R /\ Len(tabla_tlb) <= ENTRADAS_TLB
    BY <1>1 DEF TlbLista, TlbAcotada
  <2>2. e.pagina = n /\ \A k \in 1 .. Len(tabla_tlb) : tabla_tlb[k].pagina # n
    BY <1>5 DEF PosicionesTlb
  <2> HIDE DEF e, R
  <2>3. PICK k \in Nat : 
           /\ tabla_tlb' \in Seq(R) /\ Len(tabla_tlb') = k + 1
           /\ k + 1 <= ENTRADAS_TLB /\ tabla_tlb'[k + 1] = e
           /\ \E f : Reubica(f, tabla_tlb', k, tabla_tlb)
    <3>1. tabla_tlb' = AgregarEntradaTlb(e)
      BY <1>5 DEF e
    <3> QED BY <2>1, <3>1, TlbAgregada
  <2>4. PICK f : Reubica(f, tabla_tlb', k, tabla_tlb)
    BY <2>3
  <2>5. \A i, j \in 1 .. k : tabla_tlb'[i].pagina = tabla_tlb'[j].pagina => i = j
    BY <2>4 DEF Reubica, TlbLista, TlbAcotada
  <2>6. \A i \in 1 .. k : tabla_tlb'[i].pagina # tabla_tlb'[k + 1].pagina
    BY <2>2, <2>3, <2>4 DEF Reubica
  <2>7. \A i, j \in 1 .. k + 1 : tabla_tlb'[i].pagina = tabla_tlb'[j].pagina => i = j
    <3>1. \A i \in 1 .. k + 1 : i \in 1 .. k \/ i = k + 1
      BY <2>3
    <3> QED BY <2>5, <2>6, <3>1
  <2> QED BY <2>3, <2>7 DEF TlbLista, TlbAcotada
<1>6. ASSUME NEW p \in Procesos, NEW dir \in Direcciones, MmuFallo(p, dir), ~caida'
      PROVE  TlbLista'
  BY <1>5, <1>6 DEF MmuFallo
<1> QED BY <1>2, <1>3, <1>4, <1>6, PasosDeTlb DEF varsTraduccion, cpu

(* However the CPU fills, uses and empties it, the TLB never outgrows its  *)
(* entries and never holds a page twice (cpu.c 315-354).                   *)
THEOREM TlbEnSuTamanio == SpecTraduccion => []TlbAcotada
<1>1. InitTraduccion => TlbLista
  <2>1. ASSUME InitTraduccion PROVE tabla_tlb \in Seq({}) /\ Len(tabla_tlb) = 0
    BY <2>1 DEF InitTraduccion
  <2> QED BY <2>1, TlbAssumption DEF TlbLista, TlbAcotada
<1>2. TlbLista => TlbAcotada
  BY DEF TlbLista
<1> QED BY <1>1, <1>2, PasoTlbLista, PTL DEF SpecTraduccion
-----------------------------------------------------------------------------
(* The whole system, when the pages a program uses fit in the frames of its*)
(* process.  Without that a page that is replaced stays in the TLB: see the*)
(* run tlb_vieja.                                                          *)
PaginasUsadas == {n \in Paginas : \E dir \in Direcciones : NumeroPagina(dir) = n}
Holgura == Cardinality(PaginasUsadas) <= MARCOS_POR_PROCESO

(* The pcb of a process that exists says where its tables are.             *)
TablasDeVivos ==
  \A p \in Procesos : Vivo(p) => tabla_paginas[p] # -1 /\ tam_proceso[p] \in Tamanios

(* The process whose pages the TLB has: the one that executes or, while an *)
(* interruption is served, the one that was executing.                     *)
ConTlb(p) == Ejecutando(p) \/ (atendiendo_interrupcion /\ p = pid_en_ejecucion)
KernelDeAcuerdo ==
  /\ estado \in [Procesos -> {"ready", "running", "bloqueado", "exit"}]
  /\ \A p \in Procesos :
       /\ Ejecutando(p) => p = pid_en_ejecucion /\ ~atendiendo_interrupcion
       /\ ConTlb(p) => proceso[p] = "en_memoria" /\ estado[p] \in {"running", "ready"}

TlbDe(p) ==
  \A i \in 1 .. Len(tabla_tlb) :
    /\ tabla_tlb[i].pagina \in Paginas
    /\ Presente(p, tabla_tlb[i].pagina)
    /\ MarcoDe(p, tabla_tlb[i].pagina) = tabla_tlb[i].marco
TlbDelProceso == \A p \in Procesos : ConTlb(p) => TlbDe(p)

SoloUsadas == \A p \in Procesos, n \in Paginas : Presente(p, n) => n \in PaginasUsadas

DireccionDelPedido ==
  pedido # SinPedido => \E dir \in Direcciones : direccion = DireccionFisica(pedido.marco, dir)

(* The strengthening.                                                      *)
InvSistema ==
  /\ IndInv /\ TlbLista /\ TablasDeVivos /\ KernelDeAcuerdo
  /\ TlbDelProceso /\ SoloUsadas /\ DireccionDelPedido

(* The requests of an access are about the page of its address, which is   *)
(* one of the process.                                                     *)
LEMMA EntradaCierta ==
  ASSUME RutaDePagina, TablasDeVivos, NEW p \in Procesos, NEW dir \in Direcciones, Vivo(p)
  PROVE  /\ EntradaDe(p, dir).pid = p /\ EntradaDe(p, dir).pagina = NumeroPagina(dir)
         /\ NumeroPagina(dir) \in Paginas /\ NumeroPagina(dir) \in PaginasUsadas
<1> DEFINE tam == tam_proceso[p]
           n == NumeroPagina(dir)
<1>1. tabla_paginas[p] # -1 /\ tam \in Tamanios
  BY DEF TablasDeVivos
<1> HIDE DEF tam
<1>2. dir \in Nat /\ tam \in Nat /\ dir < tam /\ tam <= PAGINAS * TAM_PAGINA
  BY <1>1, DireccionesAssumption
<1>3. EntradaDe(p, dir) = [pid |-> p, pagina |-> NumeroPagina(dir)]
  <2>1. dir \in 0 .. tam_proceso[p] - 1
    BY <1>2 DEF tam
  <2>2. T!EntradaDe(tabla_paginas[p], dir) = [pid |-> p, pagina |-> T!NumeroPagina(dir)]
    BY <1>1, <2>1 DEF RutaDePagina, T!RutaDePagina, T!SinTabla
  <2>3. T!NumeroPagina(dir) = NumeroPagina(dir)
    BY DEF T!NumeroPagina, NumeroPagina
  <2> QED BY <2>2, <2>3 DEF EntradaDe
<1>4. n \in Nat /\ n * TAM_PAGINA <= dir
  <2>1. /\ n \in Nat /\ Desplazamiento(dir) \in 0 .. (TAM_PAGINA - 1)
    BY <1>2, TP!PartesDeLaDireccion, MmuAssumption
       DEF TP!MmuAssumption, TP!NumeroPagina, NumeroPagina, TP!Desplazamiento, Desplazamiento
  <2>2. Desplazamiento(dir) = dir - n * TAM_PAGINA
    BY DEF Desplazamiento
  <2>3. n * TAM_PAGINA \in Int
    BY <2>1, MmuAssumption
  <2> HIDE DEF n
  <2> QED BY <1>2, <2>1, <2>2, <2>3, MmuAssumption
<1>5. n < PAGINAS
  <2> HIDE DEF n
  <2>1. SUFFICES ASSUME n >= PAGINAS PROVE FALSE
    BY <1>4, TamaniosAssumption
  <2>2. PICK k \in Nat : n = PAGINAS + k
    <3>1. n - PAGINAS \in Nat /\ n = PAGINAS + (n - PAGINAS)
      BY <1>4, <2>1, TamaniosAssumption
    <3> QED BY <3>1
  <2>3. n * TAM_PAGINA = PAGINAS * TAM_PAGINA + k * TAM_PAGINA
    BY <2>2, TamaniosAssumption, MmuAssumption
  <2>4. k * TAM_PAGINA \in Nat /\ PAGINAS * TAM_PAGINA \in Nat
    BY <2>2, TamaniosAssumption, MmuAssumption
  <2> QED BY <1>2, <1>4, <2>3, <2>4
<1>6. n \in Paginas
  BY <1>4, <1>5, TamaniosAssumption DEF Paginas
<1> QED BY <1>3, <1>6 DEF PaginasUsadas

(* With frames for the pages it uses a process never has one replaced.     *)
LEMMA NoSeReemplaza ==
  ASSUME Holgura, SoloUsadas, NEW p \in Procesos, NEW n \in PaginasUsadas
  PROVE  ~ReemplazarPagina(p, n)
<1> SUFFICES ASSUME ReemplazarPagina(p, n) PROVE FALSE
  OBVIOUS
<1>1. ~tabla[p][n].presencia /\ ~HayMarcoPropio(p)
  BY DEF ReemplazarPagina
<1>2. Presentes(p) \in SUBSET (PaginasUsadas \ {n})
  BY <1>1 DEF Presentes, SoloUsadas, Presente
<1>3. IsFiniteSet(PaginasUsadas)
  <2>1. IsFiniteSet(Paginas)
    BY TamaniosAssumption, FS_Interval DEF Paginas
  <2> QED BY <2>1, FS_Subset DEF PaginasUsadas
<1>4. /\ IsFiniteSet(PaginasUsadas \ {n})
      /\ Cardinality(PaginasUsadas \ {n}) = Cardinality(PaginasUsadas) - 1
  BY <1>3, FS_RemoveElement
<1>5. Cardinality(Presentes(p)) <= Cardinality(PaginasUsadas \ {n})
  BY <1>2, <1>4, FS_Subset
<1>6. /\ Cardinality(Presentes(p)) \in Nat /\ Cardinality(PaginasUsadas) \in Nat
  BY <1>3, PresentesFinitas, FS_CardinalityType
<1> QED BY <1>1, <1>4, <1>5, <1>6, MarcosAssumption DEF Holgura, HayMarcoPropio

(* The steps of the memory module that are left: those of Next but         *)
(* replacement, for pages that are used.                                   *)
ObtenerHolgado(p, n) ==
  /\ pedido = SinPedido /\ proceso[p] = "en_memoria"
  /\ MarcoPresente(p, n) \/ CargarEnMarcoLibre(p, n) \/ SinMarcoLibre(p, n)
NextHolgado ==
  \/ HiloKernel \/ Acceso \/ UNCHANGED vars
  \/ \E p \in Procesos : Readmitir(p)
  \/ \E p \in Procesos, n \in PaginasUsadas : ObtenerHolgado(p, n)

(* They are steps of module Memoria.                                       *)
LEMMA HolgadoEsPaso == ~caida /\ NextHolgado => [Next]_vars
<1>1. PaginasUsadas \subseteq Paginas
  BY DEF PaginasUsadas
<1>2. ASSUME NEW p \in Procesos, NEW n \in PaginasUsadas, ObtenerHolgado(p, n)
      PROVE  HiloCpu
  BY <1>1, <1>2 DEF ObtenerHolgado, ObtenerNumeroMarco, HiloCpu
<1> QED BY <1>2 DEF NextHolgado, Next, HiloCpu

(* They take no page from a process the kernel has in memory, and bring in *)
(* no other.                                                               *)
LEMMA PaginasEnPasoHolgado ==
  ASSUME IndInv, NextHolgado, NEW p \in Procesos, NEW n \in Paginas
  PROVE  /\ proceso[p] = "en_memoria" /\ Presente(p, n) =>
              Presente(p, n)' /\ MarcoDe(p, n)' = MarcoDe(p, n)
         /\ Presente(p, n)' => Presente(p, n) \/ n \in PaginasUsadas
<1> USE DEF Presente, MarcoDe
<1>1. tabla \in [Procesos -> [Paginas -> Entrada]] /\ HiloDeAcuerdo /\ tabla[p][n] \in Entrada
  BY DEF IndInv, TypeOK
<1>2. CASE UNCHANGED tabla
  BY <1>2
<1>3. ASSUME NEW q \in Procesos, \/ InicializarEstructuras(q) \/ Suspender(q)
                                 \/ DestruirEstructuras(q) \/ Readmitir(q)
      PROVE  UNCHANGED tabla
  BY <1>3 DEF InicializarEstructuras, Suspender, DestruirEstructuras, Readmitir
<1>4. CASE ConfirmarSuspension \/ ConfirmarDestruccion
  BY <1>2, <1>4 DEF ConfirmarSuspension, ConfirmarDestruccion
<1>5. CASE EnviarPaginaSwap
  <2>1. PICK q, k : q = hilo_kernel.pid /\ k = hilo_kernel.pagina
    OBVIOUS
  <2>2. /\ q \in Procesos /\ proceso[q] = "suspendiendo" /\ k \in Paginas
        /\ \/ UNCHANGED tabla
           \/ tabla' = [tabla EXCEPT ![q][k].presencia = FALSE, ![q][k].modificado = FALSE]
    BY <1>1, <1>5, <2>1 DEF EnviarPaginaSwap, HiloDeAcuerdo, EscribirYSoltar
  <2>3. CASE q = p /\ k = n
    <3>1. \/ UNCHANGED tabla
          \/ tabla' = [tabla EXCEPT ![p][n].presencia = FALSE, ![p][n].modificado = FALSE]
      BY <2>2, <2>3
    <3>2. tabla'[p][n].presencia => tabla[p][n].presencia
      BY <1>1, <3>1 DEF Entrada
    <3> QED BY <2>2, <2>3, <3>2
  <2>4. CASE ~(q = p /\ k = n)
    <3>1. tabla'[p][n] = tabla[p][n]
      BY <1>1, <2>2, <2>4
    <3> QED BY <3>1
  <2> QED BY <2>3, <2>4
<1>6. CASE LiberarEntrada
  <2>1. PICK q, k : q = hilo_kernel.pid /\ k = hilo_kernel.pagina
    OBVIOUS
  <2>2. /\ q \in Procesos /\ proceso[q] = "destruido" /\ k \in Paginas
        /\ tabla' = [tabla EXCEPT ![q][k] = EntradaVacia]
    BY <1>1, <1>6, <2>1 DEF LiberarEntrada, HiloDeAcuerdo
  <2>3. ~EntradaVacia.presencia
    BY DEF EntradaVacia
  <2> HIDE DEF EntradaVacia
  <2>4. CASE q = p /\ k = n
    BY <1>1, <2>2, <2>3, <2>4
  <2>5. CASE ~(q = p /\ k = n)
    <3>1. tabla'[p][n] = tabla[p][n]
      BY <1>1, <2>2, <2>5
    <3> QED BY <3>1
  <2> QED BY <2>4, <2>5
<1>7. CASE Acceso
  <2>1. PICK q, k : q = pedido.pid /\ k = pedido.pagina
    OBVIOUS
  <2>2. \/ tabla' = [tabla EXCEPT ![q][k].uso = TRUE]
        \/ tabla' = [tabla EXCEPT ![q][k].uso = TRUE, ![q][k].modificado = TRUE]
    BY <1>7, <2>1 DEF Acceso, EjecutarLectura, EjecutarEscritura, MarcarModificado
  <2>3. tabla'[p][n].presencia = tabla[p][n].presencia /\ tabla'[p][n].marco = tabla[p][n].marco
    <3>1. CASE q = p /\ k = n
      <4>1. \/ tabla' = [tabla EXCEPT ![p][n].uso = TRUE]
            \/ tabla' = [tabla EXCEPT ![p][n].uso = TRUE, ![p][n].modificado = TRUE]
        BY <2>2, <3>1
      <4> QED BY <1>1, <4>1 DEF Entrada
    <3>2. CASE ~(q = p /\ k = n)
      <4>1. tabla'[p][n] = tabla[p][n]
        BY <1>1, <2>2, <3>2
      <4> QED BY <4>1
    <3> QED BY <3>1, <3>2
  <2> QED BY <2>3
<1>8. ASSUME NEW q \in Procesos, NEW k \in PaginasUsadas, ObtenerHolgado(q, k)
      PROVE  /\ proceso[p] = "en_memoria" /\ Presente(p, n) =>
                  Presente(p, n)' /\ MarcoDe(p, n)' = MarcoDe(p, n)
             /\ Presente(p, n)' => Presente(p, n) \/ n \in PaginasUsadas
  <2>1. CASE MarcoPresente(q, k) \/ SinMarcoLibre(q, k)
    BY <2>1 DEF MarcoPresente, SinMarcoLibre
  <2>2. CASE CargarEnMarcoLibre(q, k)
    <3>1. PICK m : /\ ~tabla[q][k].presencia
                   /\ tabla' = [tabla EXCEPT ![q][k].marco = m, ![q][k].presencia = TRUE,
                                             ![q][k].uso = TRUE]
      BY <2>2 DEF CargarEnMarcoLibre
    <3>2. CASE q = p /\ k = n
      BY <3>1, <3>2
    <3>3. CASE ~(q = p /\ k = n)
      <4>1. tabla'[p][n] = tabla[p][n]
        BY <1>1, <3>1, <3>3
      <4> QED BY <4>1
    <3> QED BY <3>2, <3>3
  <2> QED BY <1>8, <2>1, <2>2 DEF ObtenerHolgado
<1> QED BY <1>2, <1>3, <1>4, <1>5, <1>6, <1>7, <1>8 DEF NextHolgado, HiloKernel, vars

(* A TLB hit asks for the frame the page is in.                            *)
LEMMA AciertoEsObtener ==
  ASSUME InvSistema, RutaDePagina, NEW p \in Procesos, NEW dir \in Direcciones,
         MmuAcierto(p, dir)
  PROVE  ObtenerHolgado(p, NumeroPagina(dir)) /\ NumeroPagina(dir) \in PaginasUsadas
<1> DEFINE n == NumeroPagina(dir)
           m == tabla_tlb[EnTlb(n)].marco
<1>1. /\ pedido = SinPedido /\ Ejecutando(p) /\ PosicionesTlb(n) # {}
      /\ pedido' = [pid |-> EntradaDe(p, dir).pid, pagina |-> EntradaDe(p, dir).pagina,
                    marco |-> m]
      /\ UNCHANGED <<proceso, tabla, marcos_disponibles, base_memoria, swap,
                     posicion_cursor, hilo_kernel, caida>>
  BY DEF MmuAcierto
<1>2. proceso[p] = "en_memoria" /\ TlbDe(p) /\ Vivo(p)
  BY <1>1 DEF InvSistema, KernelDeAcuerdo, ConTlb, TlbDelProceso, Vivo
<1>3. /\ EntradaDe(p, dir).pid = p /\ EntradaDe(p, dir).pagina = n
      /\ n \in PaginasUsadas
  BY <1>2, EntradaCierta DEF InvSistema
<1>4. EnTlb(n) \in 1 .. Len(tabla_tlb) /\ tabla_tlb[EnTlb(n)].pagina = n
  BY <1>1, UnicaEnTlb DEF InvSistema
<1>5. tabla[p][n].presencia /\ tabla[p][n].marco = m
  BY <1>2, <1>4 DEF TlbDe, Presente, MarcoDe
<1> HIDE DEF n, m
<1>6. MarcoPresente(p, n)
  BY <1>1, <1>3, <1>5 DEF MarcoPresente
<1>7. ObtenerHolgado(p, n) /\ n \in PaginasUsadas
  BY <1>1, <1>2, <1>3, <1>6 DEF ObtenerHolgado
<1> QED BY <1>7 DEF n

(* And a miss asks the memory module, which has room for it.               *)
LEMMA FalloEsObtener ==
  ASSUME Holgura, InvSistema, RutaDePagina, NEW p \in Procesos, NEW dir \in Direcciones,
         MmuFallo(p, dir)
  PROVE  ObtenerHolgado(p, NumeroPagina(dir)) /\ NumeroPagina(dir) \in PaginasUsadas
<1>1. /\ Ejecutando(p)
      /\ ObtenerNumeroMarco(EntradaDe(p, dir).pid, EntradaDe(p, dir).pagina)
  BY DEF MmuFallo
<1>2. proceso[p] = "en_memoria" /\ Vivo(p)
  BY <1>1 DEF InvSistema, KernelDeAcuerdo, ConTlb, Vivo
<1>3. /\ EntradaDe(p, dir).pid = p /\ EntradaDe(p, dir).pagina = NumeroPagina(dir)
      /\ NumeroPagina(dir) \in PaginasUsadas
  BY <1>2, EntradaCierta DEF InvSistema
<1>4. ~ReemplazarPagina(p, NumeroPagina(dir))
  BY <1>3, NoSeReemplaza DEF InvSistema
<1>5. ObtenerNumeroMarco(p, NumeroPagina(dir))
  BY <1>1, <1>3
<1> QED BY <1>3, <1>4, <1>5 DEF ObtenerNumeroMarco, ObtenerHolgado

(* Every step of the system is one of the memory module, or leaves it alone*)
LEMMA PasoEnMemoria ==
  ASSUME Holgura, InvSistema, RutaDePagina, NextTraduccion
  PROVE  NextHolgado /\ [Next]_vars
<1>1. CASE ~caida /\ Cpu
  <2>1. ASSUME NEW p \in Procesos, \/ Ejecutar(p) \/ AtenderInterrupcion(p)
                                   \/ EjecutarIO(p) \/ EjecutarExit(p)
        PROVE  UNCHANGED vars
    BY <2>1 DEF Ejecutar, AtenderInterrupcion, EjecutarIO, EjecutarExit, Dejar
  <2>2. ASSUME NEW p \in Procesos, NEW dir \in Direcciones,
               MmuAcierto(p, dir) \/ MmuFallo(p, dir)
        PROVE  NextHolgado
    BY <2>2, AciertoEsObtener, FalloEsObtener DEF NextHolgado
  <2>3. ASSUME Acceder PROVE NextHolgado
    BY <2>3 DEF Acceder, NextHolgado
  <2>4. NextHolgado
    BY <1>1, <2>1, <2>2, <2>3 DEF Cpu, NextHolgado
  <2> QED BY <1>1, <2>4, HolgadoEsPaso
<1>2. CASE ~caida /\ AtenderKernel
  <2>1. HiloKernel
    BY <1>2 DEF AtenderKernel, CrearEstructuras, DestruirDelTodo, HiloKernel
  <2> QED BY <1>2, <2>1, HolgadoEsPaso DEF NextHolgado
<1>3. CASE ~caida /\ \E p \in Procesos : Desbloquear(p) \/ VolverDeSuspension(p)
  <2>1. NextHolgado
    BY <1>3 DEF Desbloquear, VolverDeSuspension, NextHolgado
  <2> QED BY <1>3, <2>1, HolgadoEsPaso
<1>4. CASE Terminado
  <2>1. UNCHANGED vars
    BY <1>4 DEF Terminado, SinTrabajo
  <2> QED BY <2>1 DEF NextHolgado
<1> QED BY <1>1, <1>2, <1>3, <1>4 DEF NextTraduccion

(* The tables are made before a process is served and destroyed after.     *)
LEMMA PasoTablasDeVivos ==
  ASSUME InvSistema, TP!IndInvTablas, NextTraduccion
  PROVE  TablasDeVivos'
<1>1. /\ tabla_paginas \in [Procesos -> Nat \union {-1}] /\ tam_proceso \in [Procesos -> Nat]
      /\ Len(tablas_primer_nivel) \in Nat
  BY DEF TP!IndInvTablas, TP!TiposTablas, TP!SinTabla
<1>2. /\ TypeOK /\ HiloDeAcuerdo /\ TablasDeVivos
      /\ proceso \in [Procesos -> {"sin_estructuras", "en_memoria", "suspendiendo",
                                   "suspendido", "destruido"}]
  BY DEF InvSistema, IndInv, TypeOK
<1>3. ASSUME UNCHANGED <<proceso, tablas>> PROVE TablasDeVivos'
  BY <1>2, <1>3 DEF TablasDeVivos, Vivo, tablas
<1>4. ASSUME UNCHANGED tablas, NEW p \in Procesos, NEW v, Vivo(p),
             proceso' = [proceso EXCEPT ![p] = v]
      PROVE  TablasDeVivos'
  BY <1>2, <1>4 DEF TablasDeVivos, Vivo, tablas
<1>5. ASSUME NEW p \in Procesos, NEW tam \in Tamanios, CrearEstructuras(p, tam)
      PROVE  TablasDeVivos'
  <2>1. /\ proceso' = [proceso EXCEPT ![p] = "en_memoria"]
        /\ tabla_paginas' = [tabla_paginas EXCEPT ![p] = Len(tablas_primer_nivel)]
        /\ tam_proceso' = [tam_proceso EXCEPT ![p] = tam]
    BY <1>5 DEF CrearEstructuras, InicializarEstructuras, T!CrearTablas
  <2>2. ASSUME NEW q \in Procesos, Vivo(q)'
        PROVE  tabla_paginas'[q] # -1 /\ tam_proceso'[q] \in Tamanios
    <3>1. CASE q = p
      BY <1>1, <2>1, <3>1
    <3>2. CASE q # p
      BY <1>1, <1>2, <2>1, <2>2, <3>2 DEF TablasDeVivos, Vivo
    <3> QED BY <3>1, <3>2
  <2> QED BY <2>2 DEF TablasDeVivos
<1>6. CASE DestruirDelTodo
  <2>1. PICK p : p = hilo_kernel.pid
    OBVIOUS
  <2>2. /\ p \in Procesos /\ proceso[p] = "destruido" /\ UNCHANGED <<proceso, tam_proceso>>
        /\ tabla_paginas' = [tabla_paginas EXCEPT ![p] = -1]
    BY <1>2, <1>6, <2>1 DEF DestruirDelTodo, ConfirmarDestruccion, HiloDeAcuerdo,
                            T!DestruirTablas, T!SinTabla
  <2> QED BY <1>1, <1>2, <2>2 DEF TablasDeVivos, Vivo
<1>7. ASSUME NEW p \in Procesos, UNCHANGED tablas,
             Suspender(p) \/ DestruirEstructuras(p) \/ Readmitir(p)
      PROVE  TablasDeVivos'
  BY <1>4, <1>7 DEF Suspender, DestruirEstructuras, Readmitir, Vivo
<1>8. CASE ConfirmarSuspension /\ UNCHANGED tablas
  <2>1. PICK p : p = hilo_kernel.pid
    OBVIOUS
  <2>2. /\ p \in Procesos /\ proceso[p] = "suspendiendo"
        /\ proceso' = [proceso EXCEPT ![p] = "suspendido"]
    BY <1>2, <1>8, <2>1 DEF ConfirmarSuspension, HiloDeAcuerdo
  <2> QED BY <1>4, <1>8, <2>2 DEF Vivo
<1>9. CASE (EnviarPaginaSwap \/ LiberarEntrada) /\ UNCHANGED tablas
  BY <1>3, <1>9 DEF EnviarPaginaSwap, LiberarEntrada
<1>10. CASE Cpu
  <2>1. ASSUME NEW p \in Procesos, \/ Ejecutar(p) \/ AtenderInterrupcion(p)
                                   \/ EjecutarIO(p) \/ EjecutarExit(p)
        PROVE  UNCHANGED <<proceso, tablas>>
    BY <2>1 DEF Ejecutar, AtenderInterrupcion, EjecutarIO, EjecutarExit, Dejar, vars
  <2>2. ASSUME NEW p \in Procesos, NEW dir \in Direcciones,
               MmuAcierto(p, dir) \/ MmuFallo(p, dir)
        PROVE  UNCHANGED <<proceso, tablas>>
    BY <2>2 DEF MmuAcierto, MmuFallo, ObtenerNumeroMarco, MarcoPresente,
                CargarEnMarcoLibre, SinMarcoLibre, ReemplazarPagina
  <2>3. ASSUME Acceder PROVE UNCHANGED <<proceso, tablas>>
    BY <2>3 DEF Acceder, Acceso, EjecutarLectura, EjecutarEscritura
  <2> QED BY <1>3, <1>10, <2>1, <2>2, <2>3 DEF Cpu
<1>11. CASE AtenderKernel
  BY <1>5, <1>6, <1>7, <1>8, <1>9, <1>11 DEF AtenderKernel
<1>12. ASSUME NEW p \in Procesos, Desbloquear(p) \/ VolverDeSuspension(p)
       PROVE  TablasDeVivos'
  BY <1>3, <1>7, <1>12 DEF Desbloquear, VolverDeSuspension, vars
<1>13. CASE Terminado
  BY <1>3, <1>13 DEF Terminado, SinTrabajo, vars
<1> QED BY <1>10, <1>11, <1>12, <1>13 DEF NextTraduccion

(* The kernel does not touch the process whose pages the TLB has, and it   *)
(* comes to have those of another only when it is empty.                   *)
LEMMA PasoKernel ==
  ASSUME InvSistema, NextTraduccion
  PROVE  /\ KernelDeAcuerdo'
         /\ \A q \in Procesos : ConTlb(q)' => tabla_tlb' = <<>> \/ ConTlb(q)
<1> DEFINE Meta == /\ KernelDeAcuerdo'
                   /\ \A q \in Procesos : ConTlb(q)' => tabla_tlb' = <<>> \/ ConTlb(q)
<1>1. /\ KernelDeAcuerdo /\ HiloDeAcuerdo
      /\ estado \in [Procesos -> {"ready", "running", "bloqueado", "exit"}]
      /\ proceso \in [Procesos -> {"sin_estructuras", "en_memoria", "suspendiendo",
                                   "suspendido", "destruido"}]
  BY DEF InvSistema, IndInv, TypeOK, KernelDeAcuerdo
<1> USE DEF ConTlb, Ejecutando
<1>2. ASSUME UNCHANGED <<estado, pid_en_ejecucion, atendiendo_interrupcion>>,
             \A q \in Procesos : ConTlb(q) => proceso'[q] = "en_memoria"
      PROVE  Meta
  BY <1>1, <1>2 DEF KernelDeAcuerdo
<1>3. ASSUME UNCHANGED <<proceso, estado, pid_en_ejecucion, atendiendo_interrupcion>>
      PROVE  Meta
  BY <1>1, <1>2, <1>3 DEF KernelDeAcuerdo
<1>4. ASSUME NEW p \in Procesos, Ejecutar(p) PROVE Meta
  <2>1. /\ proceso[p] = "en_memoria" /\ UNCHANGED proceso
        /\ \A q \in Procesos : ~Ejecutando(q)
        /\ estado' = [estado EXCEPT ![p] = "running"]
        /\ tabla_tlb' = IF atendiendo_interrupcion /\ p = pid_en_ejecucion THEN tabla_tlb ELSE <<>>
        /\ pid_en_ejecucion' = p /\ atendiendo_interrupcion' = FALSE
    BY <1>4 DEF Ejecutar, Pasar, LimpiarTlb, vars
  <2> QED BY <1>1, <2>1 DEF KernelDeAcuerdo
<1>5. ASSUME NEW p \in Procesos, AtenderInterrupcion(p) PROVE Meta
  <2>1. /\ UNCHANGED <<proceso, pid_en_ejecucion>> /\ estado[p] = "running"
        /\ estado' = [estado EXCEPT ![p] = "ready"] /\ atendiendo_interrupcion' = TRUE
    BY <1>5 DEF AtenderInterrupcion, Pasar, vars
  <2> QED BY <1>1, <2>1 DEF KernelDeAcuerdo
<1>6. ASSUME NEW p \in Procesos, EjecutarIO(p) \/ EjecutarExit(p) PROVE Meta
  <2>1. /\ UNCHANGED <<proceso, cpu>> /\ estado[p] = "running"
        /\ \/ estado' = [estado EXCEPT ![p] = "bloqueado"]
           \/ estado' = [estado EXCEPT ![p] = "exit"]
    BY <1>6 DEF EjecutarIO, EjecutarExit, Dejar, Pasar, vars
  <2> QED BY <1>1, <2>1 DEF KernelDeAcuerdo, cpu
<1>7. ASSUME NEW p \in Procesos, Desbloquear(p) PROVE Meta
  <2>1. /\ UNCHANGED <<proceso, cpu>> /\ estado[p] = "bloqueado"
        /\ estado' = [estado EXCEPT ![p] = "ready"]
    BY <1>7 DEF Desbloquear, Pasar, vars
  <2> QED BY <1>1, <2>1 DEF KernelDeAcuerdo, cpu
<1>8. ASSUME NEW p \in Procesos, VolverDeSuspension(p) PROVE Meta
  <2>1. /\ UNCHANGED cpu /\ estado[p] = "bloqueado"
        /\ proceso' = [proceso EXCEPT ![p] = "en_memoria"]
        /\ estado' = [estado EXCEPT ![p] = "ready"]
    BY <1>8 DEF VolverDeSuspension, Readmitir, Pasar
  <2> QED BY <1>1, <2>1 DEF KernelDeAcuerdo, cpu
<1>9. CASE Cpu
  <2>1. ASSUME NEW p \in Procesos, NEW dir \in Direcciones,
               MmuAcierto(p, dir) \/ MmuFallo(p, dir)
        PROVE  UNCHANGED <<proceso, estado, pid_en_ejecucion, atendiendo_interrupcion>>
    BY <2>1 DEF MmuAcierto, MmuFallo, ObtenerNumeroMarco, MarcoPresente,
                CargarEnMarcoLibre, SinMarcoLibre, ReemplazarPagina
  <2>2. ASSUME Acceder
        PROVE  UNCHANGED <<proceso, estado, pid_en_ejecucion, atendiendo_interrupcion>>
    BY <2>2 DEF Acceder, Acceso, EjecutarLectura, EjecutarEscritura
  <2> QED BY <1>3, <1>4, <1>5, <1>6, <1>9, <2>1, <2>2 DEF Cpu
<1>10. CASE AtenderKernel
  <2>1. UNCHANGED <<estado, pid_en_ejecucion, atendiendo_interrupcion>>
    BY <1>10 DEF AtenderKernel, cpu
  <2>2. \A q \in Procesos : ConTlb(q) =>
          proceso[q] = "en_memoria" /\ estado[q] \in {"running", "ready"}
    BY <1>1 DEF KernelDeAcuerdo
  <2>3. ASSUME NEW p \in Procesos, ~ConTlb(p), NEW v, proceso' = [proceso EXCEPT ![p] = v]
        PROVE  Meta
    <3>1. \A q \in Procesos : ConTlb(q) => proceso'[q] = "en_memoria"
      BY <1>1, <2>2, <2>3
    <3> QED BY <1>2, <2>1, <3>1
  <2>4. ASSUME NEW p \in Procesos, NEW tam \in Tamanios, CrearEstructuras(p, tam)
        PROVE  Meta
    BY <2>2, <2>3, <2>4 DEF CrearEstructuras, InicializarEstructuras
  <2>5. ASSUME NEW p \in Procesos, \/ estado[p] = "bloqueado" /\ Suspender(p)
                                   \/ estado[p] = "exit" /\ DestruirEstructuras(p)
        PROVE  Meta
    BY <2>2, <2>3, <2>5 DEF Suspender, DestruirEstructuras
  <2>6. CASE ConfirmarSuspension
    <3>1. PICK p : p = hilo_kernel.pid
      OBVIOUS
    <3>2. /\ p \in Procesos /\ proceso[p] = "suspendiendo"
          /\ proceso' = [proceso EXCEPT ![p] = "suspendido"]
      BY <1>1, <2>6, <3>1 DEF ConfirmarSuspension, HiloDeAcuerdo
    <3> QED BY <2>2, <2>3, <3>2
  <2>7. CASE EnviarPaginaSwap \/ LiberarEntrada \/ DestruirDelTodo
    BY <1>3, <2>1, <2>7 DEF EnviarPaginaSwap, LiberarEntrada, DestruirDelTodo, ConfirmarDestruccion
  <2> QED BY <1>10, <2>4, <2>5, <2>6, <2>7 DEF AtenderKernel
<1>11. CASE Terminado
  BY <1>3, <1>11 DEF Terminado, SinTrabajo, vars, cpu
<1> QED BY <1>7, <1>8, <1>9, <1>10, <1>11 DEF NextTraduccion

(* The address the CPU has for an access is that of its frame.             *)
LEMMA PasoDireccion ==
  ASSUME Holgura, InvSistema, RutaDePagina, NextTraduccion
  PROVE  DireccionDelPedido'
<1>1. ASSUME UNCHANGED <<pedido, direccion>> PROVE DireccionDelPedido'
  BY <1>1 DEF InvSistema, DireccionDelPedido
<1>2. ASSUME pedido' = SinPedido PROVE DireccionDelPedido'
  BY <1>2 DEF DireccionDelPedido
<1>3. ASSUME NEW dir \in Direcciones, direccion' = DireccionFisica(pedido'.marco, dir)
      PROVE  DireccionDelPedido'
  BY <1>3 DEF DireccionDelPedido
<1>4. CASE ~caida /\ Cpu
  <2>1. ASSUME NEW p \in Procesos, \/ Ejecutar(p) \/ AtenderInterrupcion(p)
                                   \/ EjecutarIO(p) \/ EjecutarExit(p)
        PROVE  UNCHANGED <<pedido, direccion>>
    BY <2>1 DEF Ejecutar, AtenderInterrupcion, EjecutarIO, EjecutarExit, Dejar, vars, cpu
  <2>2. ASSUME NEW p \in Procesos, NEW dir \in Direcciones, MmuAcierto(p, dir)
        PROVE  DireccionDelPedido'
    <3>1. direccion' = DireccionFisica(pedido'.marco, dir)
      BY <2>2 DEF MmuAcierto
    <3> QED BY <1>3, <3>1
  <2>3. ASSUME NEW p \in Procesos, NEW dir \in Direcciones, MmuFallo(p, dir)
        PROVE  DireccionDelPedido'
    <3>1. CASE caida'
      <4>1. ObtenerHolgado(p, NumeroPagina(dir))
        BY <2>3, FalloEsObtener
      <4>2. pedido = SinPedido /\ SinMarcoLibre(p, NumeroPagina(dir))
        BY <1>4, <3>1, <4>1 DEF ObtenerHolgado, MarcoPresente, CargarEnMarcoLibre
      <4> QED BY <1>2, <4>2 DEF SinMarcoLibre
    <3>2. CASE ~caida'
      <4>1. direccion' = DireccionFisica(pedido'.marco, dir)
        BY <2>3, <3>2 DEF MmuFallo
      <4> QED BY <1>3, <4>1
    <3> QED BY <3>1, <3>2
  <2>4. ASSUME Acceder PROVE pedido' = SinPedido
    BY <2>4 DEF Acceder, Acceso, EjecutarLectura, EjecutarEscritura
  <2> QED BY <1>1, <1>2, <1>4, <2>1, <2>2, <2>3, <2>4 DEF Cpu
<1>5. CASE AtenderKernel
  <2>1. UNCHANGED direccion
    BY <1>5 DEF AtenderKernel, cpu
  <2>2. UNCHANGED pedido
    BY <1>5 DEF AtenderKernel, CrearEstructuras, InicializarEstructuras, DestruirDelTodo,
                ConfirmarDestruccion, Suspender, DestruirEstructuras, EnviarPaginaSwap,
                ConfirmarSuspension, LiberarEntrada
  <2> QED BY <1>1, <2>1, <2>2
<1>6. ASSUME NEW p \in Procesos, Desbloquear(p) \/ VolverDeSuspension(p)
      PROVE  UNCHANGED <<pedido, direccion>>
  BY <1>6 DEF Desbloquear, VolverDeSuspension, Readmitir, vars, cpu
<1>7. ASSUME Terminado PROVE UNCHANGED <<pedido, direccion>>
  BY <1>7 DEF Terminado, SinTrabajo, vars, cpu
<1> QED BY <1>1, <1>4, <1>5, <1>6, <1>7 DEF NextTraduccion

(* What the TLB has of the process is where its pages are.                 *)
LEMMA PasoTlb ==
  ASSUME Holgura, InvSistema, RutaDePagina, NextTraduccion, IndInv', KernelDeAcuerdo',
         NEW q \in Procesos, ConTlb(q)'
  PROVE  TlbDe(q)'
<1>1. CASE tabla_tlb' = <<>>
  <2>1. Len(tabla_tlb') = 0
    BY <1>1
  <2> QED BY <2>1 DEF TlbDe
<1>2. CASE tabla_tlb' # <<>>
  <2>1. ConTlb(q)
    BY <1>2, PasoKernel
  <2>2. TlbDe(q) /\ proceso[q] = "en_memoria"
    BY <2>1 DEF InvSistema, TlbDelProceso, KernelDeAcuerdo
  <2>3. \A n \in Paginas : Presente(q, n) => Presente(q, n)' /\ MarcoDe(q, n)' = MarcoDe(q, n)
    BY <2>2, PasoEnMemoria, PaginasEnPasoHolgado DEF InvSistema
  <2>4. PICK S : tabla_tlb \in Seq(S) /\ Len(tabla_tlb) <= ENTRADAS_TLB
    BY DEF InvSistema, TlbLista, TlbAcotada
  <2> DEFINE Bien(e) == /\ e.pagina \in Paginas /\ tabla'[q][e.pagina].presencia
                        /\ tabla'[q][e.pagina].marco = e.marco
  <2>5. \A i \in 1 .. Len(tabla_tlb) : Bien(tabla_tlb[i])
    BY <2>2, <2>3 DEF TlbDe, Presente, MarcoDe
  <2>6. SUFFICES \A i \in 1 .. Len(tabla_tlb') : Bien(tabla_tlb'[i])
    BY DEF TlbDe, Presente, MarcoDe
  <2> HIDE DEF Bien
  <2>7. CASE tabla_tlb' = tabla_tlb
    BY <2>5, <2>7
  <2>8. ASSUME NEW f, NEW n \in Nat, Reubica(f, tabla_tlb', n, tabla_tlb)
        PROVE  \A i \in 1 .. n : Bien(tabla_tlb'[i])
    BY <2>5, <2>8 DEF Reubica
  <2>9. ASSUME NEW n, PosicionesTlb(n) # {}, tabla_tlb' = Tocar(EnTlb(n))
        PROVE  \A i \in 1 .. Len(tabla_tlb') : Bien(tabla_tlb'[i])
    <3>1. EnTlb(n) \in 1 .. Len(tabla_tlb)
      BY <2>9, UnicaEnTlb DEF InvSistema
    <3>2. /\ Len(tabla_tlb') = Len(tabla_tlb) /\ Len(tabla_tlb) \in Nat
          /\ \E f : Reubica(f, tabla_tlb', Len(tabla_tlb), tabla_tlb)
      BY <2>4, <2>9, <3>1, TlbTocada
    <3> QED BY <2>8, <3>2
  <2>10. ASSUME NEW p \in Procesos, NEW dir \in Direcciones, MmuFallo(p, dir), ~caida'
         PROVE  \A i \in 1 .. Len(tabla_tlb') : Bien(tabla_tlb'[i])
    <3>1. PICK n, e : n = NumeroPagina(dir) /\ e = [pagina |-> n, marco |-> pedido'.marco]
      OBVIOUS
    <3>2. tabla_tlb' = AgregarEntradaTlb(e) /\ Ejecutando(p)
      BY <2>10, <3>1 DEF MmuFallo
    <3>3. p = q
      BY <2>1, <3>2 DEF InvSistema, KernelDeAcuerdo, ConTlb
    <3>4. pedido' # SinPedido /\ pedido'.pid = q /\ pedido'.pagina = n /\ n \in Paginas
      <4>1. ObtenerHolgado(p, n) /\ n \in PaginasUsadas
        BY <2>10, <3>1, FalloEsObtener
      <4>2. \E m : pedido' = [pid |-> p, pagina |-> n, marco |-> m]
        BY <2>10, <4>1 DEF ObtenerHolgado, MarcoPresente, CargarEnMarcoLibre, SinMarcoLibre
      <4>3. pedido'.pid = q /\ pedido'.pagina = n /\ n \in Paginas
        BY <3>3, <4>1, <4>2 DEF PaginasUsadas
      <4>4. SinPedido.pid = Nada /\ Nada # q
        BY ValoresAssumption DEF SinPedido
      <4> QED BY <4>3, <4>4
    <3>5. tabla'[q][n].presencia /\ tabla'[q][n].marco = pedido'.marco
      <4>1. PedidoVigente'
        BY DEF IndInv
      <4> QED BY <3>4, <4>1 DEF PedidoVigente
    <3>6. Bien(e)
      BY <3>1, <3>4, <3>5 DEF Bien
    <3>7. tabla_tlb \in Seq(S \union {e}) /\ e \in S \union {e}
      BY <2>4
    <3>8. PICK k \in Nat : /\ Len(tabla_tlb') = k + 1 /\ tabla_tlb'[k + 1] = e
                           /\ \E f : Reubica(f, tabla_tlb', k, tabla_tlb)
      BY <2>4, <3>2, <3>7, TlbAgregada
    <3>9. \A i \in 1 .. k : Bien(tabla_tlb'[i])
      BY <2>8, <3>8
    <3>10. \A i \in 1 .. k + 1 : i \in 1 .. k \/ i = k + 1
      BY <3>8
    <3> QED BY <3>6, <3>8, <3>9, <3>10
  <2> QED BY <1>2, <2>7, <2>9, <2>10, PasosDeTlb
<1> QED BY <1>1, <1>2

(* Every step of the system keeps the invariant.                           *)
LEMMA PasoSistema ==
  ASSUME Holgura, InvSistema, RutaDePagina, TP!IndInvTablas, [NextTraduccion]_varsTraduccion
  PROVE  InvSistema' /\ [Next]_vars
<1>1. CASE UNCHANGED varsTraduccion
  <2>1. UNCHANGED <<vars, estado, cpu, tablas>>
    BY <1>1 DEF varsTraduccion
  <2>2. IndInv'
    BY <2>1, PasoMemoria DEF InvSistema
  <2>3. TlbLista'
    BY <1>1, PasoTlbLista DEF InvSistema
  <2>4. TablasDeVivos' /\ KernelDeAcuerdo'
    BY <2>1 DEF InvSistema, TablasDeVivos, Vivo, KernelDeAcuerdo, ConTlb, Ejecutando,
                vars, cpu, tablas
  <2>5. TlbDelProceso' /\ SoloUsadas' /\ DireccionDelPedido'
    BY <2>1 DEF InvSistema, TlbDelProceso, TlbDe, SoloUsadas, DireccionDelPedido, ConTlb,
                Ejecutando, Presente, MarcoDe, vars, cpu
  <2> QED BY <2>1, <2>2, <2>3, <2>4, <2>5 DEF InvSistema
<1>2. CASE NextTraduccion
  <2>1. NextHolgado /\ [Next]_vars
    BY <1>2, PasoEnMemoria
  <2>2. IndInv'
    BY <2>1, PasoMemoria DEF InvSistema
  <2>3. TlbLista' /\ TablasDeVivos' /\ KernelDeAcuerdo' /\ DireccionDelPedido'
    BY <1>2, PasoTlbLista, PasoTablasDeVivos, PasoKernel, PasoDireccion DEF InvSistema
  <2>4. TlbDelProceso'
    <3>1. \A q \in Procesos : ConTlb(q)' => TlbDe(q)'
      BY <1>2, <2>2, <2>3, PasoTlb
    <3> QED BY <3>1 DEF TlbDelProceso
  <2>5. SoloUsadas'
    <3>1. \A p \in Procesos, n \in Paginas :
            Presente(p, n)' => Presente(p, n) \/ n \in PaginasUsadas
      BY <2>1, PaginasEnPasoHolgado DEF InvSistema
    <3>2. PaginasUsadas' = PaginasUsadas
      BY DEF PaginasUsadas, Paginas, NumeroPagina
    <3> QED BY <3>1, <3>2 DEF InvSistema, SoloUsadas
  <2> QED BY <2>1, <2>2, <2>3, <2>4, <2>5 DEF InvSistema
<1> QED BY <1>1, <1>2

(* Nothing has been created at first.                                      *)
LEMMA InicioSistema == InitTraduccion => InvSistema
<1> SUFFICES ASSUME InitTraduccion PROVE InvSistema
  OBVIOUS
<1>1. Init /\ IndInv
  BY InicioMemoria DEF InitTraduccion
<1>2. tabla_tlb = <<>> /\ tabla_tlb \in Seq({}) /\ Len(tabla_tlb) = 0
  BY DEF InitTraduccion
<1>3. TlbLista /\ TlbDelProceso
  BY <1>2, TlbAssumption DEF TlbLista, TlbAcotada, TlbDelProceso, TlbDe
<1>4. TablasDeVivos
  BY <1>1 DEF Init, TablasDeVivos, Vivo
<1>5. KernelDeAcuerdo
  BY DEF InitTraduccion, KernelDeAcuerdo, ConTlb, Ejecutando
<1>6. SoloUsadas /\ DireccionDelPedido
  BY <1>1 DEF Init, SoloUsadas, Presente, EntradaVacia, DireccionDelPedido
<1> QED BY <1>1, <1>3, <1>4, <1>5, <1>6 DEF InvSistema

(* The memory module, driven by the CPU with its TLB and by the kernel,    *)
(* takes only steps of module Memoria.                                     *)
THEOREM SistemaUsaMemoria ==
  ASSUME Holgura
  PROVE  SpecTraduccion => Spec /\ []InvSistema
<1>1. InitTraduccion => InvSistema /\ Init
  BY InicioSistema DEF InitTraduccion
<1>2. InvSistema /\ RutaDePagina /\ TP!IndInvTablas /\ [NextTraduccion]_varsTraduccion
        => InvSistema' /\ [Next]_vars
  BY PasoSistema
<1>3. SpecTraduccion => []RutaDePagina
  BY RutaDeTodaDireccion
<1>4. SpecTraduccion => []TP!IndInvTablas
  BY TablasDelSistema, PTL
<1> QED BY <1>1, <1>2, <1>3, <1>4, PTL DEF SpecTraduccion, Spec

(* Emptying the TLB on EJECUTAR is enough (cpu.c 83-86): what it says of   *)
(* the process that executes is what its page table says, although a       *)
(* suspension takes its frames away and an interruption keeps the TLB.     *)
THEOREM TlbSiempreCoherente ==
  ASSUME Holgura
  PROVE  SpecTraduccion => []TlbCoherente
<1>1. InvSistema => TlbCoherente
  BY DEF InvSistema, TlbDelProceso, ConTlb, TlbDe, TlbCoherente, Presente, MarcoDe
<1> QED BY <1>1, SistemaUsaMemoria, PTL

(* What is proved of the memory module holds of the whole system: no frame *)
(* is lost or shared, the frame of an access is the one of its page, and   *)
(* the pages of every process keep what was written in them.               *)
THEOREM MemoriaEnElSistema ==
  ASSUME Holgura
  PROVE  SpecTraduccion => /\ []MarcosRepartidos /\ []PedidoVigente
                           /\ ImplementaAlmacen
  BY SistemaUsaMemoria, MarcosSinPerdida, MarcoDelPedido, MemoriaImplementaAlmacen

(* The bytes of an access that does not cross the end of its page are all  *)
(* in the frame of that page (cpu.c 214-232).                              *)
THEOREM AccesosEnSuMarco ==
  ASSUME Holgura, \A dir \in Direcciones : Desplazamiento(dir) + ANCHO <= TAM_PAGINA
  PROVE  SpecTraduccion => []AccesoEnSuMarco
<1>1. \A dir \in Direcciones : dir \in Nat
  BY DireccionesAssumption
<1>2. InvSistema => AccesoEnSuMarco
  <2> SUFFICES ASSUME InvSistema, pedido # SinPedido,
                      NEW b \in direccion .. direccion + ANCHO - 1
               PROVE  b \div TAM_PAGINA = pedido.marco
    BY DEF AccesoEnSuMarco
  <2>1. PICK dir \in Direcciones : direccion = DireccionFisica(pedido.marco, dir)
    BY DEF InvSistema, DireccionDelPedido
  <2>2. pedido.marco \in Nat
    BY TamaniosAssumption DEF InvSistema, IndInv, TypeOK, Marcos
  <2>3. b \in DireccionFisica(pedido.marco, dir) .. (DireccionFisica(pedido.marco, dir) + ANCHO - 1)
    BY <2>1
  <2>4. /\ Desplazamiento(dir) = TP!Desplazamiento(dir)
        /\ DireccionFisica(pedido.marco, dir) = TP!DireccionFisica(pedido.marco, dir)
        /\ ANCHO = TP!ANCHO
    BY DEF NumeroPagina, TP!NumeroPagina, Desplazamiento, TP!Desplazamiento,
           DireccionFisica, TP!DireccionFisica, ANCHO, TP!ANCHO
  <2> QED BY <1>1, <2>2, <2>3, <2>4, TP!AccesoConLugar, MmuAssumption DEF TP!MmuAssumption
<1> QED BY <1>2, SistemaUsaMemoria, PTL
=============================================================================

------------------------- MODULE Planificador_proofs -------------------------
(***************************************************************************)
(* Proofs about the scheduler, for any number of processes, any limit of   *)
(* multiprogramming and either algorithm.                                  *)
(***************************************************************************)
EXTENDS Planificador, FiniteSetTheorems, SequenceTheorems, WellFoundedInduction, TLAPS

(* Every non-empty set of naturals has a minimum, so Min picks it.         *)
LEMMA MinimoDeNaturales ==
  ASSUME NEW S \in SUBSET Nat, S # {}
  PROVE  Min(S) \in S /\ \A y \in S : Min(S) <= y
<1> DEFINE R == {ss \in Nat \X Nat : ss[1] < ss[2]}
<1>1. IsWellFoundedOn(R, Nat)
  BY NatLessThanWellFounded DEF OpToRel
<1>2. PICK x \in S : \A y \in S : ~(<<y, x>> \in R)
  <2> HIDE DEF R
  <2> QED BY <1>1, WFMin
<1>3. \A y \in S : x <= y
  <2>1. \A y \in S : ~(y < x)
    BY <1>2
  <2> QED BY <2>1
<1> QED BY <1>3 DEF Min

(* nueva is cola with p put in at place k.                                 *)
Insertado(nueva, cola, p, k) ==
  /\ nueva \in Seq(Pid) /\ Len(nueva) = Len(cola) + 1
  /\ \A i \in 1 .. Len(cola) + 1 :
       nueva[i] = IF i < k THEN cola[i] ELSE IF i = k THEN p ELSE cola[i - 1]

(* list_add_sorted makes the list one longer and puts the new pcb in the   *)
(* place it chose; the others keep their order.                            *)
LEMMA InsertarOrdenadoForma ==
  ASSUME NEW cola \in Seq(Pid), NEW p \in Pid, NEW r \in [Pid -> Int]
  PROVE  \E k \in 1 .. Len(cola) + 1 :
           /\ Insertado(InsertarOrdenado(cola, p, r), cola, p, k)
           /\ \A i \in 1 .. k - 1 : r[cola[i]] <= r[p]
           /\ k <= Len(cola) => r[cola[k]] > r[p]
<1> DEFINE mayores == {i \in 1 .. Len(cola) : r[cola[i]] > r[p]}
<1>1. CASE mayores = {}
  <2>1. InsertarOrdenado(cola, p, r) = Append(cola, p)
    BY <1>1 DEF InsertarOrdenado
  <2>2. Insertado(Append(cola, p), cola, p, Len(cola) + 1)
    BY AppendProperties DEF Insertado
  <2>3. \A i \in 1 .. Len(cola) : r[cola[i]] <= r[p]
    BY <1>1
  <2> QED BY <2>1, <2>2, <2>3
<1>2. CASE mayores # {}
  <2> DEFINE k == Min(mayores)
  <2>1. k \in mayores /\ \A i \in mayores : k <= i
    <3>1. mayores \in SUBSET Nat
      OBVIOUS
    <3> HIDE DEF mayores
    <3> QED BY <3>1, <1>2, MinimoDeNaturales
  <2>2. InsertarOrdenado(cola, p, r) = InsertAt(cola, k, p)
    BY <1>2 DEF InsertarOrdenado
  <2> HIDE DEF k
  <2>3. k \in 1 .. Len(cola) /\ r[cola[k]] > r[p]
    BY <2>1
  <2>4. Insertado(InsertAt(cola, k, p), cola, p, k)
    <3> DEFINE a == SubSeq(cola, 1, k - 1)
               b == SubSeq(cola, k, Len(cola))
    <3>1. InsertAt(cola, k, p) = (a \o <<p>>) \o b
      BY DEF InsertAt
    <3>2. a \in Seq(Pid) /\ Len(a) = k - 1 /\ \A i \in 1 .. k - 1 : a[i] = cola[i]
      BY <2>3
    <3>3. /\ b \in Seq(Pid) /\ Len(b) = Len(cola) - k + 1
          /\ \A i \in 1 .. Len(cola) - k + 1 : b[i] = cola[k + i - 1]
      BY <2>3
    <3> HIDE DEF a, b
    <3>4. /\ a \o <<p>> \in Seq(Pid) /\ Len(a \o <<p>>) = k
          /\ \A i \in 1 .. k : (a \o <<p>>)[i] = IF i = k THEN p ELSE cola[i]
      <4>1. <<p>> \in Seq(Pid) /\ Len(<<p>>) = 1 /\ <<p>>[1] = p
        OBVIOUS
      <4> QED BY <2>3, <3>2, <4>1, ConcatProperties
    <3> DEFINE c == a \o <<p>>
    <3>5. /\ c \o b \in Seq(Pid) /\ Len(c \o b) = Len(cola) + 1
          /\ \A i \in 1 .. Len(cola) + 1 :
               (c \o b)[i] = IF i <= k THEN c[i] ELSE b[i - k]
      <4> HIDE DEF c
      <4>1. c \in Seq(Pid) /\ Len(c) = k
        BY <3>4 DEF c
      <4>2. b \in Seq(Pid)
        BY <3>3
      <4>3. /\ c \o b \in Seq(Pid) /\ Len(c \o b) = Len(c) + Len(b)
            /\ \A i \in 1 .. Len(c) + Len(b) :
                 (c \o b)[i] = IF i <= Len(c) THEN c[i] ELSE b[i - Len(c)]
        BY <4>1, <4>2, ConcatProperties
      <4>4. Len(c) + Len(b) = Len(cola) + 1
        BY <2>3, <3>3, <4>1
      <4> QED BY <4>1, <4>3, <4>4
    <3>6. \A i \in 1 .. Len(cola) + 1 :
             (c \o b)[i] = IF i < k THEN cola[i] ELSE IF i = k THEN p ELSE cola[i - 1]
      <4> HIDE DEF c
      <4>1. \A i \in 1 .. k : c[i] = IF i = k THEN p ELSE cola[i]
        BY <3>4 DEF c
      <4>2. \A i \in k + 1 .. Len(cola) + 1 : b[i - k] = cola[i - 1]
        <5> SUFFICES ASSUME NEW i \in k + 1 .. Len(cola) + 1 PROVE b[i - k] = cola[i - 1]
          OBVIOUS
        <5>1. i - k \in 1 .. Len(cola) - k + 1
          BY <2>3
        <5>2. b[i - k] = cola[k + (i - k) - 1]
          BY <3>3, <5>1
        <5>3. k + (i - k) - 1 = i - 1
          BY <2>3
        <5> QED BY <5>2, <5>3
      <4> SUFFICES ASSUME NEW i \in 1 .. Len(cola) + 1
                   PROVE (c \o b)[i] = IF i < k THEN cola[i]
                                       ELSE IF i = k THEN p ELSE cola[i - 1]
        OBVIOUS
      <4>3. CASE i <= k
        <5>1. i \in 1 .. k /\ (c \o b)[i] = c[i]
          BY <2>3, <3>5, <4>3
        <5> QED BY <2>3, <4>1, <4>3, <5>1
      <4>4. CASE i > k
        <5>1. i \in k + 1 .. Len(cola) + 1
          BY <2>3, <4>4
        <5>2. b[i - k] = cola[i - 1]
          BY <4>2, <5>1
        <5>3. ~(i < k) /\ ~(i <= k) /\ i # k
          BY <2>3, <4>4
        <5>4. (c \o b)[i] = IF i <= k THEN c[i] ELSE b[i - k]
          BY <3>5
        <5> QED BY <5>2, <5>3, <5>4
      <4>5. i <= k \/ i > k
        BY <2>3
      <4> QED BY <4>3, <4>4, <4>5
    <3> QED BY <3>1, <3>5, <3>6 DEF Insertado
  <2>5. \A i \in 1 .. k - 1 : r[cola[i]] <= r[p]
    BY <2>1, <2>3
  <2> QED BY <2>2, <2>3, <2>4, <2>5
<1> QED BY <1>1, <1>2

(* Whatever the algorithm, the insertion gives a sequence of processes one *)
(* longer.                                                                 *)
LEMMA AgregarAReadyTipo ==
  ASSUME ready \in Seq(Pid), NEW p \in Pid, NEW r \in [Pid -> Rafagas],
         AgregarAReady(p, r)
  PROVE  ready' \in Seq(Pid) /\ Len(ready') = Len(ready) + 1
<1>1. r \in [Pid -> Int]
  BY RafagasAssumption
<1>2. CASE SRT
  <2>1. PICK k \in 1 .. Len(ready) + 1 :
          Insertado(InsertarOrdenado(ready, p, r), ready, p, k)
    BY <1>1, InsertarOrdenadoForma
  <2>2. ready' = InsertarOrdenado(ready, p, r)
    BY <1>2 DEF AgregarAReady
  <2> QED BY <2>1, <2>2 DEF Insertado
<1>3. CASE ~SRT
  BY <1>3 DEF AgregarAReady
<1> QED BY <1>2, <1>3
-----------------------------------------------------------------------------
(* The handlers take their pids in order.                                  *)
ClientesEnOrden ==
  \A p \in Pid : p > pid_contador <=> cliente[p] = "sin_pid"

(* TypeOK alone is not inductive: Head and Tail need lists that are not    *)
(* empty, and that is what the other invariants say.                       *)
IndInv ==
  /\ TypeOK /\ ClientesEnOrden /\ CpuDeUnProceso /\ ReadyContado /\ PorAdmitirContado
  /\ PrimeroDeNew

(* The handlers between their two steps are finitely many.                 *)
LEMMA PorRegistrarFinito == IsFiniteSet(PorRegistrar) /\ Cardinality(PorRegistrar) \in Nat
<1>1. IsFiniteSet(Pid)
  BY CantidadesAssumption, FS_Interval DEF Pid
<1>2. PorRegistrar \subseteq Pid
  BY DEF PorRegistrar
<1> QED
  BY <1>1, <1>2, FS_Subset, FS_CardinalityType

(* Wherever a thread takes the head of a list the list is not empty.       *)
LEMMA ListasNoVacias ==
  ASSUME IndInv
  PROVE  /\ ready_suspendido # <<>> =>
              /\ Head(ready_suspendido) \in Pid /\ Tail(ready_suspendido) \in Seq(Pid)
              /\ Len(Tail(ready_suspendido)) = Len(ready_suspendido) - 1
         /\ \/ hilo_ready.etapa = "lp_recibir"
            \/ ready_suspendido = <<>> /\ sem_sincro_ready > 0
            => /\ new # <<>> /\ Head(new) \in Pid /\ Tail(new) \in Seq(Pid)
               /\ Len(Tail(new)) = Len(new) - 1
         /\ sem_hay_pcb_ready > 0 =>
              /\ ready # <<>> /\ Head(ready) \in Pid /\ Tail(ready) \in Seq(Pid)
              /\ Len(Tail(ready)) = Len(ready) - 1
         /\ sem_sincro_running > 0 =>
              \E p \in Pid : /\ running = <<p>> /\ Head(running) = p
                             /\ Tail(running) = <<>> /\ Tail(running) \in Seq(Pid)
         /\ dispatch_kernel # <<>> =>
              /\ Head(dispatch_kernel) \in MensajeDelCpu
              /\ Tail(dispatch_kernel) \in Seq(MensajeDelCpu)
         /\ dispatch_cpu # <<>> =>
              /\ Head(dispatch_cpu).pid \in Pid
              /\ Tail(dispatch_cpu) \in Seq(MensajeAlCpu)
<1>1. TypeOK /\ CpuDeUnProceso /\ ReadyContado /\ PorAdmitirContado /\ PrimeroDeNew
  BY DEF IndInv
<1>2. ready_suspendido # <<>> =>
        /\ Head(ready_suspendido) \in Pid /\ Tail(ready_suspendido) \in Seq(Pid)
        /\ Len(Tail(ready_suspendido)) = Len(ready_suspendido) - 1
  BY <1>1 DEF TypeOK, TiposListas, TiposSemaforos
<1>3. ASSUME \/ hilo_ready.etapa = "lp_recibir"
             \/ ready_suspendido = <<>> /\ sem_sincro_ready > 0
      PROVE  /\ new # <<>> /\ Head(new) \in Pid /\ Tail(new) \in Seq(Pid)
             /\ Len(Tail(new)) = Len(new) - 1
  <2>1. Len(new) \in Nat /\ Len(ready_suspendido) \in Nat /\ sem_sincro_ready \in Nat
    BY <1>1 DEF TypeOK, TiposListas, TiposSemaforos
  <2>2. CASE hilo_ready.etapa = "lp_recibir"
    BY <1>1, <2>2 DEF PrimeroDeNew, TypeOK, TiposListas
  <2>3. CASE ready_suspendido = <<>> /\ sem_sincro_ready > 0
    <3> DEFINE c == Cardinality(PorRegistrar)
    <3>1. c \in Nat
      BY PorRegistrarFinito
    <3>2. Len(new) + Len(ready_suspendido)
            = sem_sincro_ready + Uno(hilo_ready.etapa = "lp_recibir") + c
      BY <1>1 DEF PorAdmitirContado
    <3> HIDE DEF c
    <3>3. Uno(hilo_ready.etapa = "lp_recibir") \in Nat
      BY DEF Uno
    <3>4. Len(new) > 0
      BY <2>1, <2>3, <3>1, <3>2, <3>3
    <3> QED BY <1>1, <3>4 DEF TypeOK, TiposListas
  <2> QED BY <1>3, <2>2, <2>3
<1>4. ASSUME sem_hay_pcb_ready > 0
      PROVE  /\ ready # <<>> /\ Head(ready) \in Pid /\ Tail(ready) \in Seq(Pid)
             /\ Len(Tail(ready)) = Len(ready) - 1
  <2>1. Len(ready) > 0
    BY <1>1, <1>4 DEF TypeOK, TiposListas, TiposSemaforos, ReadyContado, Uno
  <2> QED BY <1>1, <2>1 DEF TypeOK, TiposListas
<1>5. ASSUME sem_sincro_running > 0
      PROVE  \E p \in Pid : /\ running = <<p>> /\ Head(running) = p
                            /\ Tail(running) = <<>> /\ Tail(running) \in Seq(Pid)
  <2>1. PICK p \in Pid : running = <<p>>
    BY <1>1, <1>5 DEF CpuDeUnProceso
  <2> QED BY <2>1
<1>6. dispatch_kernel # <<>> =>
        /\ Head(dispatch_kernel) \in MensajeDelCpu
        /\ Tail(dispatch_kernel) \in Seq(MensajeDelCpu)
  <2>1. dispatch_kernel \in Seq(MensajeDelCpu)
    BY <1>1 DEF TypeOK, TiposCpu
  <2> QED BY <2>1, HeadTailProperties
<1>7. dispatch_cpu # <<>> =>
        /\ Head(dispatch_cpu).pid \in Pid
        /\ Tail(dispatch_cpu) \in Seq(MensajeAlCpu)
  <2>1. dispatch_cpu \in Seq(MensajeAlCpu)
    BY <1>1 DEF TypeOK, TiposCpu
  <2>2. ASSUME dispatch_cpu # <<>>
        PROVE  Head(dispatch_cpu) \in MensajeAlCpu /\ Tail(dispatch_cpu) \in Seq(MensajeAlCpu)
    BY <2>1, <2>2, HeadTailProperties
  <2> QED BY <2>2 DEF MensajeAlCpu
<1> QED
  BY <1>2, <1>3, <1>4, <1>5, <1>6, <1>7

(* Types are kept: a head taken from a list is there, by the counts.       *)
LEMMA IndInvTipo == IndInv /\ [Next]_vars => TypeOK'
<1> SUFFICES ASSUME IndInv, [Next]_vars PROVE TypeOK'
  OBVIOUS
<1> USE DEF listas, semaforos, datos, hilos, hilos_es, cpu, En, Mensaje, Hilo, Nadie
<1>1. TypeOK
  BY DEF IndInv
<1>2. /\ ready_suspendido # <<>> =>
           Head(ready_suspendido) \in Pid /\ Tail(ready_suspendido) \in Seq(Pid)
      /\ \/ hilo_ready.etapa = "lp_recibir"
         \/ ready_suspendido = <<>> /\ sem_sincro_ready > 0
         => new # <<>> /\ Head(new) \in Pid /\ Tail(new) \in Seq(Pid)
  BY ListasNoVacias
<1>3. sem_hay_pcb_ready > 0 => Head(ready) \in Pid /\ Tail(ready) \in Seq(Pid)
  BY ListasNoVacias
<1>4. sem_sincro_running > 0 => Head(running) \in Pid /\ Tail(running) \in Seq(Pid)
  BY ListasNoVacias
<1>5. dispatch_kernel # <<>> =>
        Head(dispatch_kernel).pid \in Pid /\ Tail(dispatch_kernel) \in Seq(MensajeDelCpu)
  BY ListasNoVacias DEF MensajeDelCpu
<1>6. dispatch_cpu # <<>> =>
        /\ Head(dispatch_cpu).pid \in Pid
        /\ Tail(dispatch_cpu) \in Seq(MensajeAlCpu)
  BY ListasNoVacias
<1> QED
  <2>1. CASE InicializarPcb
    <3>1. TiposListas'
      BY <1>1, <2>1, CantidadesAssumption DEF TypeOK, TiposListas, InicializarPcb
    <3>2. TiposSemaforos'
      BY <1>1, <2>1, CantidadesAssumption DEF TypeOK, TiposSemaforos, InicializarPcb
    <3>3. TiposDatos'
      BY <1>1, <2>1, CantidadesAssumption DEF TypeOK, TiposDatos, InicializarPcb
    <3>4. TiposHilos'
      BY <1>1, <2>1, CantidadesAssumption DEF TypeOK, TiposHilos, InicializarPcb
    <3>5. TiposCpu'
      BY <1>1, <2>1, CantidadesAssumption DEF TypeOK, TiposCpu, InicializarPcb
    <3> QED BY <3>1, <3>2, <3>3, <3>4, <3>5 DEF TypeOK
  <2>2. ASSUME NEW p \in Pid, AgregarANew(p) PROVE TypeOK'
    BY <1>1, <2>2 DEF TypeOK, TiposListas, TiposSemaforos, TiposDatos, TiposHilos,
       TiposCpu, AgregarANew, EncolarEnNew
  <2>3. ASSUME NEW p \in Pid, AgregarRelacion(p) PROVE TypeOK'
    BY <1>1, <2>3 DEF TypeOK, TiposListas, TiposSemaforos, TiposDatos, TiposHilos,
       TiposCpu, AgregarRelacion
  <2>4. CASE MedianoPlazoSacar
    <3>1. TiposListas'
      BY <1>1, <2>4, <1>2 DEF TypeOK, TiposListas, MedianoPlazoSacar, EsperarLugar,
         OtrosEsperarLugar
    <3>2. TiposSemaforos'
      BY <1>1, <2>4, <1>2 DEF TypeOK, TiposSemaforos, MedianoPlazoSacar, EsperarLugar,
         OtrosEsperarLugar
    <3>3. TiposDatos'
      BY <1>1, <2>4, <1>2 DEF TypeOK, TiposDatos, MedianoPlazoSacar, EsperarLugar,
         OtrosEsperarLugar
    <3>4. TiposHilos'
      BY <1>1, <2>4, <1>2 DEF TypeOK, TiposHilos, MedianoPlazoSacar, EsperarLugar,
         OtrosEsperarLugar
    <3>5. TiposCpu'
      BY <1>1, <2>4, <1>2 DEF TypeOK, TiposCpu, MedianoPlazoSacar, EsperarLugar,
         OtrosEsperarLugar
    <3> QED BY <3>1, <3>2, <3>3, <3>4, <3>5 DEF TypeOK
  <2>5. CASE LargoPlazoPedirTabla
    BY <1>1, <2>5, <1>2, SMTT(20) DEF TypeOK, TiposListas, TiposSemaforos, TiposDatos,
       TiposHilos, TiposCpu, LargoPlazoPedirTabla, EsperarLugar, OtrosEsperarLugar
  <2>6. CASE LargoPlazoRecibirTabla
    BY <1>1, <2>6, <1>2 DEF TypeOK, TiposListas, TiposSemaforos, TiposDatos,
       TiposHilos, TiposCpu, LargoPlazoRecibirTabla, SacarDeNew
  <2>7. CASE AgregarAReadyFIFO
    <3>1. hilo_ready.pid \in Pid /\ AgregarAReady(hilo_ready.pid, rafaga)
      BY <1>1, <2>7 DEF TypeOK, TiposHilos, AgregarAReadyFIFO
    <3>2. ready' \in Seq(Pid)
      BY <1>1, <3>1, AgregarAReadyTipo DEF TypeOK, TiposListas, TiposDatos
    <3>3. TiposListas'
      BY <1>1, <2>7, <3>1, <3>2 DEF TypeOK, TiposListas, AgregarAReadyFIFO, AvisarHayPcb
    <3>4. TiposSemaforos'
      BY <1>1, <2>7, <3>1, <3>2 DEF TypeOK, TiposSemaforos, AgregarAReadyFIFO,
         AvisarHayPcb
    <3>5. TiposDatos'
      BY <1>1, <2>7, <3>1, <3>2 DEF TypeOK, TiposDatos, AgregarAReadyFIFO, AvisarHayPcb
    <3>6. TiposHilos'
      BY <1>1, <2>7, <3>1, <3>2 DEF TypeOK, TiposHilos, AgregarAReadyFIFO, AvisarHayPcb
    <3>7. TiposCpu'
      BY <1>1, <2>7, <3>1, <3>2 DEF TypeOK, TiposCpu, AgregarAReadyFIFO, AvisarHayPcb
    <3> QED BY <3>3, <3>4, <3>5, <3>6, <3>7 DEF TypeOK
  <2>8. CASE AgregarAReadySRT
    <3>1. hilo_ready.pid \in Pid /\ AgregarAReady(hilo_ready.pid, rafaga)
      BY <1>1, <2>8 DEF TypeOK, TiposHilos, AgregarAReadySRT
    <3>2. ready' \in Seq(Pid)
      BY <1>1, <3>1, AgregarAReadyTipo DEF TypeOK, TiposListas, TiposDatos
    <3>3. TiposListas'
      BY <1>1, <2>8, <3>1, <3>2 DEF TypeOK, TiposListas, AgregarAReadySRT
    <3>4. TiposSemaforos'
      BY <1>1, <2>8, <3>1, <3>2 DEF TypeOK, TiposSemaforos, AgregarAReadySRT
    <3>5. TiposDatos'
      BY <1>1, <2>8, <3>1, <3>2 DEF TypeOK, TiposDatos, AgregarAReadySRT
    <3>6. TiposHilos'
      BY <1>1, <2>8, <3>1, <3>2 DEF TypeOK, TiposHilos, AgregarAReadySRT
    <3>7. TiposCpu'
      BY <1>1, <2>8, <3>1, <3>2 DEF TypeOK, TiposCpu, AgregarAReadySRT
    <3> QED BY <3>3, <3>4, <3>5, <3>6, <3>7 DEF TypeOK
  <2>9. CASE DesalojarTrasAgregar
    <3>1. TiposListas'
      BY <1>1, <2>9 DEF TypeOK, TiposListas, DesalojarTrasAgregar, EvaluarDesalojo,
         AvisarHayPcb
    <3>2. TiposSemaforos'
      BY <1>1, <2>9 DEF TypeOK, TiposSemaforos, DesalojarTrasAgregar, EvaluarDesalojo,
         AvisarHayPcb
    <3>3. TiposDatos'
      BY <1>1, <2>9 DEF TypeOK, TiposDatos, DesalojarTrasAgregar, EvaluarDesalojo,
         AvisarHayPcb
    <3>4. TiposHilos'
      BY <1>1, <2>9 DEF TypeOK, TiposHilos, DesalojarTrasAgregar, EvaluarDesalojo,
         AvisarHayPcb
    <3>5. TiposCpu'
      BY <1>1, <2>9 DEF TypeOK, TiposCpu, DesalojarTrasAgregar, EvaluarDesalojo,
         AvisarHayPcb
    <3> QED BY <3>1, <3>2, <3>3, <3>4, <3>5 DEF TypeOK
  <2>10. CASE CortoPlazoDespachar
    <3>1. Mensaje("EJECUTAR", Head(ready)) \in MensajeAlCpu
      BY <2>10, <1>3 DEF CortoPlazoDespachar, MensajeAlCpu
    <3>2. Append(dispatch_cpu, Mensaje("EJECUTAR", Head(ready))) \in Seq(MensajeAlCpu)
      BY <1>1, <3>1, AppendProperties DEF TypeOK, TiposCpu
    <3>3. TiposListas'
      BY <1>1, <2>10, <1>3, <3>1, <3>2 DEF TypeOK, TiposListas, CortoPlazoDespachar
    <3>4. TiposSemaforos'
      BY <1>1, <2>10, <1>3, <3>1, <3>2 DEF TypeOK, TiposSemaforos, CortoPlazoDespachar
    <3>5. TiposDatos'
      BY <1>1, <2>10, <1>3, <3>1, <3>2 DEF TypeOK, TiposDatos, CortoPlazoDespachar
    <3>6. TiposHilos'
      BY <1>1, <2>10, <1>3, <3>1, <3>2 DEF TypeOK, TiposHilos, CortoPlazoDespachar
    <3>7. TiposCpu'
      BY <1>1, <2>10, <1>3, <3>1, <3>2 DEF TypeOK, TiposCpu, CortoPlazoDespachar
    <3> QED BY <3>3, <3>4, <3>5, <3>6, <3>7 DEF TypeOK
  <2>11. CASE CortoPlazoRegistrar
    <3>1. hilo_corto.pid \in Pid
      BY <1>1, <2>11 DEF TypeOK, TiposHilos, CortoPlazoRegistrar
    <3>2. Append(running, hilo_corto.pid) \in Seq(Pid)
      BY <1>1, <3>1, AppendProperties DEF TypeOK, TiposListas
    <3>3. TiposListas'
      BY <1>1, <2>11, <3>1, <3>2 DEF TypeOK, TiposListas, CortoPlazoRegistrar
    <3>4. TiposSemaforos'
      BY <1>1, <2>11, <3>1, <3>2 DEF TypeOK, TiposSemaforos, CortoPlazoRegistrar
    <3>5. TiposDatos'
      BY <1>1, <2>11, <3>1, <3>2 DEF TypeOK, TiposDatos, CortoPlazoRegistrar
    <3>6. TiposHilos'
      BY <1>1, <2>11, <3>1, <3>2 DEF TypeOK, TiposHilos, CortoPlazoRegistrar
    <3>7. TiposCpu'
      BY <1>1, <2>11, <3>1, <3>2 DEF TypeOK, TiposCpu, CortoPlazoRegistrar
    <3> QED BY <3>3, <3>4, <3>5, <3>6, <3>7 DEF TypeOK
  <2>12. CASE BloquearFIFO
    <3>1. TiposListas'
      BY <1>1, <2>12, <1>4, <1>5 DEF TypeOK, TiposListas, BloquearFIFO, Recibir,
         SacarDeRunning
    <3>2. TiposSemaforos'
      BY <1>1, <2>12, <1>4, <1>5 DEF TypeOK, TiposSemaforos, BloquearFIFO, Recibir,
         SacarDeRunning
    <3>3. TiposDatos'
      BY <1>1, <2>12, <1>4, <1>5 DEF TypeOK, TiposDatos, BloquearFIFO, Recibir,
         SacarDeRunning
    <3>4. TiposHilos'
      BY <1>1, <2>12, <1>4, <1>5 DEF TypeOK, TiposHilos, BloquearFIFO, Recibir,
         SacarDeRunning
    <3>5. TiposCpu'
      BY <1>1, <2>12, <1>4, <1>5 DEF TypeOK, TiposCpu, BloquearFIFO, Recibir,
         SacarDeRunning
    <3> QED BY <3>1, <3>2, <3>3, <3>4, <3>5 DEF TypeOK
  <2>13. CASE AgregarABloqueadoFIFO
    <3>1. hilo_dispatch.pid \in Pid
      BY <1>1, <2>13 DEF TypeOK, TiposHilos, AgregarABloqueadoFIFO
    <3>2. <<hilo_dispatch.pid, bloqueos[hilo_dispatch.pid]>> \in Pid \X (0 .. MaxBloqueos)
      BY <1>1, <3>1 DEF TypeOK, TiposDatos
    <3>3. TiposListas'
      BY <1>1, <2>13, <3>1, <3>2 DEF TypeOK, TiposListas, AgregarABloqueadoFIFO,
         ComenzarBloqueo
    <3>4. TiposSemaforos'
      BY <1>1, <2>13, <3>1, <3>2 DEF TypeOK, TiposSemaforos, AgregarABloqueadoFIFO,
         ComenzarBloqueo
    <3>5. TiposDatos'
      BY <1>1, <2>13, <3>1, <3>2 DEF TypeOK, TiposDatos, AgregarABloqueadoFIFO,
         ComenzarBloqueo
    <3>6. TiposHilos'
      BY <1>1, <2>13, <3>1, <3>2 DEF TypeOK, TiposHilos, AgregarABloqueadoFIFO,
         ComenzarBloqueo
    <3>7. TiposCpu'
      BY <1>1, <2>13, <3>1, <3>2 DEF TypeOK, TiposCpu, AgregarABloqueadoFIFO,
         ComenzarBloqueo
    <3> QED BY <3>3, <3>4, <3>5, <3>6, <3>7 DEF TypeOK
  <2>14. CASE BloquearSRT
    <3>1. TiposListas'
      BY <1>1, <2>14, <1>5 DEF TypeOK, TiposListas, BloquearSRT, Recibir
    <3>2. TiposSemaforos'
      BY <1>1, <2>14, <1>5 DEF TypeOK, TiposSemaforos, BloquearSRT, Recibir
    <3>3. TiposDatos'
      BY <1>1, <2>14, <1>5 DEF TypeOK, TiposDatos, BloquearSRT, Recibir
    <3>4. TiposHilos'
      BY <1>1, <2>14, <1>5 DEF TypeOK, TiposHilos, BloquearSRT, Recibir
    <3>5. TiposCpu'
      BY <1>1, <2>14, <1>5 DEF TypeOK, TiposCpu, BloquearSRT, Recibir
    <3> QED BY <3>1, <3>2, <3>3, <3>4, <3>5 DEF TypeOK
  <2>15. CASE SacarBloqueadoDeRunningSRT
    <3>1. hilo_dispatch.pid \in Pid
      BY <1>1, <2>15 DEF TypeOK, TiposHilos, SacarBloqueadoDeRunningSRT
    <3>2. <<hilo_dispatch.pid, bloqueos[hilo_dispatch.pid]>> \in Pid \X (0 .. MaxBloqueos)
      BY <1>1, <3>1 DEF TypeOK, TiposDatos
    <3>3. TiposListas'
      BY <1>1, <2>15, <1>4, <3>1, <3>2 DEF TypeOK, TiposListas,
         SacarBloqueadoDeRunningSRT, SacarDeRunning, ComenzarBloqueo
    <3>4. TiposSemaforos'
      BY <1>1, <2>15, <1>4, <3>1, <3>2 DEF TypeOK, TiposSemaforos,
         SacarBloqueadoDeRunningSRT, SacarDeRunning, ComenzarBloqueo
    <3>5. TiposDatos'
      BY <1>1, <2>15, <1>4, <3>1, <3>2 DEF TypeOK, TiposDatos,
         SacarBloqueadoDeRunningSRT, SacarDeRunning, ComenzarBloqueo
    <3>6. TiposHilos'
      BY <1>1, <2>15, <1>4, <3>1, <3>2 DEF TypeOK, TiposHilos,
         SacarBloqueadoDeRunningSRT, SacarDeRunning, ComenzarBloqueo
    <3>7. TiposCpu'
      BY <1>1, <2>15, <1>4, <3>1, <3>2 DEF TypeOK, TiposCpu, SacarBloqueadoDeRunningSRT,
         SacarDeRunning, ComenzarBloqueo
    <3> QED BY <3>3, <3>4, <3>5, <3>6, <3>7 DEF TypeOK
  <2>16. CASE VolverAReadySRT
    <3> DEFINE p == Head(dispatch_kernel).pid
    <3>1. p \in Pid /\ Tail(dispatch_kernel) \in Seq(MensajeDelCpu)
      BY <1>1, <1>5, <2>16 DEF VolverAReadySRT, Recibir
    <3>2. PICK r \in Rafagas : /\ rafaga' = [rafaga EXCEPT ![p] = r]
                               /\ AgregarAReady(p, rafaga')
      BY <2>16 DEF VolverAReadySRT
    <3>3. rafaga' \in [Pid -> Rafagas]
      BY <1>1, <3>1, <3>2 DEF TypeOK, TiposDatos
    <3>4. ready' \in Seq(Pid)
      BY <1>1, <3>1, <3>2, <3>3, AgregarAReadyTipo DEF TypeOK, TiposListas, TiposDatos
    <3>5. TiposListas'
      BY <1>1, <2>16, <3>1, <3>2, <3>3, <3>4 DEF TypeOK, TiposListas, VolverAReadySRT,
         Recibir, AvisarHayPcb
    <3>6. TiposSemaforos'
      BY <1>1, <2>16, <3>1, <3>2, <3>3, <3>4 DEF TypeOK, TiposSemaforos, VolverAReadySRT,
         Recibir, AvisarHayPcb
    <3>7. TiposDatos'
      BY <1>1, <2>16, <3>1, <3>2, <3>3, <3>4 DEF TypeOK, TiposDatos, VolverAReadySRT,
         Recibir, AvisarHayPcb
    <3>8. TiposHilos'
      BY <1>1, <2>16, <3>1, <3>2, <3>3, <3>4 DEF TypeOK, TiposHilos, VolverAReadySRT,
         Recibir, AvisarHayPcb
    <3>9. TiposCpu'
      BY <1>1, <2>16, <3>1, <3>2, <3>3, <3>4 DEF TypeOK, TiposCpu, VolverAReadySRT,
         Recibir, AvisarHayPcb
    <3> QED BY <3>5, <3>6, <3>7, <3>8, <3>9 DEF TypeOK
  <2>17. CASE SacarDesalojadoDeRunning
    <3>1. TiposListas'
      BY <1>1, <2>17, <1>4 DEF TypeOK, TiposListas, SacarDesalojadoDeRunning,
         SacarDeRunning
    <3>2. TiposSemaforos'
      BY <1>1, <2>17, <1>4 DEF TypeOK, TiposSemaforos, SacarDesalojadoDeRunning,
         SacarDeRunning
    <3>3. TiposDatos'
      BY <1>1, <2>17, <1>4 DEF TypeOK, TiposDatos, SacarDesalojadoDeRunning,
         SacarDeRunning
    <3>4. TiposHilos'
      BY <1>1, <2>17, <1>4 DEF TypeOK, TiposHilos, SacarDesalojadoDeRunning,
         SacarDeRunning
    <3>5. TiposCpu'
      BY <1>1, <2>17, <1>4 DEF TypeOK, TiposCpu, SacarDesalojadoDeRunning, SacarDeRunning
    <3> QED BY <3>1, <3>2, <3>3, <3>4, <3>5 DEF TypeOK
  <2>18. CASE PasarAExit
    <3>1. TiposListas'
      BY <1>1, <2>18, <1>4, <1>5 DEF TypeOK, TiposListas, PasarAExit, Recibir,
         SacarDeRunning
    <3>2. TiposSemaforos'
      BY <1>1, <2>18, <1>4, <1>5 DEF TypeOK, TiposSemaforos, PasarAExit, Recibir,
         SacarDeRunning
    <3>3. TiposDatos'
      BY <1>1, <2>18, <1>4, <1>5 DEF TypeOK, TiposDatos, PasarAExit, Recibir,
         SacarDeRunning
    <3>4. TiposHilos'
      BY <1>1, <2>18, <1>4, <1>5 DEF TypeOK, TiposHilos, PasarAExit, Recibir,
         SacarDeRunning
    <3>5. TiposCpu'
      BY <1>1, <2>18, <1>4, <1>5 DEF TypeOK, TiposCpu, PasarAExit, Recibir,
         SacarDeRunning
    <3> QED BY <3>1, <3>2, <3>3, <3>4, <3>5 DEF TypeOK
  <2>19. CASE AvisarConsola
    BY <1>1, <2>19, SMTT(20) DEF TypeOK, TiposListas, TiposSemaforos, TiposDatos, TiposHilos,
       TiposCpu, AvisarConsola, DevolverLugar
  <2>20. CASE RelacionInexistente
    BY <1>1, <2>20 DEF TypeOK, TiposListas, TiposSemaforos, TiposDatos, TiposHilos,
       TiposCpu, RelacionInexistente
  <2>21. ASSUME NEW p \in Pid, TomarDispositivo(p) PROVE TypeOK'
    BY <1>1, <2>21, SMTT(20) DEF TypeOK, TiposListas, TiposSemaforos, TiposDatos, TiposHilos,
       TiposCpu, TomarDispositivo
  <2>22. CASE TerminarIO
    BY <1>1, <2>22 DEF TypeOK, TiposListas, TiposSemaforos, TiposDatos, TiposHilos,
       TiposCpu, TerminarIO, SacarDeBloqueado
  <2>23. CASE Desbloquear
    <3>1. hilo_es.pid \in Pid /\ AgregarAReady(hilo_es.pid, rafaga)
      BY <1>1, <2>23 DEF TypeOK, TiposHilos, Desbloquear
    <3>2. ready' \in Seq(Pid)
      BY <1>1, <3>1, AgregarAReadyTipo DEF TypeOK, TiposListas, TiposDatos
    <3>3. TiposListas'
      BY <1>1, <2>23, <3>1, <3>2 DEF TypeOK, TiposListas, Desbloquear, AvisarHayPcb
    <3>4. TiposSemaforos'
      BY <1>1, <2>23, <3>1, <3>2 DEF TypeOK, TiposSemaforos, Desbloquear, AvisarHayPcb
    <3>5. TiposDatos'
      BY <1>1, <2>23, <3>1, <3>2 DEF TypeOK, TiposDatos, Desbloquear, AvisarHayPcb
    <3>6. TiposHilos'
      BY <1>1, <2>23, <3>1, <3>2 DEF TypeOK, TiposHilos, Desbloquear, AvisarHayPcb
    <3>7. TiposCpu'
      BY <1>1, <2>23, <3>1, <3>2 DEF TypeOK, TiposCpu, Desbloquear, AvisarHayPcb
    <3> QED BY <3>3, <3>4, <3>5, <3>6, <3>7 DEF TypeOK
  <2>24. CASE DesalojarTrasDesbloquear
    BY <1>1, <2>24, SMTT(20) DEF TypeOK, TiposListas, TiposSemaforos, TiposDatos, TiposHilos,
       TiposCpu, DesalojarTrasDesbloquear, EvaluarDesalojo
  <2>25. CASE BuscarSuspendido
    BY <1>1, <2>25, SMTT(20) DEF TypeOK, TiposListas, TiposSemaforos, TiposDatos, TiposHilos,
       TiposCpu, BuscarSuspendido
  <2>26. CASE PasarAReadySuspendido
    <3>1. hilo_es.pid \in Pid
      BY <1>1, <2>26 DEF TypeOK, TiposHilos, PasarAReadySuspendido
    <3>2. Append(ready_suspendido, hilo_es.pid) \in Seq(Pid)
      BY <1>1, <3>1, AppendProperties DEF TypeOK, TiposListas
    <3>3. TiposListas'
      BY <1>1, <2>26, <3>1, <3>2 DEF TypeOK, TiposListas, PasarAReadySuspendido
    <3>4. TiposSemaforos'
      BY <1>1, <2>26, <3>1, <3>2 DEF TypeOK, TiposSemaforos, PasarAReadySuspendido
    <3>5. TiposDatos'
      BY <1>1, <2>26, <3>1, <3>2 DEF TypeOK, TiposDatos, PasarAReadySuspendido
    <3>6. TiposHilos'
      BY <1>1, <2>26, <3>1, <3>2 DEF TypeOK, TiposHilos, PasarAReadySuspendido
    <3>7. TiposCpu'
      BY <1>1, <2>26, <3>1, <3>2 DEF TypeOK, TiposCpu, PasarAReadySuspendido
    <3> QED BY <3>3, <3>4, <3>5, <3>6, <3>7 DEF TypeOK
  <2>27. ASSUME NEW p \in Pid, ConfirmarSuspension(p) PROVE TypeOK'
    BY <1>1, <2>27, SMTT(20) DEF TypeOK, TiposListas, TiposSemaforos, TiposDatos, TiposHilos,
       TiposCpu, ConfirmarSuspension, DevolverLugar
  <2>28. ASSUME NEW p \in Pid, NEW k \in 1 .. MaxBloqueos, VencerBloqueo(p, k)
       PROVE  TypeOK'
    BY <1>1, <2>28, SMTT(20) DEF TypeOK, TiposListas, TiposSemaforos, TiposDatos, TiposHilos,
       TiposCpu, VencerBloqueo, SacarDeBloqueado
  <2>29. CASE CpuRecibir
    <3>1. /\ en_cpu' \in Pid \union {Nadie} /\ dispatch_cpu' \in Seq(MensajeAlCpu)
          /\ hay_interrupciones' \in BOOLEAN /\ UNCHANGED <<dispatch_kernel, interrupt>>
      BY <2>29, <1>6 DEF CpuRecibir
    <3>2. TiposCpu'
      BY <1>1, <3>1 DEF TypeOK, TiposCpu
    <3>3. UNCHANGED <<listas, semaforos, datos, hilos>>
      BY <2>29 DEF CpuRecibir
    <3>4. TiposListas' /\ TiposSemaforos' /\ TiposDatos' /\ TiposHilos'
      BY <1>1, <3>3 DEF TypeOK, TiposListas, TiposSemaforos, TiposDatos, TiposHilos
    <3> QED BY <3>2, <3>4 DEF TypeOK
  <2>30. CASE CpuInterrupcion
    BY <1>1, <2>30 DEF TypeOK, TiposListas, TiposSemaforos, TiposDatos, TiposHilos,
       TiposCpu, CpuInterrupcion
  <2>31. CASE CpuIO
    <3>1. en_cpu \in Pid
      BY <1>1, <2>31 DEF TypeOK, TiposCpu, CpuIO, CpuEnviar
    <3>2. Mensaje("PASAR_A_BLOQUEADO", en_cpu) \in MensajeDelCpu
      BY <3>1 DEF MensajeDelCpu
    <3>3. Append(dispatch_kernel, Mensaje("PASAR_A_BLOQUEADO", en_cpu)) \in Seq(MensajeDelCpu)
      BY <1>1, <3>2, AppendProperties DEF TypeOK, TiposCpu
    <3>4. bloqueos[en_cpu] + 1 \in 0 .. MaxBloqueos
      BY <1>1, <3>1, <2>31, CantidadesAssumption DEF TypeOK, TiposDatos, CpuIO
    <3>5. TiposListas'
      BY <1>1, <2>31, CantidadesAssumption, <3>1, <3>2, <3>3, <3>4 DEF TypeOK,
         TiposListas, CpuIO, CpuEnviar
    <3>6. TiposSemaforos'
      BY <1>1, <2>31, CantidadesAssumption, <3>1, <3>2, <3>3, <3>4 DEF TypeOK,
         TiposSemaforos, CpuIO, CpuEnviar
    <3>7. TiposDatos'
      BY <1>1, <2>31, CantidadesAssumption, <3>1, <3>2, <3>3, <3>4 DEF TypeOK,
         TiposDatos, CpuIO, CpuEnviar
    <3>8. TiposHilos'
      BY <1>1, <2>31, CantidadesAssumption, <3>1, <3>2, <3>3, <3>4 DEF TypeOK,
         TiposHilos, CpuIO, CpuEnviar
    <3>9. TiposCpu'
      BY <1>1, <2>31, CantidadesAssumption, <3>1, <3>2, <3>3, <3>4 DEF TypeOK, TiposCpu,
         CpuIO, CpuEnviar
    <3> QED BY <3>5, <3>6, <3>7, <3>8, <3>9 DEF TypeOK
  <2>32. CASE CpuExit
    <3>1. en_cpu \in Pid
      BY <1>1, <2>32 DEF TypeOK, TiposCpu, CpuExit, CpuEnviar
    <3>2. Mensaje("PASAR_A_EXIT", en_cpu) \in MensajeDelCpu
      BY <3>1 DEF MensajeDelCpu
    <3>3. Append(dispatch_kernel, Mensaje("PASAR_A_EXIT", en_cpu)) \in Seq(MensajeDelCpu)
      BY <1>1, <3>2, AppendProperties DEF TypeOK, TiposCpu
    <3>4. TiposListas'
      BY <1>1, <2>32, <3>1, <3>2, <3>3 DEF TypeOK, TiposListas, CpuExit, CpuEnviar
    <3>5. TiposSemaforos'
      BY <1>1, <2>32, <3>1, <3>2, <3>3 DEF TypeOK, TiposSemaforos, CpuExit, CpuEnviar
    <3>6. TiposDatos'
      BY <1>1, <2>32, <3>1, <3>2, <3>3 DEF TypeOK, TiposDatos, CpuExit, CpuEnviar
    <3>7. TiposHilos'
      BY <1>1, <2>32, <3>1, <3>2, <3>3 DEF TypeOK, TiposHilos, CpuExit, CpuEnviar
    <3>8. TiposCpu'
      BY <1>1, <2>32, <3>1, <3>2, <3>3 DEF TypeOK, TiposCpu, CpuExit, CpuEnviar
    <3> QED BY <3>4, <3>5, <3>6, <3>7, <3>8 DEF TypeOK
  <2>33. CASE CpuDesalojo
    <3>1. en_cpu \in Pid
      BY <1>1, <2>33 DEF TypeOK, TiposCpu, CpuDesalojo, CpuEnviar
    <3>2. Mensaje("PASAR_A_READY", en_cpu) \in MensajeDelCpu
      BY <3>1 DEF MensajeDelCpu
    <3>3. Append(dispatch_kernel, Mensaje("PASAR_A_READY", en_cpu)) \in Seq(MensajeDelCpu)
      BY <1>1, <3>2, AppendProperties DEF TypeOK, TiposCpu
    <3>4. TiposListas'
      BY <1>1, <2>33, <3>1, <3>2, <3>3 DEF TypeOK, TiposListas, CpuDesalojo, CpuEnviar
    <3>5. TiposSemaforos'
      BY <1>1, <2>33, <3>1, <3>2, <3>3 DEF TypeOK, TiposSemaforos, CpuDesalojo, CpuEnviar
    <3>6. TiposDatos'
      BY <1>1, <2>33, <3>1, <3>2, <3>3 DEF TypeOK, TiposDatos, CpuDesalojo, CpuEnviar
    <3>7. TiposHilos'
      BY <1>1, <2>33, <3>1, <3>2, <3>3 DEF TypeOK, TiposHilos, CpuDesalojo, CpuEnviar
    <3>8. TiposCpu'
      BY <1>1, <2>33, <3>1, <3>2, <3>3 DEF TypeOK, TiposCpu, CpuDesalojo, CpuEnviar
    <3> QED BY <3>4, <3>5, <3>6, <3>7, <3>8 DEF TypeOK
  <2>34. CASE UNCHANGED vars
    BY <1>1, <2>34, SMTT(20) DEF TypeOK, TiposListas, TiposSemaforos, TiposDatos,
       TiposHilos, TiposCpu, vars
  <2> QED
    BY <2>1, <2>2, <2>3, <2>4, <2>5, <2>6, <2>7, <2>8, <2>9, <2>10, <2>11, <2>12,
       <2>13, <2>14, <2>15, <2>16, <2>17, <2>18, <2>19, <2>20, <2>21, <2>22, <2>23,
       <2>24, <2>25, <2>26, <2>27, <2>28, <2>29, <2>30, <2>31, <2>32, <2>33, <2>34
       DEF Next, Sistema, SinTrabajo, Cliente, HiloPasarReady, HiloCortoPlazo,
           CpuDispatchHandler, HiloBloqueo, HilosSuspension, Cpu

(* The pids are given in order, one to each handler.                       *)
LEMMA IndInvOrden == IndInv /\ [Next]_vars => ClientesEnOrden'
<1> SUFFICES ASSUME IndInv, [Next]_vars PROVE ClientesEnOrden'
  OBVIOUS
<1> USE DEF listas, semaforos, datos, hilos, hilos_es, cpu, En, Mensaje, Nadie
<1>1. ClientesEnOrden
  BY DEF IndInv
<1>2. cliente \in [Pid -> {"sin_pid", "agregar_new", "agregar_relacion", "fin"}]
  BY DEF IndInv, TypeOK, TiposHilos
<1>3. pid_contador \in Nat
  BY CantidadesAssumption DEF IndInv, TypeOK, TiposDatos
<1> QED
  <2>1. CASE InicializarPcb
    BY <1>1, <1>2, <1>3, <2>1 DEF ClientesEnOrden, Pid, InicializarPcb
  <2>2. ASSUME NEW p \in Pid, AgregarANew(p) PROVE ClientesEnOrden'
    BY <1>1, <1>2, <1>3, <2>2 DEF ClientesEnOrden, AgregarANew, EncolarEnNew
  <2>3. ASSUME NEW p \in Pid, AgregarRelacion(p) PROVE ClientesEnOrden'
    BY <1>1, <1>2, <1>3, <2>3 DEF ClientesEnOrden, AgregarRelacion
  <2>4. CASE HiloPasarReady
    BY <1>1, <1>2, <1>3, <2>4 DEF ClientesEnOrden, HiloPasarReady, MedianoPlazoSacar,
       LargoPlazoPedirTabla, LargoPlazoRecibirTabla, AgregarAReadyFIFO,
       AgregarAReadySRT, DesalojarTrasAgregar, EsperarLugar, OtrosEsperarLugar,
       SacarDeNew, AvisarHayPcb, EvaluarDesalojo
  <2>5. CASE HiloCortoPlazo
    BY <1>1, <1>2, <1>3, <2>5 DEF ClientesEnOrden, HiloCortoPlazo,
       CortoPlazoDespachar, CortoPlazoRegistrar
  <2>6. CASE CpuDispatchHandler
    BY <1>1, <1>2, <1>3, <2>6 DEF ClientesEnOrden, CpuDispatchHandler, BloquearFIFO,
       AgregarABloqueadoFIFO, BloquearSRT, SacarBloqueadoDeRunningSRT,
       VolverAReadySRT, SacarDesalojadoDeRunning, PasarAExit, AvisarConsola,
       RelacionInexistente, Recibir, SacarDeRunning, ComenzarBloqueo, AvisarHayPcb,
       DevolverLugar
  <2>7. CASE HiloBloqueo
    BY <1>1, <1>2, <1>3, <2>7 DEF ClientesEnOrden, HiloBloqueo, TomarDispositivo,
       TerminarIO, Desbloquear, DesalojarTrasDesbloquear, BuscarSuspendido,
       PasarAReadySuspendido, SacarDeBloqueado, AvisarHayPcb, EvaluarDesalojo
  <2>8. CASE HilosSuspension
    BY <1>1, <1>2, <1>3, <2>8 DEF ClientesEnOrden, HilosSuspension,
       ConfirmarSuspension, VencerBloqueo, DevolverLugar, SacarDeBloqueado
  <2>9. CASE Cpu
    BY <1>1, <1>2, <1>3, <2>9 DEF ClientesEnOrden, Cpu, CpuRecibir, CpuInterrupcion,
       CpuIO, CpuExit, CpuDesalojo, CpuEnviar
  <2>10. CASE UNCHANGED vars
    BY <1>1, <1>2, <1>3, <2>10 DEF ClientesEnOrden, vars
  <2> QED
    BY <2>1, <2>2, <2>3, <2>4, <2>5, <2>6, <2>7, <2>8, <2>9, <2>10 DEF Next, Sistema,
       SinTrabajo, Cliente

(* While memory is waited for, nobody else takes from new.                 *)
LEMMA IndInvPrimero == IndInv /\ [Next]_vars => PrimeroDeNew'
<1> SUFFICES ASSUME IndInv, [Next]_vars PROVE PrimeroDeNew'
  OBVIOUS
<1> USE DEF listas, semaforos, datos, hilos, hilos_es, cpu, En, Mensaje, Nadie
<1>1. PrimeroDeNew /\ new \in Seq(Pid)
  BY DEF IndInv, TypeOK, TiposListas
<1>2. ready_suspendido = <<>> /\ sem_sincro_ready > 0 => new # <<>>
  BY ListasNoVacias
<1> QED
  <2>1. CASE InicializarPcb
    BY <1>1, <2>1 DEF PrimeroDeNew, InicializarPcb
  <2>2. ASSUME NEW p \in Pid, AgregarANew(p) PROVE PrimeroDeNew'
    BY <1>1, <2>2, HeadTailAppend, AppendProperties DEF PrimeroDeNew, AgregarANew, EncolarEnNew
  <2>3. ASSUME NEW p \in Pid, AgregarRelacion(p) PROVE PrimeroDeNew'
    BY <1>1, <2>3 DEF PrimeroDeNew, AgregarRelacion
  <2>4. CASE MedianoPlazoSacar
    BY <1>1, <2>4 DEF PrimeroDeNew, MedianoPlazoSacar, EsperarLugar,
       OtrosEsperarLugar
  <2>5. CASE LargoPlazoPedirTabla
    BY <1>1, <2>5, <1>2 DEF PrimeroDeNew, LargoPlazoPedirTabla, EsperarLugar,
       OtrosEsperarLugar
  <2>6. CASE LargoPlazoRecibirTabla
    BY <1>1, <2>6 DEF PrimeroDeNew, LargoPlazoRecibirTabla, SacarDeNew
  <2>7. CASE AgregarAReadyFIFO
    BY <1>1, <2>7 DEF PrimeroDeNew, AgregarAReadyFIFO, AvisarHayPcb
  <2>8. CASE AgregarAReadySRT
    BY <1>1, <2>8 DEF PrimeroDeNew, AgregarAReadySRT
  <2>9. CASE DesalojarTrasAgregar
    BY <1>1, <2>9 DEF PrimeroDeNew, DesalojarTrasAgregar, EvaluarDesalojo,
       AvisarHayPcb
  <2>10. CASE HiloCortoPlazo
    BY <1>1, <2>10 DEF PrimeroDeNew, HiloCortoPlazo, CortoPlazoDespachar,
       CortoPlazoRegistrar
  <2>11. CASE CpuDispatchHandler
    BY <1>1, <2>11 DEF PrimeroDeNew, CpuDispatchHandler, BloquearFIFO,
       AgregarABloqueadoFIFO, BloquearSRT, SacarBloqueadoDeRunningSRT,
       VolverAReadySRT, SacarDesalojadoDeRunning, PasarAExit, AvisarConsola,
       RelacionInexistente, Recibir, SacarDeRunning, ComenzarBloqueo, AvisarHayPcb,
       DevolverLugar
  <2>12. CASE HiloBloqueo
    BY <1>1, <2>12 DEF PrimeroDeNew, HiloBloqueo, TomarDispositivo, TerminarIO,
       Desbloquear, DesalojarTrasDesbloquear, BuscarSuspendido,
       PasarAReadySuspendido, SacarDeBloqueado, AvisarHayPcb, EvaluarDesalojo
  <2>13. CASE HilosSuspension
    BY <1>1, <2>13 DEF PrimeroDeNew, HilosSuspension, ConfirmarSuspension,
       VencerBloqueo, DevolverLugar, SacarDeBloqueado
  <2>14. CASE Cpu
    BY <1>1, <2>14 DEF PrimeroDeNew, Cpu, CpuRecibir, CpuInterrupcion, CpuIO,
       CpuExit, CpuDesalojo, CpuEnviar
  <2>15. CASE UNCHANGED vars
    BY <1>1, <2>15 DEF PrimeroDeNew, vars
  <2> QED
    BY <2>1, <2>2, <2>3, <2>4, <2>5, <2>6, <2>7, <2>8, <2>9, <2>10, <2>11, <2>12,
       <2>13, <2>14, <2>15 DEF Next, Sistema, SinTrabajo, Cliente, HiloPasarReady

(* A post of sem_hay_pcb_ready follows every insertion in ready.           *)
LEMMA IndInvReady == IndInv /\ [Next]_vars => ReadyContado'
<1> SUFFICES ASSUME IndInv, [Next]_vars PROVE ReadyContado'
  OBVIOUS
<1> USE DEF listas, semaforos, datos, hilos, hilos_es, cpu, En, Mensaje, Nadie
<1>1. ReadyContado
  BY DEF IndInv
<1>2. TypeOK
  BY DEF IndInv
<1>3. Len(ready) \in Nat /\ sem_hay_pcb_ready \in Nat
  BY <1>2 DEF TypeOK, TiposListas, TiposSemaforos
<1> QED
  <2>1. CASE Cliente
    BY <1>1, <1>3, <2>1 DEF ReadyContado, Uno, Cliente, InicializarPcb, AgregarANew, EncolarEnNew,
       AgregarRelacion
  <2>2. CASE MedianoPlazoSacar
    BY <1>1, <1>3, <2>2 DEF ReadyContado, Uno, MedianoPlazoSacar, EsperarLugar,
       OtrosEsperarLugar
  <2>3. CASE LargoPlazoPedirTabla
    BY <1>1, <1>3, <2>3 DEF ReadyContado, Uno, LargoPlazoPedirTabla, EsperarLugar,
       OtrosEsperarLugar
  <2>4. CASE LargoPlazoRecibirTabla
    BY <1>1, <1>3, <2>4 DEF ReadyContado, Uno, LargoPlazoRecibirTabla, SacarDeNew
  <2>5. CASE AgregarAReadyFIFO
    <3>1. hilo_ready.pid \in Pid /\ AgregarAReady(hilo_ready.pid, rafaga)
      BY <1>2, <2>5 DEF TypeOK, TiposHilos, Hilo, AgregarAReadyFIFO
    <3>2. Len(ready') = Len(ready) + 1
      BY <1>2, <3>1, AgregarAReadyTipo DEF TypeOK, TiposListas, TiposDatos
    <3> QED BY <1>1, <1>3, <2>5, <3>2 DEF ReadyContado, Uno, AgregarAReadyFIFO, AvisarHayPcb
  <2>6. CASE AgregarAReadySRT
    <3>1. hilo_ready.pid \in Pid /\ AgregarAReady(hilo_ready.pid, rafaga)
      BY <1>2, <2>6 DEF TypeOK, TiposHilos, Hilo, AgregarAReadySRT
    <3>2. Len(ready') = Len(ready) + 1
      BY <1>2, <3>1, AgregarAReadyTipo DEF TypeOK, TiposListas, TiposDatos
    <3> QED BY <1>1, <1>3, <2>6, <3>2 DEF ReadyContado, Uno, AgregarAReadySRT
  <2>7. CASE DesalojarTrasAgregar
    BY <1>1, <1>3, <2>7 DEF ReadyContado, Uno, DesalojarTrasAgregar, EvaluarDesalojo,
       AvisarHayPcb
  <2>8. CASE CortoPlazoDespachar
    BY <1>1, <1>3, <2>8, ListasNoVacias DEF ReadyContado, Uno, CortoPlazoDespachar
  <2>9. CASE CortoPlazoRegistrar
    BY <1>1, <1>3, <2>9 DEF ReadyContado, Uno, CortoPlazoRegistrar
  <2>10. CASE BloquearFIFO
    BY <1>1, <1>3, <2>10 DEF ReadyContado, Uno, BloquearFIFO, Recibir, SacarDeRunning
  <2>11. CASE AgregarABloqueadoFIFO
    BY <1>1, <1>3, <2>11 DEF ReadyContado, Uno, AgregarABloqueadoFIFO,
       ComenzarBloqueo
  <2>12. CASE BloquearSRT
    BY <1>1, <1>3, <2>12 DEF ReadyContado, Uno, BloquearSRT, Recibir
  <2>13. CASE SacarBloqueadoDeRunningSRT
    BY <1>1, <1>3, <2>13 DEF ReadyContado, Uno, SacarBloqueadoDeRunningSRT,
       SacarDeRunning, ComenzarBloqueo
  <2>14. CASE VolverAReadySRT
    <3> DEFINE p == Head(dispatch_kernel).pid
    <3>1. p \in Pid
      BY <2>14, ListasNoVacias DEF VolverAReadySRT, Recibir, MensajeDelCpu
    <3>2. PICK r \in Rafagas : AgregarAReady(p, [rafaga EXCEPT ![p] = r])
      BY <2>14 DEF VolverAReadySRT
    <3>3. [rafaga EXCEPT ![p] = r] \in [Pid -> Rafagas]
      BY <1>2, <3>1 DEF TypeOK, TiposDatos
    <3>4. Len(ready') = Len(ready) + 1
      BY <1>2, <3>1, <3>2, <3>3, AgregarAReadyTipo DEF TypeOK, TiposListas
    <3> QED BY <1>1, <1>3, <2>14, <3>4 DEF ReadyContado, Uno, VolverAReadySRT, AvisarHayPcb
  <2>15. CASE SacarDesalojadoDeRunning
    BY <1>1, <1>3, <2>15 DEF ReadyContado, Uno, SacarDesalojadoDeRunning,
       SacarDeRunning
  <2>16. CASE PasarAExit
    BY <1>1, <1>3, <2>16 DEF ReadyContado, Uno, PasarAExit, Recibir, SacarDeRunning
  <2>17. CASE AvisarConsola
    BY <1>1, <1>3, <2>17 DEF ReadyContado, Uno, AvisarConsola, DevolverLugar
  <2>18. CASE RelacionInexistente
    BY <1>1, <1>3, <2>18 DEF ReadyContado, Uno, RelacionInexistente
  <2>19. ASSUME NEW p \in Pid, TomarDispositivo(p) PROVE ReadyContado'
    BY <1>1, <1>3, <2>19 DEF ReadyContado, Uno, TomarDispositivo
  <2>20. CASE TerminarIO
    BY <1>1, <1>3, <2>20 DEF ReadyContado, Uno, TerminarIO, SacarDeBloqueado
  <2>21. CASE Desbloquear
    <3>1. hilo_es.pid \in Pid /\ AgregarAReady(hilo_es.pid, rafaga)
      BY <1>2, <2>21 DEF TypeOK, TiposHilos, Hilo, Desbloquear
    <3>2. Len(ready') = Len(ready) + 1
      BY <1>2, <3>1, AgregarAReadyTipo DEF TypeOK, TiposListas, TiposDatos
    <3> QED BY <1>1, <1>3, <2>21, <3>2 DEF ReadyContado, Uno, Desbloquear, AvisarHayPcb
  <2>22. CASE DesalojarTrasDesbloquear
    BY <1>1, <1>3, <2>22 DEF ReadyContado, Uno, DesalojarTrasDesbloquear,
       EvaluarDesalojo
  <2>23. CASE BuscarSuspendido
    BY <1>1, <1>3, <2>23 DEF ReadyContado, Uno, BuscarSuspendido
  <2>24. CASE PasarAReadySuspendido
    BY <1>1, <1>3, <2>24 DEF ReadyContado, Uno, PasarAReadySuspendido
  <2>25. CASE HilosSuspension
    BY <1>1, <1>3, <2>25 DEF ReadyContado, Uno, HilosSuspension, ConfirmarSuspension,
       VencerBloqueo, DevolverLugar, SacarDeBloqueado
  <2>26. CASE Cpu
    BY <1>1, <1>3, <2>26 DEF ReadyContado, Uno, Cpu, CpuRecibir, CpuInterrupcion,
       CpuIO, CpuExit, CpuDesalojo, CpuEnviar
  <2>27. CASE UNCHANGED vars
    BY <1>1, <1>3, <2>27 DEF ReadyContado, Uno, vars
  <2> QED
    BY <2>1, <2>2, <2>3, <2>4, <2>5, <2>6, <2>7, <2>8, <2>9, <2>10, <2>11, <2>12,
       <2>13, <2>14, <2>15, <2>16, <2>17, <2>18, <2>19, <2>20, <2>21, <2>22, <2>23,
       <2>24, <2>25, <2>26, <2>27 DEF Next, Sistema, SinTrabajo, HiloPasarReady,
       HiloCortoPlazo, CpuDispatchHandler, HiloBloqueo

(* A post of sem_sincro_ready follows every insertion in new and in        *)
(* ready_suspendido.                                                       *)
LEMMA IndInvPorAdmitir == IndInv /\ [Next]_vars => PorAdmitirContado'
<1> SUFFICES ASSUME IndInv, [Next]_vars PROVE PorAdmitirContado'
  OBVIOUS
<1> USE DEF listas, semaforos, datos, hilos, hilos_es, cpu, En, Mensaje, Nadie
<1>1. PorAdmitirContado
  BY DEF IndInv
<1>2. TypeOK
  BY DEF IndInv
<1>3. /\ Len(new) \in Nat /\ Len(ready_suspendido) \in Nat /\ sem_sincro_ready \in Nat
      /\ Cardinality(PorRegistrar) \in Nat
  BY <1>2, PorRegistrarFinito DEF TypeOK, TiposListas, TiposSemaforos
<1>4. IsFiniteSet(PorRegistrar)
  BY PorRegistrarFinito
<1>5. ClientesEnOrden
  BY DEF IndInv
<1> QED
  <2>1. CASE InicializarPcb
    <3>1. PorRegistrar' = PorRegistrar
      BY <1>2, <1>5, <2>1 DEF TypeOK, TiposHilos, TiposDatos, ClientesEnOrden, PorRegistrar,
         InicializarPcb, Pid
    <3> QED BY <1>1, <1>3, <3>1, <2>1 DEF PorAdmitirContado, Uno, InicializarPcb
  <2>2. ASSUME NEW p \in Pid, AgregarANew(p) PROVE PorAdmitirContado'
    <3>1. PorRegistrar' = PorRegistrar \union {p} /\ p \notin PorRegistrar
      BY <1>2, <2>2 DEF TypeOK, TiposHilos, PorRegistrar, AgregarANew, EncolarEnNew
    <3>2. Cardinality(PorRegistrar') = Cardinality(PorRegistrar) + 1
      BY <3>1, <1>4, FS_AddElement
    <3>3. Len(new') = Len(new) + 1
      BY <1>2, <2>2, AppendProperties DEF TypeOK, TiposListas, AgregarANew, EncolarEnNew
    <3>4. UNCHANGED <<ready_suspendido, sem_sincro_ready, hilo_ready>>
      BY <2>2 DEF AgregarANew
    <3> QED BY <1>1, <1>3, <3>2, <3>3, <3>4 DEF PorAdmitirContado, Uno
  <2>3. ASSUME NEW p \in Pid, AgregarRelacion(p) PROVE PorAdmitirContado'
    <3>1. PorRegistrar' = PorRegistrar \ {p} /\ p \in PorRegistrar
      BY <1>2, <2>3 DEF TypeOK, TiposHilos, PorRegistrar, AgregarRelacion
    <3>2. Cardinality(PorRegistrar') = Cardinality(PorRegistrar) - 1
      BY <3>1, <1>4, FS_RemoveElement
    <3>3. sem_sincro_ready' = sem_sincro_ready + 1
      BY <2>3 DEF AgregarRelacion
    <3>4. UNCHANGED <<new, ready_suspendido, hilo_ready>>
      BY <2>3 DEF AgregarRelacion
    <3> QED BY <1>1, <1>3, <3>2, <3>3, <3>4 DEF PorAdmitirContado, Uno
  <2>4. CASE MedianoPlazoSacar
    <3>1. Len(ready_suspendido') = Len(ready_suspendido) - 1
      BY <1>2, <2>4 DEF TypeOK, TiposListas, MedianoPlazoSacar
    <3>2. sem_sincro_ready' = sem_sincro_ready - 1
      BY <2>4 DEF MedianoPlazoSacar, EsperarLugar
    <3>3. hilo_ready.etapa # "lp_recibir" /\ hilo_ready'.etapa # "lp_recibir"
      BY <2>4 DEF MedianoPlazoSacar, EsperarLugar
    <3>4. new' = new /\ PorRegistrar' = PorRegistrar
      BY <2>4 DEF MedianoPlazoSacar, EsperarLugar, OtrosEsperarLugar, PorRegistrar
    <3> QED BY <1>1, <1>3, <3>1, <3>2, <3>3, <3>4 DEF PorAdmitirContado, Uno
  <2>5. CASE LargoPlazoPedirTabla
    BY <1>1, <1>3, <2>5, ListasNoVacias DEF PorAdmitirContado, Uno, PorRegistrar,
       LargoPlazoPedirTabla, EsperarLugar, OtrosEsperarLugar
  <2>6. CASE LargoPlazoRecibirTabla
    BY <1>1, <1>3, <2>6, ListasNoVacias DEF PorAdmitirContado, Uno, PorRegistrar,
       LargoPlazoRecibirTabla, SacarDeNew
  <2>7. CASE AgregarAReadyFIFO
    BY <1>1, <1>3, <2>7 DEF PorAdmitirContado, Uno, PorRegistrar, AgregarAReadyFIFO,
       AvisarHayPcb
  <2>8. CASE AgregarAReadySRT
    BY <1>1, <1>3, <2>8 DEF PorAdmitirContado, Uno, PorRegistrar, AgregarAReadySRT
  <2>9. CASE DesalojarTrasAgregar
    BY <1>1, <1>3, <2>9 DEF PorAdmitirContado, Uno, PorRegistrar,
       DesalojarTrasAgregar, EvaluarDesalojo, AvisarHayPcb
  <2>10. CASE HiloCortoPlazo
    BY <1>1, <1>3, <2>10 DEF PorAdmitirContado, Uno, PorRegistrar, HiloCortoPlazo,
       CortoPlazoDespachar, CortoPlazoRegistrar
  <2>11. CASE CpuDispatchHandler
    BY <1>1, <1>3, <2>11 DEF PorAdmitirContado, Uno, PorRegistrar,
       CpuDispatchHandler, BloquearFIFO, AgregarABloqueadoFIFO, BloquearSRT,
       SacarBloqueadoDeRunningSRT, VolverAReadySRT, SacarDesalojadoDeRunning,
       PasarAExit, AvisarConsola, RelacionInexistente, Recibir, SacarDeRunning,
       ComenzarBloqueo, AvisarHayPcb, DevolverLugar
  <2>12. ASSUME NEW p \in Pid, TomarDispositivo(p) PROVE PorAdmitirContado'
    BY <1>1, <1>3, <2>12 DEF PorAdmitirContado, Uno, PorRegistrar, TomarDispositivo
  <2>13. CASE TerminarIO
    BY <1>1, <1>3, <2>13 DEF PorAdmitirContado, Uno, PorRegistrar, TerminarIO,
       SacarDeBloqueado
  <2>14. CASE Desbloquear
    BY <1>1, <1>3, <2>14, SMTT(20) DEF PorAdmitirContado, Uno, PorRegistrar, Desbloquear,
       AvisarHayPcb
  <2>15. CASE DesalojarTrasDesbloquear
    BY <1>1, <1>3, <2>15 DEF PorAdmitirContado, Uno, PorRegistrar,
       DesalojarTrasDesbloquear, EvaluarDesalojo
  <2>16. CASE BuscarSuspendido
    BY <1>1, <1>3, <2>16 DEF PorAdmitirContado, Uno, PorRegistrar, BuscarSuspendido
  <2>17. CASE PasarAReadySuspendido
    <3>1. hilo_es.pid \in Pid
      BY <1>2, <2>17 DEF TypeOK, TiposHilos, Hilo, PasarAReadySuspendido
    <3>2. Len(ready_suspendido') = Len(ready_suspendido) + 1
      BY <1>2, <3>1, <2>17, AppendProperties DEF TypeOK, TiposListas, PasarAReadySuspendido
    <3> QED
      BY <1>1, <1>3, <1>4, <3>2, <2>17, SMTT(20) DEF PorAdmitirContado, Uno, PorRegistrar,
         PasarAReadySuspendido
  <2>18. CASE HilosSuspension
    BY <1>1, <1>3, <2>18 DEF PorAdmitirContado, Uno, PorRegistrar, HilosSuspension,
       ConfirmarSuspension, VencerBloqueo, DevolverLugar, SacarDeBloqueado
  <2>19. CASE Cpu
    BY <1>1, <1>3, <2>19 DEF PorAdmitirContado, Uno, PorRegistrar, Cpu, CpuRecibir,
       CpuInterrupcion, CpuIO, CpuExit, CpuDesalojo, CpuEnviar
  <2>20. CASE UNCHANGED vars
    BY <1>1, <1>3, <2>20 DEF PorAdmitirContado, Uno, PorRegistrar, vars
  <2> QED
    BY <2>1, <2>2, <2>3, <2>4, <2>5, <2>6, <2>7, <2>8, <2>9, <2>10, <2>11, <2>12,
       <2>13, <2>14, <2>15, <2>16, <2>17, <2>18, <2>19, <2>20 DEF Next, Sistema,
       SinTrabajo, Cliente, HiloPasarReady, HiloBloqueo

(* sem_cpu_libre is posted once per pcb taken out of running, and the pcb  *)
(* has come back from the CPU by then.                                     *)
LEMMA IndInvCpu == IndInv /\ [Next]_vars => CpuDeUnProceso'
<1> SUFFICES ASSUME IndInv, [Next]_vars PROVE CpuDeUnProceso'
  OBVIOUS
<1> USE DEF listas, semaforos, datos, hilos, hilos_es, cpu, En, Mensaje, Nadie
<1>1. CpuDeUnProceso
  BY DEF IndInv
<1>2. TypeOK
  BY DEF IndInv
<1>3. /\ dispatch_kernel \in Seq(MensajeDelCpu) /\ dispatch_cpu \in Seq(MensajeAlCpu)
      /\ running \in Seq(Pid) /\ en_cpu \in Pid \union {0}
  BY <1>2 DEF TypeOK, TiposListas, TiposCpu
<1> DEFINE lugaresCpu == <<running, sem_cpu_libre, sem_sincro_running, hilo_corto,
                           hilo_dispatch, dispatch_cpu, en_cpu, dispatch_kernel>>
<1>4. ASSUME UNCHANGED lugaresCpu PROVE CpuDeUnProceso'
  BY <1>1, <1>4 DEF CpuDeUnProceso, EnTransito
<1> QED
  <2>1. CASE Cliente
    <3>1. UNCHANGED lugaresCpu
      BY <2>1 DEF Cliente, InicializarPcb, AgregarANew, AgregarRelacion
    <3> QED BY <3>1, <1>4
  <2>2. CASE HiloPasarReady
    <3>1. UNCHANGED lugaresCpu
      <4>1. CASE MedianoPlazoSacar \/ LargoPlazoPedirTabla
        BY <4>1 DEF MedianoPlazoSacar, LargoPlazoPedirTabla, EsperarLugar, OtrosEsperarLugar
      <4>2. CASE LargoPlazoRecibirTabla
        BY <4>2 DEF LargoPlazoRecibirTabla
      <4>3. CASE AgregarAReadyFIFO
        BY <4>3 DEF AgregarAReadyFIFO
      <4>4. CASE AgregarAReadySRT
        BY <4>4 DEF AgregarAReadySRT
      <4>5. CASE DesalojarTrasAgregar
        BY <4>5 DEF DesalojarTrasAgregar
      <4> QED BY <2>2, <4>1, <4>2, <4>3, <4>4, <4>5 DEF HiloPasarReady
    <3> QED BY <3>1, <1>4
  <2>3. CASE CortoPlazoDespachar
    <3>1. PICK p \in Pid : p = Head(ready)
      BY <2>3, ListasNoVacias DEF CortoPlazoDespachar
    <3>2. /\ sem_cpu_libre = 1 /\ running = <<>> /\ hilo_corto.etapa = "esperar"
          /\ dispatch_cpu = <<>> /\ en_cpu = Nadie /\ dispatch_kernel = <<>>
          /\ hilo_dispatch.etapa \notin {"bloquear_srt", "volver"}
          /\ sem_sincro_running = 0
      BY <1>1, <2>3 DEF CpuDeUnProceso, CortoPlazoDespachar
    <3>3. sem_cpu_libre' = 0 /\ hilo_corto' = En("registrar", p)
      BY <2>3, <3>1, <3>2 DEF CortoPlazoDespachar
    <3>4. dispatch_cpu' = <<Mensaje("EJECUTAR", p)>>
      BY <2>3, <3>1, <3>2 DEF CortoPlazoDespachar
    <3>5. UNCHANGED <<running, sem_sincro_running, hilo_dispatch, en_cpu, dispatch_kernel>>
      BY <2>3 DEF CortoPlazoDespachar
    <3>6. EnTransito(p)'
      BY <3>2, <3>4, <3>5 DEF EnTransito
    <3> QED BY <3>1, <3>2, <3>3, <3>5, <3>6 DEF CpuDeUnProceso
  <2>4. CASE CortoPlazoRegistrar
    <3>1. PICK p \in Pid : /\ EnTransito(p) /\ running = <<>> /\ sem_sincro_running = 0
                           /\ sem_cpu_libre = 0 /\ hilo_corto = En("registrar", p)
      BY <1>1, <2>4 DEF CpuDeUnProceso, CortoPlazoRegistrar
    <3>2. running' = <<p>> /\ sem_sincro_running' = 1 /\ hilo_corto'.etapa = "esperar"
      BY <2>4, <3>1 DEF CortoPlazoRegistrar
    <3>3. UNCHANGED <<sem_cpu_libre, hilo_dispatch, dispatch_cpu, en_cpu, dispatch_kernel>>
      BY <2>4 DEF CortoPlazoRegistrar
    <3>4. EnTransito(p)'
      BY <3>1, <3>3 DEF EnTransito
    <3> QED BY <3>1, <3>2, <3>3, <3>4 DEF CpuDeUnProceso
  <2>5. CASE BloquearFIFO
    BY <1>1, <1>3, <2>5 DEF CpuDeUnProceso, EnTransito, BloquearFIFO, Recibir,
       SacarDeRunning
  <2>6. CASE AgregarABloqueadoFIFO
    BY <1>1, <1>3, <2>6 DEF CpuDeUnProceso, EnTransito, AgregarABloqueadoFIFO,
       ComenzarBloqueo
  <2>7. CASE BloquearSRT
    BY <1>1, <1>3, <2>7 DEF CpuDeUnProceso, EnTransito, BloquearSRT, Recibir
  <2>8. CASE SacarBloqueadoDeRunningSRT
    BY <1>1, <1>3, <2>8 DEF CpuDeUnProceso, EnTransito, SacarBloqueadoDeRunningSRT,
       SacarDeRunning, ComenzarBloqueo
  <2>9. CASE VolverAReadySRT
    BY <1>1, <1>3, <2>9 DEF CpuDeUnProceso, EnTransito, VolverAReadySRT, Recibir,
       AvisarHayPcb
  <2>10. CASE SacarDesalojadoDeRunning
    BY <1>1, <1>3, <2>10 DEF CpuDeUnProceso, EnTransito, SacarDesalojadoDeRunning,
       SacarDeRunning
  <2>11. CASE PasarAExit
    BY <1>1, <1>3, <2>11 DEF CpuDeUnProceso, EnTransito, PasarAExit, Recibir,
       SacarDeRunning
  <2>12. CASE AvisarConsola
    BY <1>1, <1>3, <2>12 DEF CpuDeUnProceso, EnTransito, AvisarConsola, DevolverLugar
  <2>13. CASE RelacionInexistente
    BY <1>1, <1>3, <2>13 DEF CpuDeUnProceso, EnTransito, RelacionInexistente
  <2>14. CASE HiloBloqueo
    BY <1>1, <1>3, <2>14 DEF CpuDeUnProceso, EnTransito, HiloBloqueo,
       TomarDispositivo, TerminarIO, Desbloquear, DesalojarTrasDesbloquear,
       BuscarSuspendido, PasarAReadySuspendido, SacarDeBloqueado, AvisarHayPcb,
       EvaluarDesalojo
  <2>15. CASE HilosSuspension
    BY <1>1, <1>3, <2>15 DEF CpuDeUnProceso, EnTransito, HilosSuspension,
       ConfirmarSuspension, VencerBloqueo, DevolverLugar, SacarDeBloqueado
  <2>16. CASE CpuRecibir
    BY <1>1, <1>3, <2>16 DEF CpuDeUnProceso, EnTransito, CpuRecibir
  <2>17. CASE CpuInterrupcion
    BY <1>1, <1>3, <2>17 DEF CpuDeUnProceso, EnTransito, CpuInterrupcion
  <2>18. CASE CpuIO
    BY <1>1, <1>3, <2>18 DEF CpuDeUnProceso, EnTransito, CpuIO, CpuEnviar
  <2>19. CASE CpuExit
    BY <1>1, <1>3, <2>19 DEF CpuDeUnProceso, EnTransito, CpuExit, CpuEnviar
  <2>20. CASE CpuDesalojo
    BY <1>1, <1>3, <2>20 DEF CpuDeUnProceso, EnTransito, CpuDesalojo, CpuEnviar
  <2>21. CASE UNCHANGED vars
    BY <1>1, <1>3, <2>21 DEF CpuDeUnProceso, EnTransito, vars
  <2> QED
    BY <2>1, <2>2, <2>3, <2>4, <2>5, <2>6, <2>7, <2>8, <2>9, <2>10, <2>11, <2>12,
       <2>13, <2>14, <2>15, <2>16, <2>17, <2>18, <2>19, <2>20, <2>21 DEF Next,
       Sistema, SinTrabajo, HiloCortoPlazo, CpuDispatchHandler, Cpu

(* In the initial state every list is empty and no handler has a pid.      *)
LEMMA IndInvInit == Init => IndInv
<1> SUFFICES ASSUME Init PROVE IndInv
  OBVIOUS
<1>1. TypeOK
  <2>1. TiposListas
    BY DEF Init, TiposListas
  <2>2. TiposSemaforos
    BY CantidadesAssumption DEF Init, TiposSemaforos
  <2>3. TiposDatos
    BY CantidadesAssumption, RafagasAssumption DEF Init, TiposDatos
  <2>4. TiposHilos
    BY DEF Init, TiposHilos, Hilo, En, Nadie
  <2>5. TiposCpu
    <3>1. dispatch_cpu \in Seq(MensajeAlCpu)
      BY DEF Init
    <3>2. dispatch_kernel \in Seq(MensajeDelCpu)
      BY DEF Init
    <3>3. interrupt \in Nat /\ en_cpu \in Pid \union {Nadie} /\ hay_interrupciones \in BOOLEAN
      BY DEF Init
    <3> QED BY <3>1, <3>2, <3>3 DEF TiposCpu
  <2> QED BY <2>1, <2>2, <2>3, <2>4, <2>5 DEF TypeOK
<1>2. ClientesEnOrden
  BY CantidadesAssumption DEF Init, ClientesEnOrden, Pid
<1>3. CpuDeUnProceso
  BY DEF Init, CpuDeUnProceso, En, Nadie
<1>4. ReadyContado
  BY DEF Init, ReadyContado, En, Nadie, Uno
<1>5. PorAdmitirContado
  <2>1. PorRegistrar = {}
    BY DEF Init, PorRegistrar
  <2> QED BY <2>1, FS_EmptySet DEF Init, PorAdmitirContado, En, Nadie, Uno
<1>6. PrimeroDeNew
  BY DEF Init, PrimeroDeNew, En, Nadie
<1> QED
  BY <1>1, <1>2, <1>3, <1>4, <1>5, <1>6 DEF IndInv

(* Every step of the kernel keeps the strengthening.                       *)
LEMMA IndInvPaso == IndInv /\ [Next]_vars => IndInv'
  BY IndInvTipo, IndInvOrden, IndInvCpu, IndInvReady, IndInvPorAdmitir, IndInvPrimero
     DEF IndInv

(* IndInv holds in every reachable state.                                  *)
THEOREM Inductiva == Spec => []IndInv
<1>1. Init => IndInv
  BY IndInvInit
<1>2. IndInv /\ [Next]_vars => IndInv'
  BY IndInvPaso
<1> QED
  BY <1>1, <1>2, PTL DEF Spec
-----------------------------------------------------------------------------
(* No thread ever takes the head of an empty list or stores a pcb that does *)
(* not exist, whatever the order of the threads' steps.                    *)
THEOREM Tipos == Spec => []TypeOK
<1>1. IndInv => TypeOK
  BY DEF IndInv
<1> QED
  BY <1>1, Inductiva, PTL

(* The CPU works for the process the kernel has registered as running, and *)
(* for no other: the head of running is the process of every message.      *)
THEOREM CpuExclusiva == Spec => []CpuDeUnProceso
<1>1. IndInv => CpuDeUnProceso
  BY DEF IndInv
<1> QED
  BY <1>1, Inductiva, PTL

(* hilo_de_corto_plazo never removes the head of an empty ready: the posts *)
(* of sem_hay_pcb_ready match what is in the list.                         *)
THEOREM ReadyContada == Spec => []ReadyContado
<1>1. IndInv => ReadyContado
  BY DEF IndInv
<1> QED
  BY <1>1, Inductiva, PTL

(* hilo_pasar_ready never looks at the head of an empty new: the posts of  *)
(* sem_sincro_ready match what waits in new and in ready_suspendido.       *)
THEOREM AdmisionContada == Spec => []PorAdmitirContado
<1>1. IndInv => PorAdmitirContado
  BY DEF IndInv
<1> QED
  BY <1>1, Inductiva, PTL

(* The pcb that leaves new is the one whose tables memory has initialised. *)
THEOREM NewEstable == Spec => []PrimeroDeNew
<1>1. IndInv => PrimeroDeNew
  BY DEF IndInv
<1> QED
  BY <1>1, Inductiva, PTL
-----------------------------------------------------------------------------
(* Where each process is.  The stages of a pcb, finer than the states of   *)
(* Lugares, each with what the lists and the threads say of a process that *)
(* is in it.                                                               *)
Sitios == {"fuera", "cliente", "new", "lp_recibir", "admitido", "ready", "cpu", "bloquear",
           "bloqueado", "suspendiendo", "a_ready", "bloqueado_suspendido",
           "a_ready_suspendido", "ready_suspendido", "exit", "finalizado"}

Ubicado(p, s) ==
  /\ p > pid_contador <=> s = "fuera"
  /\ cliente[p] = "agregar_new" <=> s = "cliente"
  /\ (p \in ToSet(new) /\ hilo_ready # En("lp_recibir", p)) <=> s = "new"
  /\ hilo_ready = En("lp_recibir", p) <=> s = "lp_recibir"
  /\ (hilo_ready = En("lp_agregar", p) \/ hilo_ready = En("mp_agregar", p)) <=> s = "admitido"
  /\ p \in ToSet(ready) <=> s = "ready"
  /\ EnPoderDeLaCpu(p) <=> s = "cpu"
  /\ hilo_dispatch = En("bloquear", p) <=> s = "bloquear"
  /\ p \in bloqueado <=> s = "bloqueado"
  /\ p \in suspendiendo <=> s = "suspendiendo"
  /\ hilo_es = En("a_ready", p) <=> s = "a_ready"
  /\ p \in bloqueado_suspendido <=> s = "bloqueado_suspendido"
  /\ hilo_es = En("a_ready_suspendido", p) <=> s = "a_ready_suspendido"
  /\ p \in ToSet(ready_suspendido) <=> s = "ready_suspendido"
  /\ (hilo_dispatch = En("exit", p) \/ hilo_dispatch = En("caido", p)) <=> s = "exit"
  /\ p \in finalizados <=> s = "finalizado"

(* Each process is in one, and the lists have no repetitions.              *)
SitioUnico == \A p \in Pid : \E s \in Sitios : Ubicado(p, s)
ColasSinRepetir == IsInjective(new) /\ IsInjective(ready) /\ IsInjective(ready_suspendido)

(* What a step does: p goes from a stage to another, or nobody moves.      *)
Traslado(p, s, t) ==
  /\ Ubicado(p, s) /\ Ubicado(p, t)'
  /\ \A q \in Pid, u \in Sitios : q # p /\ Ubicado(q, u) => Ubicado(q, u)'
Quieto == \A q \in Pid, u \in Sitios : Ubicado(q, u) => Ubicado(q, u)'

(* The head of a list without repetitions is in it, and in its tail no more*)
LEMMA QuitarCabeza ==
  ASSUME NEW cola \in Seq(Pid), cola # <<>>, IsInjective(cola)
  PROVE  /\ Head(cola) \in ToSet(cola) /\ IsInjective(Tail(cola))
         /\ \A q : q \in ToSet(Tail(cola)) <=> q \in ToSet(cola) /\ q # Head(cola)
<1> DEFINE resto == Tail(cola)
<1>1. /\ resto \in Seq(Pid) /\ Len(cola) \in Nat /\ Len(cola) > 0
      /\ Len(resto) = Len(cola) - 1 /\ Head(cola) = cola[1]
      /\ \A i \in 1 .. Len(resto) : resto[i] = cola[i + 1]
  BY HeadTailProperties
<1>2. DOMAIN cola = 1 .. Len(cola) /\ DOMAIN resto = 1 .. Len(resto)
  BY <1>1
<1> HIDE DEF resto
<1>3. IsInjective(resto)
  <2> SUFFICES ASSUME NEW i \in 1 .. Len(resto), NEW j \in 1 .. Len(resto), resto[i] = resto[j]
               PROVE  i = j
    BY <1>2 DEF IsInjective
  <2>1. i \in Int /\ j \in Int /\ i + 1 \in 1 .. Len(cola) /\ j + 1 \in 1 .. Len(cola)
    BY <1>1
  <2>2. cola[i + 1] = cola[j + 1]
    BY <1>1
  <2>3. i + 1 = j + 1
    BY <1>2, <2>1, <2>2 DEF IsInjective
  <2> QED BY <2>1, <2>3
<1>4. Head(cola) \in ToSet(cola)
  BY <1>1, <1>2 DEF ToSet
<1>5. ASSUME NEW q, q \in ToSet(resto) PROVE q \in ToSet(cola) /\ q # Head(cola)
  <2>1. PICK i \in 1 .. Len(resto) : q = resto[i]
    BY <1>2, <1>5 DEF ToSet
  <2>2. i + 1 \in 1 .. Len(cola) /\ q = cola[i + 1] /\ i + 1 # 1 /\ 1 \in 1 .. Len(cola)
    BY <1>1, <2>1
  <2> QED BY <1>1, <1>2, <2>2 DEF ToSet, IsInjective
<1>6. ASSUME NEW q, q \in ToSet(cola), q # Head(cola) PROVE q \in ToSet(resto)
  <2>1. PICK i \in 1 .. Len(cola) : q = cola[i]
    BY <1>2, <1>6 DEF ToSet
  <2>2. i - 1 \in 1 .. Len(resto) /\ resto[i - 1] = cola[(i - 1) + 1] /\ (i - 1) + 1 = i
    BY <1>1, <1>6, <2>1
  <2> QED BY <1>2, <2>1, <2>2 DEF ToSet
<1> QED BY <1>3, <1>4, <1>5, <1>6 DEF resto

(* A list with a pcb more, wherever it was put in, has that one and those  *)
(* it had, and no repetitions if it was not there.                         *)
LEMMA InsertadoCola ==
  ASSUME NEW cola \in Seq(Pid), NEW nueva, NEW p \in Pid, NEW k \in 1 .. Len(cola) + 1,
         Insertado(nueva, cola, p, k)
  PROVE  /\ \A q : q \in ToSet(nueva) <=> q \in ToSet(cola) \/ q = p
         /\ IsInjective(cola) /\ p \notin ToSet(cola) => IsInjective(nueva)
<1>1. /\ nueva \in Seq(Pid) /\ Len(nueva) = Len(cola) + 1 /\ Len(cola) \in Nat
      /\ \A i \in 1 .. Len(cola) + 1 :
           nueva[i] = IF i < k THEN cola[i] ELSE IF i = k THEN p ELSE cola[i - 1]
      /\ DOMAIN cola = 1 .. Len(cola) /\ DOMAIN nueva = 1 .. Len(cola) + 1
  BY DEF Insertado
<1>2. ASSUME NEW q, q \in ToSet(nueva) PROVE q \in ToSet(cola) \/ q = p
  <2>1. PICK i \in 1 .. Len(cola) + 1 : q = nueva[i]
    BY <1>1, <1>2 DEF ToSet
  <2>2. CASE i < k
    <3>1. i \in 1 .. Len(cola) /\ q = cola[i]
      BY <1>1, <2>1, <2>2
    <3> QED BY <1>1, <3>1 DEF ToSet
  <2>3. CASE i = k
    BY <1>1, <2>1, <2>3
  <2>4. CASE i > k
    <3>1. i - 1 \in 1 .. Len(cola) /\ q = cola[i - 1]
      BY <1>1, <2>1, <2>4
    <3> QED BY <1>1, <3>1 DEF ToSet
  <2>5. i < k \/ i = k \/ i > k
    BY <1>1, <2>1
  <2> QED BY <2>2, <2>3, <2>4, <2>5
<1>3. p \in ToSet(nueva)
  <2>1. k \in 1 .. Len(cola) + 1 /\ nueva[k] = p
    BY <1>1
  <2> QED BY <1>1, <2>1 DEF ToSet
<1>4. ASSUME NEW q, q \in ToSet(cola) PROVE q \in ToSet(nueva)
  <2>1. PICK i \in 1 .. Len(cola) : q = cola[i]
    BY <1>1, <1>4 DEF ToSet
  <2>2. CASE i < k
    <3>1. i \in 1 .. Len(cola) + 1 /\ q = nueva[i]
      BY <1>1, <2>1, <2>2
    <3> QED BY <1>1, <3>1 DEF ToSet
  <2>3. CASE i >= k
    <3>1. i + 1 \in 1 .. Len(cola) + 1 /\ q = nueva[i + 1]
      <4>1. i + 1 \in 1 .. Len(cola) + 1 /\ ~(i + 1 < k) /\ i + 1 # k /\ (i + 1) - 1 = i
        BY <1>1, <2>1, <2>3
      <4> QED BY <1>1, <2>1, <4>1
    <3> QED BY <1>1, <3>1 DEF ToSet
  <2>4. i < k \/ i >= k
    BY <1>1, <2>1
  <2> QED BY <2>2, <2>3, <2>4
<1>5. ASSUME IsInjective(cola), p \notin ToSet(cola) PROVE IsInjective(nueva)
  <2> DEFINE antes(i) == IF i < k THEN i ELSE i - 1
  <2>1. \A i \in 1 .. Len(cola) : cola[i] # p
    BY <1>1, <1>5 DEF ToSet
  <2>2. \A i \in 1 .. Len(cola) + 1 :
          i # k => antes(i) \in 1 .. Len(cola) /\ nueva[i] = cola[antes(i)]
    BY <1>1
  <2>3. \A i, j \in 1 .. Len(cola) + 1 : i # k /\ j # k /\ antes(i) = antes(j) => i = j
    BY <1>1
  <2>4. nueva[k] = p
    BY <1>1
  <2> HIDE DEF antes
  <2>5. \A i, j \in 1 .. Len(cola) + 1 : nueva[i] = nueva[j] => i = j
    <3> SUFFICES ASSUME NEW i \in 1 .. Len(cola) + 1, NEW j \in 1 .. Len(cola) + 1,
                        nueva[i] = nueva[j]
                 PROVE  i = j
      OBVIOUS
    <3>1. i = k \/ j = k => i = j
      BY <2>1, <2>2, <2>4
    <3>2. i # k /\ j # k => i = j
      <4>1. ASSUME i # k, j # k PROVE antes(i) = antes(j)
        BY <1>1, <1>5, <2>2, <4>1 DEF IsInjective
      <4> QED BY <2>3, <4>1
    <3> QED BY <3>1, <3>2
  <2> QED BY <1>1, <2>5 DEF IsInjective
<1> QED BY <1>2, <1>3, <1>4, <1>5

(* list_add is an insertion at the end.                                    *)
LEMMA AgregarAlFinal ==
  ASSUME NEW cola \in Seq(Pid), NEW p \in Pid
  PROVE  /\ \A q : q \in ToSet(Append(cola, p)) <=> q \in ToSet(cola) \/ q = p
         /\ IsInjective(cola) /\ p \notin ToSet(cola) => IsInjective(Append(cola, p))
<1>1. Insertado(Append(cola, p), cola, p, Len(cola) + 1)
  BY AppendProperties DEF Insertado
<1>2. Len(cola) + 1 \in 1 .. Len(cola) + 1
  OBVIOUS
<1> QED BY <1>1, <1>2, InsertadoCola

(* And so is the entrance in ready, with either algorithm.                 *)
LEMMA AgregarAReadyCola ==
  ASSUME ready \in Seq(Pid), NEW p \in Pid, NEW r \in [Pid -> Rafagas],
         AgregarAReady(p, r)
  PROVE  /\ \A q : q \in ToSet(ready') <=> q \in ToSet(ready) \/ q = p
         /\ IsInjective(ready) /\ p \notin ToSet(ready) => IsInjective(ready')
<1>1. r \in [Pid -> Int]
  BY RafagasAssumption
<1>2. CASE SRT
  <2>1. PICK k \in 1 .. Len(ready) + 1 :
          Insertado(InsertarOrdenado(ready, p, r), ready, p, k)
    BY <1>1, InsertarOrdenadoForma
  <2>2. ready' = InsertarOrdenado(ready, p, r)
    BY <1>2 DEF AgregarAReady
  <2> QED BY <2>1, <2>2, InsertadoCola
<1>3. CASE ~SRT
  BY <1>3, AgregarAlFinal DEF AgregarAReady
<1> QED BY <1>2, <1>3

(* A socket with one message at most is about its process.                 *)
LEMMA PidsDe ==
  ASSUME NEW M, NEW s \in Seq(M), s = <<>> \/ Len(s) = 1, NEW q
  PROVE  q \in ToSet(Pids(s)) <=> s # <<>> /\ Head(s).pid = q
<1>1. CASE s = <<>>
  BY <1>1 DEF Pids, ToSet
<1>2. CASE s # <<>>
  <2>1. Len(s) = 1 /\ Head(s) = s[1]
    BY <1>2
  <2>2. Pids(s) = [i \in {1} |-> s[1].pid]
    <3>1. 1 .. Len(s) = {1}
      BY <2>1
    <3> QED BY <3>1 DEF Pids
  <2> QED BY <1>2, <2>1, <2>2 DEF ToSet
<1> QED BY <1>1, <1>2

(* What the CPU and its sockets hold, by CpuDeUnProceso.                   *)
EnLaCpu(q) ==
  \/ en_cpu = q
  \/ dispatch_cpu # <<>> /\ Head(dispatch_cpu).pid = q
  \/ dispatch_kernel # <<>> /\ Head(dispatch_kernel).pid = q
LEMMA PoderDeLaCpu ==
  ASSUME IndInv, IndInv', NEW q
  PROVE  /\ EnPoderDeLaCpu(q) <=> EnLaCpu(q)
         /\ EnPoderDeLaCpu(q)' <=> EnLaCpu(q)'
<1>1. \A m : Len(<<m>>) = 1
  OBVIOUS
<1>2. /\ dispatch_cpu \in Seq(MensajeAlCpu) /\ dispatch_kernel \in Seq(MensajeDelCpu)
      /\ dispatch_cpu = <<>> \/ Len(dispatch_cpu) = 1
      /\ dispatch_kernel = <<>> \/ Len(dispatch_kernel) = 1
  <2>1. TypeOK /\ CpuDeUnProceso
    BY DEF IndInv
  <2>2. dispatch_cpu = <<>> \/ \E p \in Pid : dispatch_cpu = <<Mensaje("EJECUTAR", p)>>
    BY <2>1 DEF CpuDeUnProceso, EnTransito
  <2>3. dispatch_kernel = <<>> \/ Len(dispatch_kernel) = 1
    BY <2>1 DEF CpuDeUnProceso, EnTransito
  <2> QED BY <1>1, <2>1, <2>2, <2>3 DEF TypeOK, TiposCpu
<1>3. /\ dispatch_cpu' \in Seq(MensajeAlCpu) /\ dispatch_kernel' \in Seq(MensajeDelCpu)
      /\ dispatch_cpu' = <<>> \/ Len(dispatch_cpu') = 1
      /\ dispatch_kernel' = <<>> \/ Len(dispatch_kernel') = 1
  <2>1. TypeOK' /\ CpuDeUnProceso'
    BY DEF IndInv
  <2>2. dispatch_cpu' = <<>> \/ \E p \in Pid : dispatch_cpu' = <<Mensaje("EJECUTAR", p)>>
    BY <2>1 DEF CpuDeUnProceso, EnTransito
  <2>3. dispatch_kernel' = <<>> \/ Len(dispatch_kernel') = 1
    BY <2>1 DEF CpuDeUnProceso, EnTransito
  <2>4. dispatch_cpu' \in Seq(MensajeAlCpu) /\ dispatch_kernel' \in Seq(MensajeDelCpu)
    BY <2>1 DEF TypeOK, TiposCpu, MensajeAlCpu, MensajeDelCpu
  <2> QED BY <1>1, <2>2, <2>3, <2>4
<1>4. EnPoderDeLaCpu(q) <=> EnLaCpu(q)
  <2>1. /\ q \in ToSet(Pids(dispatch_cpu)) <=>
             dispatch_cpu # <<>> /\ Head(dispatch_cpu).pid = q
        /\ q \in ToSet(Pids(dispatch_kernel)) <=>
             dispatch_kernel # <<>> /\ Head(dispatch_kernel).pid = q
    BY <1>2, PidsDe
  <2> QED BY <2>1 DEF EnPoderDeLaCpu, EnLaCpu
<1>5. EnPoderDeLaCpu(q)' <=> EnLaCpu(q)'
  <2>1. /\ q \in ToSet(Pids(dispatch_cpu')) <=>
             dispatch_cpu' # <<>> /\ Head(dispatch_cpu').pid = q
        /\ q \in ToSet(Pids(dispatch_kernel')) <=>
             dispatch_kernel' # <<>> /\ Head(dispatch_kernel').pid = q
    BY <1>3, PidsDe
  <2>2. /\ Pids(dispatch_cpu)' = Pids(dispatch_cpu')
        /\ Pids(dispatch_kernel)' = Pids(dispatch_kernel')
    BY DEF Pids
  <2> QED BY <2>1, <2>2 DEF EnPoderDeLaCpu, EnLaCpu
<1> QED BY <1>4, <1>5

(* When the kernel receives a message its process leaves the CPU, and is   *)
(* the head of running as soon as it is registered there.                  *)
LEMMA Recibido ==
  ASSUME IndInv, IndInv', NEW tipo, Recibir(tipo)
  PROVE  \E p \in Pid :
           /\ Head(dispatch_kernel).pid = p
           /\ \A q \in Pid : EnPoderDeLaCpu(q) <=> q = p
           /\ \A q \in Pid : ~EnPoderDeLaCpu(q)'
           /\ sem_sincro_running > 0 => running = <<p>>
<1>1. CpuDeUnProceso /\ dispatch_kernel \in Seq(MensajeDelCpu)
  BY DEF IndInv, TypeOK, TiposCpu
<1>2. PICK p \in Pid :
        /\ dispatch_cpu = <<>> /\ en_cpu = Nadie /\ Len(dispatch_kernel) = 1
        /\ dispatch_kernel[1].pid = p
        /\ \/ running = <<p>> /\ sem_sincro_running = 1
           \/ sem_sincro_running = 0
  <2>1. dispatch_kernel # <<>>
    BY DEF Recibir
  <2> QED BY <1>1, <2>1 DEF CpuDeUnProceso, EnTransito
<1>3. /\ Head(dispatch_kernel) = dispatch_kernel[1] /\ Tail(dispatch_kernel) = <<>>
      /\ dispatch_kernel # <<>>
  <2>1. dispatch_kernel # <<>>
    BY <1>2 DEF Recibir
  <2>2. Tail(dispatch_kernel) \in Seq(MensajeDelCpu) /\ Len(Tail(dispatch_kernel)) = 0
    BY <1>1, <1>2, <2>1, HeadTailProperties
  <2>3. Tail(dispatch_kernel) = <<>>
    BY <2>2, EmptySeq
  <2> QED BY <2>1, <2>3
<1>4. dispatch_cpu' = <<>> /\ en_cpu' = Nadie /\ dispatch_kernel' = <<>>
  BY <1>2, <1>3 DEF Recibir
<1>5. \A q \in Pid : q # Nadie
  BY DEF Pid, Nadie
<1>6. \A q \in Pid : EnLaCpu(q) <=> q = p
  BY <1>2, <1>3, <1>5 DEF EnLaCpu
<1>7. \A q \in Pid : ~EnLaCpu(q)'
  BY <1>4, <1>5 DEF EnLaCpu
<1> QED BY <1>2, <1>3, <1>6, <1>7, PoderDeLaCpu
-----------------------------------------------------------------------------
(* The steps of the consoles' handlers: a process is created and enters new*)
LEMMA MueveCliente ==
  ASSUME IndInv, IndInv', SitioUnico, ColasSinRepetir
  PROVE  /\ InicializarPcb =>
              /\ ColasSinRepetir'
              /\ \E p \in Pid : Traslado(p, "fuera", "cliente")
         /\ \A p \in Pid : AgregarANew(p) =>
              ColasSinRepetir' /\ Traslado(p, "cliente", "new")
         /\ \A p \in Pid : AgregarRelacion(p) => ColasSinRepetir' /\ Quieto
<1> USE DEF listas, semaforos, datos, hilos, hilos_es
<1>1. TypeOK /\ ClientesEnOrden
  BY DEF IndInv
<1>2. ASSUME InicializarPcb
      PROVE  ColasSinRepetir' /\ \E p \in Pid : Traslado(p, "fuera", "cliente")
  <2>1. PICK p : p = pid_contador + 1
    OBVIOUS
  <2>2. /\ p \in Pid /\ pid_contador' = p /\ p > pid_contador
        /\ \A q \in Pid : q # p => (q > pid_contador <=> q > pid_contador')
        /\ ~(p > pid_contador')
    BY <1>1, <1>2, <2>1, CantidadesAssumption DEF InicializarPcb, TypeOK, TiposDatos, Pid
  <2>3. /\ cliente' = [cliente EXCEPT ![p] = "agregar_new"]
        /\ cliente \in [Pid -> {"sin_pid", "agregar_new", "agregar_relacion", "fin"}]
        /\ cliente[p] = "sin_pid"
    BY <1>1, <1>2, <2>1, <2>2 DEF InicializarPcb, ClientesEnOrden, TypeOK, TiposHilos
  <2>4. UNCHANGED <<listas, hilo_ready, hilo_dispatch, hilos_es, finalizados>>
    BY <1>2 DEF InicializarPcb
  <2>5. \A q \in Pid : EnPoderDeLaCpu(q)' <=> EnPoderDeLaCpu(q)
    BY <1>2 DEF InicializarPcb, EnPoderDeLaCpu, Pids, cpu
  <2>6. Ubicado(p, "fuera")
    BY <2>2 DEF SitioUnico, Ubicado
  <2>7. Traslado(p, "fuera", "cliente")
    <3>1. Ubicado(p, "cliente")'
      BY <2>2, <2>3, <2>4, <2>5, <2>6 DEF Ubicado
    <3>2. \A q \in Pid, u \in Sitios : q # p /\ Ubicado(q, u) => Ubicado(q, u)'
      BY <2>2, <2>3, <2>4, <2>5 DEF Ubicado
    <3> QED BY <2>6, <3>1, <3>2 DEF Traslado
  <2> QED BY <2>2, <2>4, <2>7 DEF ColasSinRepetir
<1>3. ASSUME NEW p \in Pid, AgregarANew(p)
      PROVE  ColasSinRepetir' /\ Traslado(p, "cliente", "new")
  <2>1. /\ cliente \in [Pid -> {"sin_pid", "agregar_new", "agregar_relacion", "fin"}]
        /\ cliente[p] = "agregar_new"
        /\ cliente' = [cliente EXCEPT ![p] = "agregar_relacion"]
        /\ new' = Append(new, p) /\ new \in Seq(Pid)
    BY <1>1, <1>3 DEF AgregarANew, EncolarEnNew, TypeOK, TiposHilos, TiposListas
  <2>2. UNCHANGED <<ready, bloqueado, bloqueado_suspendido, ready_suspendido,
                    pid_contador, hilo_ready, hilo_dispatch, hilos_es, finalizados>>
    BY <1>3 DEF AgregarANew
  <2>3. \A q \in Pid : EnPoderDeLaCpu(q)' <=> EnPoderDeLaCpu(q)
    BY <1>3 DEF AgregarANew, EnPoderDeLaCpu, Pids, cpu
  <2>4. Ubicado(p, "cliente")
    BY <2>1 DEF SitioUnico, Ubicado
  <2>5. p \notin ToSet(new)
    <3>1. hilo_ready # En("lp_recibir", p)
      BY <2>4 DEF Ubicado
    <3> QED BY <2>4, <3>1 DEF Ubicado
  <2>6. \A q : q \in ToSet(new') <=> q \in ToSet(new) \/ q = p
    BY <2>1, AgregarAlFinal
  <2>7. IsInjective(new')
    BY <2>1, <2>5, AgregarAlFinal DEF ColasSinRepetir
  <2>8. Traslado(p, "cliente", "new")
    <3>1. Ubicado(p, "new")'
      BY <2>1, <2>2, <2>3, <2>4, <2>6 DEF Ubicado
    <3>2. \A q \in Pid, u \in Sitios : q # p /\ Ubicado(q, u) => Ubicado(q, u)'
      BY <2>1, <2>2, <2>3, <2>6 DEF Ubicado
    <3> QED BY <2>4, <3>1, <3>2 DEF Traslado
  <2> QED BY <2>2, <2>7, <2>8 DEF ColasSinRepetir
<1>4. ASSUME NEW p \in Pid, AgregarRelacion(p) PROVE ColasSinRepetir' /\ Quieto
  <2>1. /\ cliente \in [Pid -> {"sin_pid", "agregar_new", "agregar_relacion", "fin"}]
        /\ cliente[p] = "agregar_relacion" /\ cliente' = [cliente EXCEPT ![p] = "fin"]
    BY <1>1, <1>4 DEF AgregarRelacion, TypeOK, TiposHilos
  <2>2. UNCHANGED <<new, ready, bloqueado, bloqueado_suspendido, ready_suspendido,
                    pid_contador, hilo_ready, hilo_dispatch, hilos_es, finalizados>>
    BY <1>4 DEF AgregarRelacion
  <2>3. \A q \in Pid : EnPoderDeLaCpu(q)' <=> EnPoderDeLaCpu(q)
    BY <1>4 DEF AgregarRelacion, EnPoderDeLaCpu, Pids, cpu
  <2>4. Quieto
    BY <2>1, <2>2, <2>3 DEF Ubicado, Quieto
  <2> QED BY <2>2, <2>4 DEF ColasSinRepetir
<1> QED BY <1>2, <1>3, <1>4

(* A thread is in its stage with its pcb, if it has one.                   *)
LEMMA HilosEn ==
  ASSUME TypeOK
  PROVE  /\ hilo_ready = En(hilo_ready.etapa, hilo_ready.pid)
         /\ hilo_dispatch = En(hilo_dispatch.etapa, hilo_dispatch.pid)
         /\ hilo_es = En(hilo_es.etapa, hilo_es.pid)
         /\ hilo_ready.etapa # "esperar" => hilo_ready.pid \in Pid
         /\ hilo_dispatch.etapa # "esperar" => hilo_dispatch.pid \in Pid
         /\ hilo_es.etapa # "libre" => hilo_es.pid \in Pid
  BY DEF TypeOK, TiposHilos, Hilo, En

(* Two stages of a thread are the same when the stage and the pcb are.     *)
LEMMA EtapasDistintas ==
  ASSUME NEW e, NEW f, NEW p, NEW q
  PROVE  /\ En(e, p) = En(f, q) <=> e = f /\ p = q
         /\ En(e, p).etapa = e /\ En(e, p).pid = p
  BY DEF En

(* The steps of hilo_pasar_ready up to the admission of a process.         *)
LEMMA MueveAdmision ==
  ASSUME IndInv, IndInv', SitioUnico, ColasSinRepetir
  PROVE  /\ MedianoPlazoSacar =>
              /\ ColasSinRepetir'
              /\ \E p \in Pid : Traslado(p, "ready_suspendido", "admitido")
         /\ LargoPlazoPedirTabla =>
              ColasSinRepetir' /\ \E p \in Pid : Traslado(p, "new", "lp_recibir")
         /\ LargoPlazoRecibirTabla =>
              /\ ColasSinRepetir'
              /\ \E p \in Pid : Traslado(p, "lp_recibir", "admitido") /\ p = hilo_ready.pid
<1> USE DEF listas, semaforos, datos, hilos, hilos_es
<1>1. /\ TypeOK /\ PrimeroDeNew /\ new \in Seq(Pid) /\ ready_suspendido \in Seq(Pid)
      /\ IsInjective(new) /\ IsInjective(ready_suspendido)
  BY DEF IndInv, TypeOK, TiposListas, ColasSinRepetir
<1>2. hilo_ready = En(hilo_ready.etapa, hilo_ready.pid)
  BY <1>1, HilosEn
<1>3. ASSUME MedianoPlazoSacar
      PROVE  /\ ColasSinRepetir'
             /\ \E p \in Pid : Traslado(p, "ready_suspendido", "admitido")
  <2>1. PICK p \in Pid : p = Head(ready_suspendido) /\ ready_suspendido # <<>>
    BY <1>3, ListasNoVacias DEF MedianoPlazoSacar
  <2>2. /\ hilo_ready.etapa = "esperar" /\ hilo_ready' = En("mp_agregar", p)
        /\ ready_suspendido' = Tail(ready_suspendido)
    BY <1>3, <2>1 DEF MedianoPlazoSacar, EsperarLugar
  <2>3. UNCHANGED <<new, ready, bloqueado, bloqueado_suspendido, pid_contador, cliente,
                    hilo_dispatch, hilos_es, finalizados>>
    BY <1>3 DEF MedianoPlazoSacar, EsperarLugar, OtrosEsperarLugar
  <2>4. \A q \in Pid : EnPoderDeLaCpu(q)' <=> EnPoderDeLaCpu(q)
    BY <1>3 DEF MedianoPlazoSacar, EsperarLugar, OtrosEsperarLugar, EnPoderDeLaCpu, Pids, cpu
  <2>5. /\ p \in ToSet(ready_suspendido) /\ IsInjective(ready_suspendido')
        /\ \A q : q \in ToSet(ready_suspendido') <=> q \in ToSet(ready_suspendido) /\ q # p
    BY <1>1, <2>1, <2>2, QuitarCabeza
  <2>6. \A e, q : hilo_ready = En(e, q) => e = "esperar"
    BY <1>2, <2>2, EtapasDistintas
  <2>7. Ubicado(p, "ready_suspendido")
    BY <2>5 DEF SitioUnico, Ubicado
  <2>8. Ubicado(p, "admitido")'
    BY <2>2, <2>3, <2>4, <2>5, <2>7, EtapasDistintas DEF Ubicado
  <2>9. \A q \in Pid, u \in Sitios : q # p /\ Ubicado(q, u) => Ubicado(q, u)'
    BY <2>2, <2>3, <2>4, <2>5, <2>6, EtapasDistintas DEF Ubicado
  <2> QED BY <2>3, <2>5, <2>7, <2>8, <2>9 DEF Traslado, ColasSinRepetir
<1>4. ASSUME LargoPlazoPedirTabla
      PROVE  ColasSinRepetir' /\ \E p \in Pid : Traslado(p, "new", "lp_recibir")
  <2>1. PICK p \in Pid : p = Head(new) /\ new # <<>>
    BY <1>4, ListasNoVacias DEF LargoPlazoPedirTabla, EsperarLugar
  <2>2. hilo_ready.etapa = "esperar" /\ hilo_ready' = En("lp_recibir", p)
    BY <1>4, <2>1 DEF LargoPlazoPedirTabla, EsperarLugar
  <2>3. UNCHANGED <<new, ready, bloqueado, bloqueado_suspendido, ready_suspendido,
                    pid_contador, cliente, hilo_dispatch, hilos_es, finalizados>>
    BY <1>4 DEF LargoPlazoPedirTabla, EsperarLugar, OtrosEsperarLugar
  <2>4. \A q \in Pid : EnPoderDeLaCpu(q)' <=> EnPoderDeLaCpu(q)
    BY <1>4 DEF LargoPlazoPedirTabla, EsperarLugar, OtrosEsperarLugar, EnPoderDeLaCpu, Pids, cpu
  <2>5. p \in ToSet(new)
    BY <1>1, <2>1, QuitarCabeza
  <2>6. \A e, q : hilo_ready = En(e, q) => e = "esperar"
    BY <1>2, <2>2, EtapasDistintas
  <2>7. Ubicado(p, "new")
    <3>1. hilo_ready # En("lp_recibir", p)
      BY <2>6
    <3> QED BY <2>5, <3>1 DEF SitioUnico, Ubicado
  <2>8. Ubicado(p, "lp_recibir")'
    BY <2>2, <2>3, <2>4, <2>7, EtapasDistintas DEF Ubicado
  <2>9. \A q \in Pid, u \in Sitios : q # p /\ Ubicado(q, u) => Ubicado(q, u)'
    BY <2>2, <2>3, <2>4, <2>6, EtapasDistintas DEF Ubicado
  <2> QED BY <2>3, <2>7, <2>8, <2>9 DEF Traslado, ColasSinRepetir
<1>5. ASSUME LargoPlazoRecibirTabla
      PROVE  /\ ColasSinRepetir'
             /\ \E p \in Pid : Traslado(p, "lp_recibir", "admitido") /\ p = hilo_ready.pid
  <2>1. PICK p \in Pid : p = Head(new) /\ new # <<>>
    BY <1>5, ListasNoVacias DEF LargoPlazoRecibirTabla
  <2>2. /\ hilo_ready = En("lp_recibir", p) /\ hilo_ready' = En("lp_agregar", p)
        /\ p = hilo_ready.pid /\ new' = Tail(new)
    BY <1>1, <1>2, <1>5, <2>1 DEF LargoPlazoRecibirTabla, SacarDeNew, PrimeroDeNew
  <2>3. UNCHANGED <<ready, bloqueado, bloqueado_suspendido, ready_suspendido,
                    pid_contador, cliente, hilo_dispatch, hilos_es, finalizados>>
    BY <1>5 DEF LargoPlazoRecibirTabla
  <2>4. \A q \in Pid : EnPoderDeLaCpu(q)' <=> EnPoderDeLaCpu(q)
    BY <1>5 DEF LargoPlazoRecibirTabla, EnPoderDeLaCpu, Pids, cpu
  <2>5. /\ IsInjective(new')
        /\ \A q : q \in ToSet(new') <=> q \in ToSet(new) /\ q # p
    BY <1>1, <2>1, <2>2, QuitarCabeza
  <2>6. Ubicado(p, "lp_recibir")
    BY <2>2 DEF SitioUnico, Ubicado
  <2>7. Ubicado(p, "admitido")'
    BY <2>2, <2>3, <2>4, <2>5, <2>6, EtapasDistintas DEF Ubicado
  <2>8. \A q \in Pid, u \in Sitios : q # p /\ Ubicado(q, u) => Ubicado(q, u)'
    BY <2>2, <2>3, <2>4, <2>5, EtapasDistintas DEF Ubicado
  <2> QED BY <2>2, <2>3, <2>5, <2>6, <2>7, <2>8 DEF Traslado, ColasSinRepetir
<1> QED BY <1>3, <1>4, <1>5

(* The entrance in ready of a process that has been admitted.              *)
LEMMA MueveAdmitido ==
  ASSUME IndInv, IndInv', SitioUnico, ColasSinRepetir
  PROVE  /\ AgregarAReadyFIFO \/ AgregarAReadySRT =>
              ColasSinRepetir' /\ \E p \in Pid : Traslado(p, "admitido", "ready")
         /\ DesalojarTrasAgregar => ColasSinRepetir' /\ Quieto
<1> USE DEF listas, semaforos, datos, hilos, hilos_es
<1>1. TypeOK /\ ready \in Seq(Pid) /\ IsInjective(ready) /\ rafaga \in [Pid -> Rafagas]
  BY DEF IndInv, TypeOK, TiposListas, TiposDatos, ColasSinRepetir
<1>2. hilo_ready = En(hilo_ready.etapa, hilo_ready.pid)
  BY <1>1, HilosEn
<1>3. ASSUME AgregarAReadyFIFO \/ AgregarAReadySRT
      PROVE  ColasSinRepetir' /\ \E p \in Pid : Traslado(p, "admitido", "ready")
  <2>1. PICK p \in Pid : p = hilo_ready.pid
    BY <1>1, <1>3, HilosEn DEF AgregarAReadyFIFO, AgregarAReadySRT
  <2>2. /\ hilo_ready = En("lp_agregar", p) \/ hilo_ready = En("mp_agregar", p)
        /\ AgregarAReady(p, rafaga)
        /\ \E q : \E e \in {"esperar", "lp_desalojo", "mp_desalojo"} : hilo_ready' = En(e, q)
    BY <1>2, <1>3, <2>1 DEF AgregarAReadyFIFO, AgregarAReadySRT
  <2>3. UNCHANGED <<new, bloqueado, bloqueado_suspendido, ready_suspendido,
                    pid_contador, cliente, hilo_dispatch, hilos_es, finalizados>>
    BY <1>3 DEF AgregarAReadyFIFO, AgregarAReadySRT
  <2>4. \A q \in Pid : EnPoderDeLaCpu(q)' <=> EnPoderDeLaCpu(q)
    BY <1>3 DEF AgregarAReadyFIFO, AgregarAReadySRT, EnPoderDeLaCpu, Pids, cpu
  <2>5. Ubicado(p, "admitido")
    BY <2>2 DEF SitioUnico, Ubicado
  <2>6. p \notin ToSet(ready)
    BY <2>5 DEF Ubicado
  <2>7. /\ IsInjective(ready')
        /\ \A q : q \in ToSet(ready') <=> q \in ToSet(ready) \/ q = p
    BY <1>1, <2>2, <2>6, AgregarAReadyCola
  <2>8. /\ \A q : hilo_ready' # En("lp_recibir", q) /\ hilo_ready' # En("lp_agregar", q)
        /\ \A q : hilo_ready' # En("mp_agregar", q)
        /\ \A q : hilo_ready # En("lp_recibir", q)
        /\ \A q : q # p => hilo_ready # En("lp_agregar", q) /\ hilo_ready # En("mp_agregar", q)
    BY <2>2, EtapasDistintas
  <2>9. Ubicado(p, "ready")'
    BY <2>3, <2>4, <2>5, <2>7, <2>8 DEF Ubicado
  <2>10. \A q \in Pid, u \in Sitios : q # p /\ Ubicado(q, u) => Ubicado(q, u)'
    BY <2>3, <2>4, <2>7, <2>8 DEF Ubicado
  <2> QED BY <2>3, <2>5, <2>7, <2>9, <2>10 DEF Traslado, ColasSinRepetir
<1>4. ASSUME DesalojarTrasAgregar PROVE ColasSinRepetir' /\ Quieto
  <2>1. /\ hilo_ready.etapa \in {"lp_desalojo", "mp_desalojo"}
        /\ hilo_ready' = En("esperar", Nadie)
        /\ UNCHANGED <<listas, pid_contador, cliente, hilo_dispatch, hilos_es, finalizados>>
    BY <1>4 DEF DesalojarTrasAgregar
  <2>2. \A q \in Pid : EnPoderDeLaCpu(q)' <=> EnPoderDeLaCpu(q)
    BY <1>4 DEF DesalojarTrasAgregar, EnPoderDeLaCpu, Pids
  <2>3. \A q : \A e \in {"lp_recibir", "lp_agregar", "mp_agregar"} :
          hilo_ready # En(e, q) /\ hilo_ready' # En(e, q)
    BY <1>2, <2>1, EtapasDistintas
  <2>4. Quieto
    BY <2>1, <2>2, <2>3 DEF Quieto, Ubicado
  <2> QED BY <2>1, <2>4 DEF ColasSinRepetir
<1> QED BY <1>3, <1>4

(* The short term scheduler: the head of ready goes to the CPU, and its    *)
(* registration in running moves nobody.                                   *)
LEMMA MueveCorto ==
  ASSUME IndInv, IndInv', SitioUnico, ColasSinRepetir
  PROVE  /\ CortoPlazoDespachar =>
              /\ ColasSinRepetir'
              /\ \E p \in Pid : Traslado(p, "ready", "cpu")
              /\ running = <<>> /\ \A q \in Pid : ~EnPoderDeLaCpu(q)
         /\ CortoPlazoRegistrar => ColasSinRepetir' /\ Quieto
<1> USE DEF listas, semaforos, datos, hilos, hilos_es
<1>1. /\ TypeOK /\ CpuDeUnProceso /\ ready \in Seq(Pid) /\ IsInjective(ready)
      /\ sem_cpu_libre \in Nat
  BY DEF IndInv, TypeOK, TiposListas, TiposSemaforos, ColasSinRepetir
<1>2. ASSUME CortoPlazoDespachar
      PROVE  /\ ColasSinRepetir'
             /\ \E p \in Pid : Traslado(p, "ready", "cpu")
             /\ running = <<>> /\ \A q \in Pid : ~EnPoderDeLaCpu(q)
  <2>1. PICK p \in Pid : p = Head(ready) /\ ready # <<>>
    BY <1>2, ListasNoVacias DEF CortoPlazoDespachar
  <2>2. /\ ready' = Tail(ready)
        /\ dispatch_cpu' = Append(dispatch_cpu, Mensaje("EJECUTAR", p))
        /\ UNCHANGED <<dispatch_kernel, en_cpu>>
        /\ sem_cpu_libre > 0
    BY <1>2, <2>1 DEF CortoPlazoDespachar
  <2>3. UNCHANGED <<new, bloqueado, bloqueado_suspendido, ready_suspendido, pid_contador,
                    cliente, hilo_ready, hilo_dispatch, hilos_es, finalizados>>
    BY <1>2 DEF CortoPlazoDespachar
  <2>4. dispatch_cpu = <<>> /\ en_cpu = Nadie /\ dispatch_kernel = <<>> /\ running = <<>>
    BY <1>1, <2>2 DEF CpuDeUnProceso
  <2>5. \A q \in Pid : q # Nadie
    BY DEF Pid, Nadie
  <2>6. \A q \in Pid : ~EnPoderDeLaCpu(q)
    BY <2>4, <2>5, PoderDeLaCpu DEF EnLaCpu
  <2>7. \A q \in Pid : EnPoderDeLaCpu(q)' <=> q = p
    <3>1. dispatch_cpu' = <<Mensaje("EJECUTAR", p)>>
      BY <2>2, <2>4
    <3>2. dispatch_cpu' # <<>> /\ Head(dispatch_cpu').pid = p
      BY <3>1 DEF Mensaje
    <3>3. en_cpu' = Nadie /\ dispatch_kernel' = <<>>
      BY <2>2, <2>4
    <3>4. \A q \in Pid : EnLaCpu(q)' <=> q = p
      BY <2>5, <3>2, <3>3 DEF EnLaCpu
    <3> QED BY <3>4, PoderDeLaCpu
  <2>8. /\ p \in ToSet(ready) /\ IsInjective(ready')
        /\ \A q : q \in ToSet(ready') <=> q \in ToSet(ready) /\ q # p
    BY <1>1, <2>1, <2>2, QuitarCabeza
  <2>9. Ubicado(p, "ready")
    BY <2>8 DEF SitioUnico, Ubicado
  <2>10. Ubicado(p, "cpu")'
    BY <2>3, <2>7, <2>8, <2>9 DEF Ubicado
  <2>11. \A q \in Pid, u \in Sitios : q # p /\ Ubicado(q, u) => Ubicado(q, u)'
    BY <2>3, <2>6, <2>7, <2>8 DEF Ubicado
  <2> QED BY <2>3, <2>4, <2>6, <2>8, <2>9, <2>10, <2>11 DEF Traslado, ColasSinRepetir
<1>3. ASSUME CortoPlazoRegistrar PROVE ColasSinRepetir' /\ Quieto
  <2>1. UNCHANGED <<new, ready, bloqueado, bloqueado_suspendido, ready_suspendido,
                    pid_contador, cliente, hilo_ready, hilo_dispatch, hilos_es,
                    finalizados>>
    BY <1>3 DEF CortoPlazoRegistrar
  <2>2. \A q \in Pid : EnPoderDeLaCpu(q)' <=> EnPoderDeLaCpu(q)
    BY <1>3 DEF CortoPlazoRegistrar, EnPoderDeLaCpu, Pids, cpu
  <2>3. Quieto
    BY <2>1, <2>2 DEF Ubicado, Quieto
  <2> QED BY <2>1, <2>3 DEF ColasSinRepetir
<1> QED BY <1>2, <1>3

(* The messages of the CPU: the process of each goes where the kernel puts *)
(* it.                                                                     *)
LEMMA MueveMensaje ==
  ASSUME IndInv, IndInv', SitioUnico, ColasSinRepetir
  PROVE  /\ BloquearFIFO => ColasSinRepetir' /\ \E p \in Pid : Traslado(p, "cpu", "bloquear")
         /\ BloquearSRT => ColasSinRepetir' /\ \E p \in Pid : Traslado(p, "cpu", "bloqueado")
         /\ PasarAExit => ColasSinRepetir' /\ \E p \in Pid : Traslado(p, "cpu", "exit")
<1> USE DEF listas, semaforos, datos, hilos, hilos_es
<1>1. TypeOK /\ hilo_dispatch = En(hilo_dispatch.etapa, hilo_dispatch.pid)
  BY HilosEn DEF IndInv
<1>2. ASSUME BloquearFIFO
      PROVE  ColasSinRepetir' /\ \E p \in Pid : Traslado(p, "cpu", "bloquear")
  <2>1. PICK p \in Pid :
          /\ Head(dispatch_kernel).pid = p
          /\ \A q \in Pid : EnPoderDeLaCpu(q) <=> q = p
          /\ \A q \in Pid : ~EnPoderDeLaCpu(q)'
    BY <1>2, Recibido DEF BloquearFIFO
  <2>2. hilo_dispatch.etapa = "esperar" /\ hilo_dispatch' = En("bloquear", p)
    BY <1>2, <2>1 DEF BloquearFIFO, Recibir
  <2>3. UNCHANGED <<new, ready, bloqueado, bloqueado_suspendido, ready_suspendido,
                    pid_contador, cliente, hilo_ready, hilos_es, finalizados>>
    BY <1>2 DEF BloquearFIFO
  <2>4. \A e, q : hilo_dispatch = En(e, q) => e = "esperar"
    BY <1>1, <2>2, EtapasDistintas
  <2>5. Ubicado(p, "cpu")
    BY <2>1 DEF SitioUnico, Ubicado
  <2>6. Ubicado(p, "bloquear")'
    BY <2>1, <2>2, <2>3, <2>5, EtapasDistintas DEF Ubicado
  <2>7. \A q \in Pid, u \in Sitios : q # p /\ Ubicado(q, u) => Ubicado(q, u)'
    BY <2>1, <2>2, <2>3, <2>4, EtapasDistintas DEF Ubicado
  <2> QED BY <2>3, <2>5, <2>6, <2>7 DEF Traslado, ColasSinRepetir
<1>3. ASSUME BloquearSRT
      PROVE  ColasSinRepetir' /\ \E p \in Pid : Traslado(p, "cpu", "bloqueado")
  <2>1. PICK p \in Pid :
          /\ Head(dispatch_kernel).pid = p
          /\ \A q \in Pid : EnPoderDeLaCpu(q) <=> q = p
          /\ \A q \in Pid : ~EnPoderDeLaCpu(q)'
    BY <1>3, Recibido DEF BloquearSRT
  <2>2. /\ hilo_dispatch.etapa = "esperar" /\ hilo_dispatch' = En("bloquear_srt", p)
        /\ bloqueado' = bloqueado \union {p}
    BY <1>3, <2>1 DEF BloquearSRT, Recibir
  <2>3. UNCHANGED <<new, ready, bloqueado_suspendido, ready_suspendido, pid_contador,
                    cliente, hilo_ready, hilos_es, finalizados>>
    BY <1>3 DEF BloquearSRT
  <2>4. \A e, q : hilo_dispatch = En(e, q) => e = "esperar"
    BY <1>1, <2>2, EtapasDistintas
  <2>5. Ubicado(p, "cpu")
    BY <2>1 DEF SitioUnico, Ubicado
  <2>6. Ubicado(p, "bloqueado")'
    BY <2>1, <2>2, <2>3, <2>5, EtapasDistintas DEF Ubicado
  <2>7. \A q \in Pid, u \in Sitios : q # p /\ Ubicado(q, u) => Ubicado(q, u)'
    BY <2>1, <2>2, <2>3, <2>4, EtapasDistintas DEF Ubicado
  <2> QED BY <2>3, <2>5, <2>6, <2>7 DEF Traslado, ColasSinRepetir
<1>4. ASSUME PasarAExit
      PROVE  ColasSinRepetir' /\ \E p \in Pid : Traslado(p, "cpu", "exit")
  <2>1. PICK p \in Pid :
          /\ \A q \in Pid : EnPoderDeLaCpu(q) <=> q = p
          /\ \A q \in Pid : ~EnPoderDeLaCpu(q)'
          /\ sem_sincro_running > 0 => running = <<p>>
    BY <1>4, Recibido DEF PasarAExit
  <2>2. hilo_dispatch.etapa = "esperar" /\ hilo_dispatch' = En("exit", p)
    BY <1>4, <2>1 DEF PasarAExit, Recibir, SacarDeRunning
  <2>3. UNCHANGED <<new, ready, bloqueado, bloqueado_suspendido, ready_suspendido,
                    pid_contador, cliente, hilo_ready, hilos_es, finalizados>>
    BY <1>4 DEF PasarAExit
  <2>4. \A e, q : hilo_dispatch = En(e, q) => e = "esperar"
    BY <1>1, <2>2, EtapasDistintas
  <2>5. Ubicado(p, "cpu")
    BY <2>1 DEF SitioUnico, Ubicado
  <2>6. Ubicado(p, "exit")'
    BY <2>1, <2>2, <2>3, <2>5, EtapasDistintas DEF Ubicado
  <2>7. \A q \in Pid, u \in Sitios : q # p /\ Ubicado(q, u) => Ubicado(q, u)'
    BY <2>1, <2>2, <2>3, <2>4, EtapasDistintas DEF Ubicado
  <2> QED BY <2>3, <2>5, <2>6, <2>7 DEF Traslado, ColasSinRepetir
<1> QED BY <1>2, <1>3, <1>4

(* The rest of cpu_dispatch_handler: what it does with the pcb it holds.   *)
LEMMA MueveDispatch ==
  ASSUME IndInv, IndInv', SitioUnico, ColasSinRepetir
  PROVE  /\ AgregarABloqueadoFIFO =>
              ColasSinRepetir' /\ \E p \in Pid : Traslado(p, "bloquear", "bloqueado")
         /\ AvisarConsola =>
              ColasSinRepetir' /\ \E p \in Pid : Traslado(p, "exit", "finalizado")
         /\ SacarBloqueadoDeRunningSRT => ColasSinRepetir' /\ Quieto
         /\ SacarDesalojadoDeRunning => ColasSinRepetir' /\ Quieto
         /\ RelacionInexistente => ColasSinRepetir' /\ Quieto
<1> USE DEF listas, semaforos, datos, hilos, hilos_es
<1>1. TypeOK /\ hilo_dispatch = En(hilo_dispatch.etapa, hilo_dispatch.pid)
  BY HilosEn DEF IndInv
<1>2. ASSUME AgregarABloqueadoFIFO
      PROVE  ColasSinRepetir' /\ \E p \in Pid : Traslado(p, "bloquear", "bloqueado")
  <2>1. PICK p \in Pid : p = hilo_dispatch.pid
    BY <1>1, <1>2, HilosEn DEF AgregarABloqueadoFIFO
  <2>2. /\ hilo_dispatch = En("bloquear", p) /\ hilo_dispatch' = En("esperar", Nadie)
        /\ bloqueado' = bloqueado \union {p}
    BY <1>1, <1>2, <2>1 DEF AgregarABloqueadoFIFO
  <2>3. UNCHANGED <<new, ready, bloqueado_suspendido, ready_suspendido, suspendiendo,
                    pid_contador, cliente, hilo_ready, hilo_es, finalizados>>
    BY <1>2 DEF AgregarABloqueadoFIFO, ComenzarBloqueo
  <2>4. \A q \in Pid : EnPoderDeLaCpu(q)' <=> EnPoderDeLaCpu(q)
    BY <1>2 DEF AgregarABloqueadoFIFO, EnPoderDeLaCpu, Pids, cpu
  <2>5. Ubicado(p, "bloquear")
    BY <2>2 DEF SitioUnico, Ubicado
  <2>6. Ubicado(p, "bloqueado")'
    BY <2>2, <2>3, <2>4, <2>5, EtapasDistintas DEF Ubicado
  <2>7. \A q \in Pid, u \in Sitios : q # p /\ Ubicado(q, u) => Ubicado(q, u)'
    BY <2>2, <2>3, <2>4, EtapasDistintas DEF Ubicado
  <2> QED BY <2>3, <2>5, <2>6, <2>7 DEF Traslado, ColasSinRepetir
<1>3. ASSUME AvisarConsola
      PROVE  ColasSinRepetir' /\ \E p \in Pid : Traslado(p, "exit", "finalizado")
  <2>1. PICK p \in Pid : p = hilo_dispatch.pid
    BY <1>1, <1>3, HilosEn DEF AvisarConsola
  <2>2. /\ hilo_dispatch = En("exit", p) /\ hilo_dispatch' = En("esperar", Nadie)
        /\ finalizados' = finalizados \union {p}
    BY <1>1, <1>3, <2>1 DEF AvisarConsola
  <2>3. UNCHANGED <<new, ready, bloqueado, bloqueado_suspendido, ready_suspendido,
                    pid_contador, cliente, hilo_ready, hilos_es>>
    BY <1>3 DEF AvisarConsola
  <2>4. \A q \in Pid : EnPoderDeLaCpu(q)' <=> EnPoderDeLaCpu(q)
    BY <1>3 DEF AvisarConsola, EnPoderDeLaCpu, Pids, cpu
  <2>5. Ubicado(p, "exit")
    BY <2>2 DEF SitioUnico, Ubicado
  <2>6. Ubicado(p, "finalizado")'
    BY <2>2, <2>3, <2>4, <2>5, EtapasDistintas DEF Ubicado
  <2>7. \A q \in Pid, u \in Sitios : q # p /\ Ubicado(q, u) => Ubicado(q, u)'
    BY <2>2, <2>3, <2>4, EtapasDistintas DEF Ubicado
  <2> QED BY <2>3, <2>5, <2>6, <2>7 DEF Traslado, ColasSinRepetir
<1>4. ASSUME SacarBloqueadoDeRunningSRT \/ SacarDesalojadoDeRunning
      PROVE  ColasSinRepetir' /\ Quieto
  <2>1. /\ hilo_dispatch.etapa \in {"bloquear_srt", "volver"}
        /\ hilo_dispatch' = En("esperar", Nadie)
    BY <1>4 DEF SacarBloqueadoDeRunningSRT, SacarDesalojadoDeRunning
  <2>2. UNCHANGED <<new, ready, bloqueado, bloqueado_suspendido, ready_suspendido,
                    suspendiendo, pid_contador, cliente, hilo_ready, hilo_es, finalizados>>
    BY <1>4 DEF SacarBloqueadoDeRunningSRT, SacarDesalojadoDeRunning, ComenzarBloqueo
  <2>3. \A q \in Pid : EnPoderDeLaCpu(q)' <=> EnPoderDeLaCpu(q)
    <3>1. UNCHANGED <<en_cpu, dispatch_cpu, dispatch_kernel>>
      BY <1>4 DEF SacarBloqueadoDeRunningSRT, SacarDesalojadoDeRunning, cpu
    <3> QED BY <3>1 DEF EnPoderDeLaCpu, Pids
  <2>4. \A q : \A e \in {"bloquear", "exit", "caido"} :
          hilo_dispatch # En(e, q) /\ hilo_dispatch' # En(e, q)
    BY <1>1, <2>1, EtapasDistintas
  <2>5. Quieto
    BY <2>2, <2>3, <2>4 DEF Quieto, Ubicado
  <2> QED BY <2>2, <2>5 DEF ColasSinRepetir
<1>5. ASSUME RelacionInexistente PROVE ColasSinRepetir' /\ Quieto
  <2>1. PICK p : p = hilo_dispatch.pid
    OBVIOUS
  <2>2. /\ hilo_dispatch = En("exit", p) /\ hilo_dispatch' = En("caido", p)
        /\ UNCHANGED <<listas, pid_contador, cliente, hilo_ready, hilos_es, finalizados>>
    BY <1>1, <1>5, <2>1 DEF RelacionInexistente
  <2>3. \A q \in Pid : EnPoderDeLaCpu(q)' <=> EnPoderDeLaCpu(q)
    BY <1>5 DEF RelacionInexistente, EnPoderDeLaCpu, Pids, cpu
  <2>4. Quieto
    BY <2>2, <2>3, EtapasDistintas DEF Quieto, Ubicado
  <2> QED BY <2>2, <2>4 DEF ColasSinRepetir
<1> QED BY <1>2, <1>3, <1>4, <1>5

(* A preempted process goes back to ready.                                 *)
LEMMA MueveDesalojado ==
  ASSUME IndInv, IndInv', SitioUnico, ColasSinRepetir, VolverAReadySRT
  PROVE  ColasSinRepetir' /\ \E p \in Pid : Traslado(p, "cpu", "ready")
<1> USE DEF listas, semaforos, datos, hilos, hilos_es
<1>1. /\ TypeOK /\ hilo_dispatch = En(hilo_dispatch.etapa, hilo_dispatch.pid)
      /\ ready \in Seq(Pid) /\ IsInjective(ready) /\ rafaga \in [Pid -> Rafagas]
  BY HilosEn DEF IndInv, TypeOK, TiposListas, TiposDatos, ColasSinRepetir
<1>2. PICK p \in Pid :
        /\ Head(dispatch_kernel).pid = p
        /\ \A q \in Pid : EnPoderDeLaCpu(q) <=> q = p
        /\ \A q \in Pid : ~EnPoderDeLaCpu(q)'
  BY Recibido DEF VolverAReadySRT
<1>3. hilo_dispatch.etapa = "esperar" /\ hilo_dispatch' = En("volver", p)
  BY <1>2 DEF VolverAReadySRT, Recibir
<1>4. PICK r \in Rafagas : AgregarAReady(p, [rafaga EXCEPT ![p] = r])
  BY <1>2 DEF VolverAReadySRT
<1>5. UNCHANGED <<new, bloqueado, bloqueado_suspendido, ready_suspendido, pid_contador,
                  cliente, hilo_ready, hilos_es, finalizados>>
  BY DEF VolverAReadySRT
<1>6. Ubicado(p, "cpu")
  BY <1>2 DEF SitioUnico, Ubicado
<1>7. /\ IsInjective(ready')
      /\ \A q : q \in ToSet(ready') <=> q \in ToSet(ready) \/ q = p
  <2>1. p \notin ToSet(ready)
    BY <1>6 DEF Ubicado
  <2>2. [rafaga EXCEPT ![p] = r] \in [Pid -> Rafagas]
    BY <1>1
  <2> QED BY <1>1, <1>4, <2>1, <2>2, AgregarAReadyCola
<1>8. \A q : \A e \in {"bloquear", "exit", "caido"} :
        hilo_dispatch # En(e, q) /\ hilo_dispatch' # En(e, q)
  BY <1>1, <1>3, EtapasDistintas
<1>9. Ubicado(p, "ready")'
  BY <1>2, <1>5, <1>6, <1>7, <1>8 DEF Ubicado
<1>10. \A q \in Pid, u \in Sitios : q # p /\ Ubicado(q, u) => Ubicado(q, u)'
  BY <1>2, <1>5, <1>7, <1>8 DEF Ubicado
<1> QED BY <1>5, <1>6, <1>7, <1>9, <1>10 DEF Traslado, ColasSinRepetir

(* The I/O threads.  A process that is neither in bloqueado nor in         *)
(* bloqueado_suspendido when its thread looks for it stays where it is.    *)
LEMMA MueveBloqueo ==
  ASSUME IndInv, IndInv', SitioUnico, ColasSinRepetir
  PROVE  /\ \A p \in Pid : TomarDispositivo(p) => ColasSinRepetir' /\ Quieto
         /\ TerminarIO => /\ ColasSinRepetir'
                          /\ Quieto \/ \E p \in Pid : Traslado(p, "bloqueado", "a_ready")
         /\ Desbloquear => ColasSinRepetir' /\ \E p \in Pid : Traslado(p, "a_ready", "ready")
         /\ DesalojarTrasDesbloquear => ColasSinRepetir' /\ Quieto
<1> USE DEF listas, semaforos, datos, hilos
<1>1. /\ TypeOK /\ hilo_es = En(hilo_es.etapa, hilo_es.pid)
      /\ ready \in Seq(Pid) /\ IsInjective(ready) /\ rafaga \in [Pid -> Rafagas]
  BY HilosEn DEF IndInv, TypeOK, TiposListas, TiposDatos, ColasSinRepetir
<1>2. ASSUME NEW p \in Pid, TomarDispositivo(p) PROVE ColasSinRepetir' /\ Quieto
  <2>1. /\ hilo_es.etapa = "libre" /\ hilo_es' = En("io", p)
        /\ UNCHANGED <<listas, suspendiendo, pid_contador, cliente, hilo_ready,
                       hilo_dispatch, finalizados>>
    BY <1>2 DEF TomarDispositivo
  <2>2. \A q \in Pid : EnPoderDeLaCpu(q)' <=> EnPoderDeLaCpu(q)
    BY <1>2 DEF TomarDispositivo, EnPoderDeLaCpu, Pids, cpu
  <2>3. \A q : \A e \in {"a_ready", "a_ready_suspendido"} :
          hilo_es # En(e, q) /\ hilo_es' # En(e, q)
    BY <1>1, <2>1, EtapasDistintas
  <2>4. Quieto
    BY <2>1, <2>2, <2>3 DEF Quieto, Ubicado
  <2> QED BY <2>1, <2>4 DEF ColasSinRepetir
<1>3. ASSUME TerminarIO
      PROVE  /\ ColasSinRepetir'
             /\ Quieto \/ \E p \in Pid : Traslado(p, "bloqueado", "a_ready")
  <2>1. PICK p \in Pid : p = hilo_es.pid
    BY <1>1, <1>3, HilosEn DEF TerminarIO
  <2>2. /\ hilo_es = En("io", p) /\ bloqueado' = bloqueado \ {p}
        /\ hilo_es' = En(IF p \in bloqueado THEN "a_ready" ELSE "esperar_suspension", p)
    BY <1>1, <1>3, <2>1 DEF TerminarIO, SacarDeBloqueado
  <2>3. UNCHANGED <<new, ready, bloqueado_suspendido, ready_suspendido, suspendiendo,
                    pid_contador, cliente, hilo_ready, hilo_dispatch, finalizados>>
    BY <1>3 DEF TerminarIO
  <2>4. \A q \in Pid : EnPoderDeLaCpu(q)' <=> EnPoderDeLaCpu(q)
    BY <1>3 DEF TerminarIO, EnPoderDeLaCpu, Pids, cpu
  <2>5. CASE p \in bloqueado
    <3>1. Ubicado(p, "bloqueado")
      BY <2>5 DEF SitioUnico, Ubicado
    <3>2. hilo_es' = En("a_ready", p)
      BY <2>2, <2>5
    <3>3. Ubicado(p, "a_ready")'
      BY <2>2, <2>3, <2>4, <3>1, <3>2, EtapasDistintas DEF Ubicado
    <3>4. \A q \in Pid, u \in Sitios : q # p /\ Ubicado(q, u) => Ubicado(q, u)'
      BY <2>2, <2>3, <2>4, <3>2, EtapasDistintas DEF Ubicado
    <3> QED BY <2>3, <3>1, <3>3, <3>4 DEF Traslado, ColasSinRepetir
  <2>6. CASE p \notin bloqueado
    <3>1. bloqueado' = bloqueado /\ hilo_es' = En("esperar_suspension", p)
      BY <2>2, <2>6
    <3>2. \A q : \A e \in {"a_ready", "a_ready_suspendido"} :
            hilo_es # En(e, q) /\ hilo_es' # En(e, q)
      BY <2>2, <3>1, EtapasDistintas
    <3>3. Quieto
      BY <2>3, <2>4, <3>1, <3>2 DEF Quieto, Ubicado
    <3> QED BY <2>3, <3>3 DEF ColasSinRepetir
  <2> QED BY <2>5, <2>6
<1>4. ASSUME Desbloquear
      PROVE  ColasSinRepetir' /\ \E p \in Pid : Traslado(p, "a_ready", "ready")
  <2>1. PICK p \in Pid : p = hilo_es.pid
    BY <1>1, <1>4, HilosEn DEF Desbloquear
  <2>2. /\ hilo_es = En("a_ready", p) /\ AgregarAReady(p, rafaga)
        /\ \E q : \E e \in {"desalojo", "libre"} : hilo_es' = En(e, q)
    BY <1>1, <1>4, <2>1 DEF Desbloquear
  <2>3. UNCHANGED <<new, bloqueado, bloqueado_suspendido, ready_suspendido, suspendiendo,
                    pid_contador, cliente, hilo_ready, hilo_dispatch, finalizados>>
    BY <1>4 DEF Desbloquear
  <2>4. \A q \in Pid : EnPoderDeLaCpu(q)' <=> EnPoderDeLaCpu(q)
    BY <1>4 DEF Desbloquear, EnPoderDeLaCpu, Pids, cpu
  <2>5. Ubicado(p, "a_ready")
    BY <2>2 DEF SitioUnico, Ubicado
  <2>6. p \notin ToSet(ready)
    BY <2>5 DEF Ubicado
  <2>7. /\ IsInjective(ready')
        /\ \A q : q \in ToSet(ready') <=> q \in ToSet(ready) \/ q = p
    BY <1>1, <2>2, <2>6, AgregarAReadyCola
  <2>8. /\ \A q : \A e \in {"a_ready", "a_ready_suspendido"} : hilo_es' # En(e, q)
        /\ \A q : hilo_es # En("a_ready_suspendido", q)
        /\ \A q : q # p => hilo_es # En("a_ready", q)
    BY <2>2, EtapasDistintas
  <2>9. Ubicado(p, "ready")'
    BY <2>3, <2>4, <2>5, <2>7, <2>8 DEF Ubicado
  <2>10. \A q \in Pid, u \in Sitios : q # p /\ Ubicado(q, u) => Ubicado(q, u)'
    BY <2>3, <2>4, <2>7, <2>8 DEF Ubicado
  <2> QED BY <2>3, <2>5, <2>7, <2>9, <2>10 DEF Traslado, ColasSinRepetir
<1>5. ASSUME DesalojarTrasDesbloquear PROVE ColasSinRepetir' /\ Quieto
  <2>1. /\ hilo_es.etapa = "desalojo" /\ hilo_es' = En("libre", Nadie)
        /\ UNCHANGED <<listas, suspendiendo, pid_contador, cliente, hilo_ready,
                       hilo_dispatch, finalizados>>
    BY <1>5 DEF DesalojarTrasDesbloquear
  <2>2. \A q \in Pid : EnPoderDeLaCpu(q)' <=> EnPoderDeLaCpu(q)
    BY <1>5 DEF DesalojarTrasDesbloquear, EnPoderDeLaCpu, Pids
  <2>3. \A q : \A e \in {"a_ready", "a_ready_suspendido"} :
          hilo_es # En(e, q) /\ hilo_es' # En(e, q)
    BY <1>1, <2>1, EtapasDistintas
  <2>4. Quieto
    BY <2>1, <2>2, <2>3 DEF Quieto, Ubicado
  <2> QED BY <2>1, <2>4 DEF ColasSinRepetir
<1> QED BY <1>2, <1>3, <1>4, <1>5

(* The end of the I/O of a process that was suspended.                     *)
LEMMA MueveSuspendido ==
  ASSUME IndInv, IndInv', SitioUnico, ColasSinRepetir
  PROVE  /\ BuscarSuspendido =>
              /\ ColasSinRepetir'
              /\ \/ Quieto
                 \/ \E p \in Pid : Traslado(p, "bloqueado_suspendido", "a_ready_suspendido")
         /\ PasarAReadySuspendido =>
              /\ ColasSinRepetir'
              /\ \E p \in Pid : Traslado(p, "a_ready_suspendido", "ready_suspendido")
<1> USE DEF listas, semaforos, datos, hilos
<1>1. /\ TypeOK /\ hilo_es = En(hilo_es.etapa, hilo_es.pid)
      /\ ready_suspendido \in Seq(Pid) /\ IsInjective(ready_suspendido)
  BY HilosEn DEF IndInv, TypeOK, TiposListas, ColasSinRepetir
<1>2. ASSUME BuscarSuspendido
      PROVE  /\ ColasSinRepetir'
             /\ \/ Quieto
                \/ \E p \in Pid : Traslado(p, "bloqueado_suspendido", "a_ready_suspendido")
  <2>1. PICK p \in Pid : p = hilo_es.pid
    BY <1>1, <1>2, HilosEn DEF BuscarSuspendido
  <2>2. hilo_es = En("esperar_suspension", p)
    BY <1>1, <1>2, <2>1 DEF BuscarSuspendido
  <2>3. UNCHANGED <<new, ready, bloqueado, ready_suspendido, suspendiendo,
                    pid_contador, cliente, hilo_ready, hilo_dispatch, finalizados>>
    BY <1>2 DEF BuscarSuspendido
  <2>4. \A q \in Pid : EnPoderDeLaCpu(q)' <=> EnPoderDeLaCpu(q)
    BY <1>2 DEF BuscarSuspendido, EnPoderDeLaCpu, Pids, cpu
  <2>5. CASE p \in bloqueado_suspendido
    <3>1. Ubicado(p, "bloqueado_suspendido")
      BY <2>5 DEF SitioUnico, Ubicado
    <3>2. /\ hilo_es' = En("a_ready_suspendido", p)
          /\ bloqueado_suspendido' = bloqueado_suspendido \ {p}
      BY <1>2, <2>1, <2>5 DEF BuscarSuspendido
    <3>3. Ubicado(p, "a_ready_suspendido")'
      BY <2>2, <2>3, <2>4, <3>1, <3>2, EtapasDistintas DEF Ubicado
    <3>4. \A q \in Pid, u \in Sitios : q # p /\ Ubicado(q, u) => Ubicado(q, u)'
      BY <2>2, <2>3, <2>4, <3>2, EtapasDistintas DEF Ubicado
    <3> QED BY <2>3, <3>1, <3>3, <3>4 DEF Traslado, ColasSinRepetir
  <2>6. CASE p \notin bloqueado_suspendido
    <3>1. bloqueado_suspendido' = bloqueado_suspendido /\ hilo_es' = En("libre", Nadie)
      BY <1>2, <2>1, <2>6 DEF BuscarSuspendido
    <3>2. \A q : \A e \in {"a_ready", "a_ready_suspendido"} :
            hilo_es # En(e, q) /\ hilo_es' # En(e, q)
      BY <2>2, <3>1, EtapasDistintas
    <3>3. Quieto
      BY <2>3, <2>4, <3>1, <3>2 DEF Quieto, Ubicado
    <3> QED BY <2>3, <3>3 DEF ColasSinRepetir
  <2> QED BY <2>5, <2>6
<1>3. ASSUME PasarAReadySuspendido
      PROVE  /\ ColasSinRepetir'
             /\ \E p \in Pid : Traslado(p, "a_ready_suspendido", "ready_suspendido")
  <2>1. PICK p \in Pid : p = hilo_es.pid
    BY <1>1, <1>3, HilosEn DEF PasarAReadySuspendido
  <2>2. /\ hilo_es = En("a_ready_suspendido", p) /\ hilo_es' = En("libre", Nadie)
        /\ ready_suspendido' = Append(ready_suspendido, p)
    BY <1>1, <1>3, <2>1 DEF PasarAReadySuspendido
  <2>3. UNCHANGED <<new, ready, bloqueado, bloqueado_suspendido, suspendiendo,
                    pid_contador, cliente, hilo_ready, hilo_dispatch, finalizados>>
    BY <1>3 DEF PasarAReadySuspendido
  <2>4. \A q \in Pid : EnPoderDeLaCpu(q)' <=> EnPoderDeLaCpu(q)
    BY <1>3 DEF PasarAReadySuspendido, EnPoderDeLaCpu, Pids, cpu
  <2>5. Ubicado(p, "a_ready_suspendido")
    BY <2>2 DEF SitioUnico, Ubicado
  <2>6. p \notin ToSet(ready_suspendido)
    BY <2>5 DEF Ubicado
  <2>7. /\ IsInjective(ready_suspendido')
        /\ \A q : q \in ToSet(ready_suspendido') <=> q \in ToSet(ready_suspendido) \/ q = p
    BY <1>1, <2>2, <2>6, AgregarAlFinal
  <2>8. Ubicado(p, "ready_suspendido")'
    BY <2>2, <2>3, <2>4, <2>5, <2>7, EtapasDistintas DEF Ubicado
  <2>9. \A q \in Pid, u \in Sitios : q # p /\ Ubicado(q, u) => Ubicado(q, u)'
    BY <2>2, <2>3, <2>4, <2>7, EtapasDistintas DEF Ubicado
  <2> QED BY <2>3, <2>5, <2>7, <2>8, <2>9 DEF Traslado, ColasSinRepetir
<1> QED BY <1>2, <1>3

(* The suspension threads.                                                 *)
LEMMA MueveSuspension ==
  ASSUME IndInv, IndInv', SitioUnico, ColasSinRepetir, NEW p \in Pid
  PROVE  /\ \A k \in 1 .. MaxBloqueos : VencerBloqueo(p, k) =>
              ColasSinRepetir' /\ (Quieto \/ Traslado(p, "bloqueado", "suspendiendo"))
         /\ ConfirmarSuspension(p) =>
              ColasSinRepetir' /\ Traslado(p, "suspendiendo", "bloqueado_suspendido")
<1> USE DEF listas, semaforos, datos, hilos
<1>1. ASSUME NEW k \in 1 .. MaxBloqueos, VencerBloqueo(p, k)
      PROVE  ColasSinRepetir' /\ (Quieto \/ Traslado(p, "bloqueado", "suspendiendo"))
  <2>1. /\ bloqueado' = bloqueado \ {p}
        /\ suspendiendo' = IF p \in bloqueado THEN suspendiendo \union {p} ELSE suspendiendo
        /\ UNCHANGED <<new, ready, bloqueado_suspendido, ready_suspendido, hilo_es,
                       pid_contador, cliente, hilo_ready, hilo_dispatch, finalizados>>
    BY <1>1 DEF VencerBloqueo, SacarDeBloqueado
  <2>2. \A q \in Pid : EnPoderDeLaCpu(q)' <=> EnPoderDeLaCpu(q)
    BY <1>1 DEF VencerBloqueo, EnPoderDeLaCpu, Pids, cpu
  <2>3. CASE p \in bloqueado
    <3>1. Ubicado(p, "bloqueado")
      BY <2>3 DEF SitioUnico, Ubicado
    <3>2. suspendiendo' = suspendiendo \union {p}
      BY <2>1, <2>3
    <3>3. Ubicado(p, "suspendiendo")'
      BY <2>1, <2>2, <3>1, <3>2 DEF Ubicado
    <3>4. \A q \in Pid, u \in Sitios : q # p /\ Ubicado(q, u) => Ubicado(q, u)'
      BY <2>1, <2>2, <3>2 DEF Ubicado
    <3> QED BY <2>1, <3>1, <3>3, <3>4 DEF Traslado, ColasSinRepetir
  <2>4. CASE p \notin bloqueado
    <3>1. bloqueado' = bloqueado /\ suspendiendo' = suspendiendo
      BY <2>1, <2>4
    <3>2. Quieto
      BY <2>1, <2>2, <3>1 DEF Quieto, Ubicado
    <3> QED BY <2>1, <3>2 DEF ColasSinRepetir
  <2> QED BY <2>3, <2>4
<1>2. ASSUME ConfirmarSuspension(p)
      PROVE  ColasSinRepetir' /\ Traslado(p, "suspendiendo", "bloqueado_suspendido")
  <2>1. /\ p \in suspendiendo /\ suspendiendo' = suspendiendo \ {p}
        /\ bloqueado_suspendido' = bloqueado_suspendido \union {p}
        /\ UNCHANGED <<new, ready, bloqueado, ready_suspendido, hilo_es, pid_contador,
                       cliente, hilo_ready, hilo_dispatch, finalizados>>
    BY <1>2 DEF ConfirmarSuspension
  <2>2. \A q \in Pid : EnPoderDeLaCpu(q)' <=> EnPoderDeLaCpu(q)
    BY <1>2 DEF ConfirmarSuspension, EnPoderDeLaCpu, Pids, cpu
  <2>3. Ubicado(p, "suspendiendo")
    BY <2>1 DEF SitioUnico, Ubicado
  <2>4. Ubicado(p, "bloqueado_suspendido")'
    BY <2>1, <2>2, <2>3 DEF Ubicado
  <2>5. \A q \in Pid, u \in Sitios : q # p /\ Ubicado(q, u) => Ubicado(q, u)'
    BY <2>1, <2>2 DEF Ubicado
  <2> QED BY <2>1, <2>3, <2>4, <2>5 DEF Traslado, ColasSinRepetir
<1> QED BY <1>1, <1>2

(* The CPU takes the pcb from a socket and puts it on the other: for the   *)
(* kernel it does not move.                                                *)
LEMMA MueveCpu ==
  ASSUME IndInv, IndInv', ColasSinRepetir, Cpu
  PROVE  ColasSinRepetir' /\ Quieto
<1> USE DEF listas, semaforos, datos, hilos, hilos_es
<1>1. TypeOK /\ CpuDeUnProceso
  BY DEF IndInv
<1>2. UNCHANGED <<new, ready, bloqueado, bloqueado_suspendido, ready_suspendido,
                  pid_contador, cliente, hilo_ready, hilo_dispatch, hilos_es, finalizados>>
  BY DEF Cpu, CpuRecibir, CpuInterrupcion, CpuIO, CpuExit, CpuDesalojo, CpuEnviar
<1>3. \A q \in Pid : q # Nadie
  BY DEF Pid, Nadie
<1>4. \A q \in Pid : EnPoderDeLaCpu(q)' <=> EnPoderDeLaCpu(q)
  <2>1. CASE CpuRecibir
    <3>1. PICK p \in Pid : /\ dispatch_cpu = <<Mensaje("EJECUTAR", p)>>
                           /\ en_cpu = Nadie /\ dispatch_kernel = <<>>
      BY <1>1, <2>1 DEF CpuRecibir, CpuDeUnProceso, EnTransito
    <3>2. Head(dispatch_cpu).pid = p /\ Tail(dispatch_cpu) = <<>> /\ dispatch_cpu # <<>>
      BY <3>1 DEF Mensaje
    <3>3. en_cpu' = p /\ dispatch_cpu' = <<>> /\ dispatch_kernel' = <<>>
      BY <2>1, <3>1, <3>2 DEF CpuRecibir
    <3>4. \A q \in Pid : EnLaCpu(q) <=> q = p
      BY <1>3, <3>1, <3>2 DEF EnLaCpu
    <3>5. \A q \in Pid : EnLaCpu(q)' <=> q = p
      BY <1>3, <3>3 DEF EnLaCpu
    <3> QED BY <3>4, <3>5, PoderDeLaCpu
  <2>2. CASE CpuInterrupcion
    BY <2>2 DEF CpuInterrupcion, EnPoderDeLaCpu, Pids
  <2>3. CASE CpuIO \/ CpuExit \/ CpuDesalojo
    <3>1. PICK tipo : CpuEnviar(tipo)
      BY <2>3 DEF CpuIO, CpuExit, CpuDesalojo
    <3>2. PICK p \in Pid : en_cpu = p /\ dispatch_cpu = <<>> /\ dispatch_kernel = <<>>
      BY <1>1, <3>1 DEF CpuEnviar, CpuDeUnProceso, EnTransito
    <3>3. /\ en_cpu' = Nadie /\ dispatch_cpu' = <<>>
          /\ dispatch_kernel' = <<Mensaje(tipo, p)>>
      BY <3>1, <3>2 DEF CpuEnviar
    <3>4. dispatch_kernel' # <<>> /\ Head(dispatch_kernel').pid = p
      BY <3>3 DEF Mensaje
    <3>5. \A q \in Pid : EnLaCpu(q) <=> q = p
      BY <1>3, <3>2 DEF EnLaCpu
    <3>6. \A q \in Pid : EnLaCpu(q)' <=> q = p
      BY <1>3, <3>3, <3>4 DEF EnLaCpu
    <3> QED BY <3>5, <3>6, PoderDeLaCpu
  <2> QED BY <2>1, <2>2, <2>3 DEF Cpu
<1>5. Quieto
  BY <1>2, <1>4 DEF Quieto, Ubicado
<1> QED BY <1>2, <1>5 DEF ColasSinRepetir

(* The moves of a pcb from a stage to another.                             *)
Movimientos ==
  {<<"fuera", "cliente">>, <<"cliente", "new">>, <<"new", "lp_recibir">>,
   <<"lp_recibir", "admitido">>, <<"ready_suspendido", "admitido">>,
   <<"admitido", "ready">>, <<"ready", "cpu">>, <<"cpu", "ready">>,
   <<"cpu", "bloquear">>, <<"cpu", "bloqueado">>, <<"bloquear", "bloqueado">>,
   <<"bloqueado", "a_ready">>, <<"a_ready", "ready">>, <<"bloqueado", "suspendiendo">>,
   <<"suspendiendo", "bloqueado_suspendido">>,
   <<"bloqueado_suspendido", "a_ready_suspendido">>,
   <<"a_ready_suspendido", "ready_suspendido">>, <<"cpu", "exit">>,
   <<"exit", "finalizado">>}

(* Every step of the kernel is one of them, or moves nobody.               *)
LEMMA PasoMueve ==
  ASSUME IndInv, IndInv', SitioUnico, ColasSinRepetir, [Next]_vars
  PROVE  /\ ColasSinRepetir'
         /\ Quieto \/ \E p \in Pid, m \in Movimientos : Traslado(p, m[1], m[2])
<1> DEFINE Bien ==
      /\ ColasSinRepetir'
      /\ Quieto \/ \E p \in Pid, m \in Movimientos : Traslado(p, m[1], m[2])
<1>1. ASSUME NEW s, NEW t, <<s, t>> \in Movimientos, ColasSinRepetir',
             \E p \in Pid : Traslado(p, s, t)
      PROVE  Bien
  <2>1. PICK m \in Movimientos : m[1] = s /\ m[2] = t
    BY <1>1
  <2> QED BY <1>1, <2>1
<1>2. CASE Cliente
  <2>1. CASE InicializarPcb
    <3>1. <<"fuera", "cliente">> \in Movimientos
      BY DEF Movimientos
    <3> QED BY <1>1, <2>1, <3>1, MueveCliente
  <2>2. ASSUME NEW p \in Pid, AgregarANew(p) PROVE Bien
    <3>1. <<"cliente", "new">> \in Movimientos
      BY DEF Movimientos
    <3> QED BY <1>1, <2>2, <3>1, MueveCliente
  <2>3. ASSUME NEW p \in Pid, AgregarRelacion(p) PROVE Bien
    BY <2>3, MueveCliente
  <2> QED BY <1>2, <2>1, <2>2, <2>3 DEF Cliente
<1>3. CASE HiloPasarReady
  <2>1. /\ <<"ready_suspendido", "admitido">> \in Movimientos
        /\ <<"new", "lp_recibir">> \in Movimientos
        /\ <<"lp_recibir", "admitido">> \in Movimientos
        /\ <<"admitido", "ready">> \in Movimientos
    BY DEF Movimientos
  <2>2. CASE MedianoPlazoSacar
    BY <1>1, <2>1, <2>2, MueveAdmision
  <2>3. CASE LargoPlazoPedirTabla
    BY <1>1, <2>1, <2>3, MueveAdmision
  <2>4. CASE LargoPlazoRecibirTabla
    BY <1>1, <2>1, <2>4, MueveAdmision
  <2>5. CASE AgregarAReadyFIFO \/ AgregarAReadySRT
    BY <1>1, <2>1, <2>5, MueveAdmitido
  <2>6. CASE DesalojarTrasAgregar
    BY <2>6, MueveAdmitido
  <2> QED BY <1>3, <2>2, <2>3, <2>4, <2>5, <2>6 DEF HiloPasarReady
<1>4. CASE HiloCortoPlazo
  <2>1. <<"ready", "cpu">> \in Movimientos
    BY DEF Movimientos
  <2>2. CASE CortoPlazoDespachar
    BY <1>1, <2>1, <2>2, MueveCorto
  <2>3. CASE CortoPlazoRegistrar
    BY <2>3, MueveCorto
  <2> QED BY <1>4, <2>2, <2>3 DEF HiloCortoPlazo
<1>5. CASE CpuDispatchHandler
  <2>1. /\ <<"cpu", "bloquear">> \in Movimientos /\ <<"cpu", "bloqueado">> \in Movimientos
        /\ <<"cpu", "exit">> \in Movimientos /\ <<"cpu", "ready">> \in Movimientos
        /\ <<"bloquear", "bloqueado">> \in Movimientos
        /\ <<"exit", "finalizado">> \in Movimientos
    BY DEF Movimientos
  <2>2. CASE BloquearFIFO
    BY <1>1, <2>1, <2>2, MueveMensaje
  <2>3. CASE BloquearSRT
    BY <1>1, <2>1, <2>3, MueveMensaje
  <2>4. CASE PasarAExit
    BY <1>1, <2>1, <2>4, MueveMensaje
  <2>5. CASE VolverAReadySRT
    BY <1>1, <2>1, <2>5, MueveDesalojado
  <2>6. CASE AgregarABloqueadoFIFO
    BY <1>1, <2>1, <2>6, MueveDispatch
  <2>7. CASE AvisarConsola
    BY <1>1, <2>1, <2>7, MueveDispatch
  <2>8. CASE SacarBloqueadoDeRunningSRT \/ SacarDesalojadoDeRunning \/ RelacionInexistente
    BY <2>8, MueveDispatch
  <2> QED BY <1>5, <2>2, <2>3, <2>4, <2>5, <2>6, <2>7, <2>8 DEF CpuDispatchHandler
<1>6. CASE HiloBloqueo
  <2>1. /\ <<"bloqueado", "a_ready">> \in Movimientos /\ <<"a_ready", "ready">> \in Movimientos
        /\ <<"bloqueado_suspendido", "a_ready_suspendido">> \in Movimientos
        /\ <<"a_ready_suspendido", "ready_suspendido">> \in Movimientos
    BY DEF Movimientos
  <2>2. ASSUME NEW p \in Pid, TomarDispositivo(p) PROVE Bien
    BY <2>2, MueveBloqueo
  <2>3. CASE TerminarIO
    BY <1>1, <2>1, <2>3, MueveBloqueo
  <2>4. CASE Desbloquear
    BY <1>1, <2>1, <2>4, MueveBloqueo
  <2>5. CASE DesalojarTrasDesbloquear
    BY <2>5, MueveBloqueo
  <2>6. CASE BuscarSuspendido
    BY <1>1, <2>1, <2>6, MueveSuspendido
  <2>7. CASE PasarAReadySuspendido
    BY <1>1, <2>1, <2>7, MueveSuspendido
  <2> QED BY <1>6, <2>2, <2>3, <2>4, <2>5, <2>6, <2>7 DEF HiloBloqueo
<1>7. CASE HilosSuspension
  <2>1. /\ <<"bloqueado", "suspendiendo">> \in Movimientos
        /\ <<"suspendiendo", "bloqueado_suspendido">> \in Movimientos
    BY DEF Movimientos
  <2>2. ASSUME NEW p \in Pid, ConfirmarSuspension(p) PROVE Bien
    BY <1>1, <2>1, <2>2, MueveSuspension
  <2>3. ASSUME NEW p \in Pid, NEW k \in 1 .. MaxBloqueos, VencerBloqueo(p, k) PROVE Bien
    BY <1>1, <2>1, <2>3, MueveSuspension
  <2> QED BY <1>7, <2>2, <2>3 DEF HilosSuspension
<1>8. CASE Cpu
  BY <1>8, MueveCpu
<1>9. CASE UNCHANGED vars
  <2>1. UNCHANGED <<new, ready, bloqueado, bloqueado_suspendido, ready_suspendido,
                    pid_contador, cliente, hilo_ready, hilo_dispatch, hilo_es,
                    suspendiendo, finalizados, en_cpu, dispatch_cpu, dispatch_kernel>>
    BY <1>9 DEF vars, listas, datos, hilos, hilos_es, cpu
  <2>2. Quieto
    BY <2>1 DEF Quieto, Ubicado, EnPoderDeLaCpu, Pids
  <2> QED BY <2>1, <2>2 DEF ColasSinRepetir
<1> QED
  BY <1>2, <1>3, <1>4, <1>5, <1>6, <1>7, <1>8, <1>9 DEF Next, Sistema, SinTrabajo
-----------------------------------------------------------------------------
(* At the start nobody has been created.                                   *)
LEMMA InicioSitios == Init => SitioUnico /\ ColasSinRepetir
<1> SUFFICES ASSUME Init PROVE SitioUnico /\ ColasSinRepetir
  OBVIOUS
<1>1. ToSet(<<>>) = {} /\ IsInjective(<<>>) /\ Pids(<<>>) = <<>>
  BY DEF ToSet, IsInjective, Pids
<1>2. \A p \in Pid : ~EnPoderDeLaCpu(p)
  BY <1>1 DEF Init, EnPoderDeLaCpu, Pid, Nadie
<1>3. ASSUME NEW p \in Pid PROVE Ubicado(p, "fuera")
  <2>1. /\ p > pid_contador /\ cliente[p] = "sin_pid"
        /\ hilo_ready = En("esperar", Nadie) /\ hilo_dispatch = En("esperar", Nadie)
        /\ hilo_es = En("libre", Nadie)
        /\ new = <<>> /\ ready = <<>> /\ ready_suspendido = <<>>
        /\ bloqueado = {} /\ bloqueado_suspendido = {} /\ suspendiendo = {}
        /\ finalizados = {}
    BY DEF Init, Pid
  <2> QED BY <1>1, <1>2, <2>1, EtapasDistintas DEF Ubicado
<1>4. ColasSinRepetir
  BY <1>1 DEF Init, ColasSinRepetir
<1> QED BY <1>3, <1>4 DEF SitioUnico, Sitios

(* A move keeps every process in one stage.                                *)
LEMMA SitioInductivo ==
  ASSUME IndInv, IndInv', SitioUnico, ColasSinRepetir, [Next]_vars
  PROVE  SitioUnico' /\ ColasSinRepetir'
<1>1. /\ ColasSinRepetir'
      /\ Quieto \/ \E p \in Pid, m \in Movimientos : Traslado(p, m[1], m[2])
  BY PasoMueve
<1>2. CASE Quieto
  BY <1>1, <1>2 DEF Quieto, SitioUnico
<1>3. ASSUME NEW p \in Pid, NEW m \in Movimientos, Traslado(p, m[1], m[2])
      PROVE  SitioUnico'
  <2>1. m[2] \in Sitios
    BY DEF Movimientos, Sitios
  <2> QED BY <1>3, <2>1 DEF Traslado, SitioUnico
<1> QED BY <1>1, <1>2, <1>3

(* So each process is in one stage of its life in every state, and no list *)
(* of the kernel has a pcb twice.                                          *)
THEOREM CadaUnoEnSuSitio == Spec => [](IndInv /\ SitioUnico /\ ColasSinRepetir)
<1>1. Init => SitioUnico /\ ColasSinRepetir
  BY InicioSitios
<1>2. IndInv /\ IndInv' /\ SitioUnico /\ ColasSinRepetir /\ [Next]_vars
        => SitioUnico' /\ ColasSinRepetir'
  BY SitioInductivo
<1> QED
  BY <1>1, <1>2, Inductiva, PTL DEF Spec

(* The state of Lugares that each stage belongs to.                        *)
EstadoDe(s) ==
  CASE s \in {"cliente", "new"} -> "new"
    [] s \in {"lp_recibir", "admitido", "ready"} -> "ready"
    [] s = "cpu" -> "running"
    [] s \in {"bloquear", "bloqueado", "suspendiendo", "a_ready"} -> "bloqueado"
    [] s \in {"bloqueado_suspendido", "a_ready_suspendido"} -> "bloqueado_suspendido"
    [] s = "ready_suspendido" -> "ready_suspendido"
    [] s \in {"exit", "finalizado"} -> "exit"
    [] OTHER -> "fuera"

(* A stage has one state, or none before the process is created.           *)
LEMMA LugaresDeSitio ==
  ASSUME TypeOK, NEW p \in Pid, NEW s \in Sitios, Ubicado(p, s)
  PROVE  Lugares(p) = IF s = "fuera" THEN {} ELSE {EstadoDe(s)}
<1>1. /\ hilo_ready = En(hilo_ready.etapa, hilo_ready.pid)
      /\ hilo_dispatch = En(hilo_dispatch.etapa, hilo_dispatch.pid)
  BY HilosEn
<1>2. hilo_ready.pid = p
        /\ hilo_ready.etapa \in {"lp_recibir", "lp_agregar", "mp_agregar"}
      <=> s \in {"lp_recibir", "admitido"}
  BY <1>1, EtapasDistintas DEF Ubicado
<1>3. hilo_dispatch.pid = p /\ hilo_dispatch.etapa \in {"exit", "caido"} <=> s = "exit"
  BY <1>1, EtapasDistintas DEF Ubicado
<1>4. Esta(p).new <=> s \in {"cliente", "new"}
  <2>1. s \notin {"lp_recibir", "admitido"} => (p \in ToSet(new) <=> s = "new")
    BY DEF Ubicado
  <2> QED BY <1>2, <2>1 DEF Ubicado, Esta
<1>5. Esta(p).ready <=> s \in {"lp_recibir", "admitido", "ready"}
  BY <1>2 DEF Ubicado, Esta
<1>6. Esta(p).running <=> s = "cpu"
  BY DEF Ubicado, Esta
<1>7. Esta(p).bloqueado <=> s \in {"bloquear", "bloqueado", "suspendiendo", "a_ready"}
  BY DEF Ubicado, Esta
<1>8. Esta(p).bloqueado_suspendido <=> s \in {"bloqueado_suspendido", "a_ready_suspendido"}
  BY DEF Ubicado, Esta
<1>9. Esta(p).ready_suspendido <=> s = "ready_suspendido"
  BY DEF Ubicado, Esta
<1>10. Esta(p).exit <=> s \in {"exit", "finalizado"}
  BY <1>3 DEF Ubicado, Esta
<1>11. DOMAIN Esta(p) = {"new", "ready", "running", "bloqueado", "bloqueado_suspendido",
                         "ready_suspendido", "exit"}
  BY DEF Esta
<1>12. \A e : e \in Lugares(p) <=> s # "fuera" /\ e = EstadoDe(s)
  <2>1. \A e : e \in Lugares(p) <=> e \in DOMAIN Esta(p) /\ Esta(p)[e]
    BY DEF Lugares
  <2> QED
    BY <1>4, <1>5, <1>6, <1>7, <1>8, <1>9, <1>10, <1>11, <2>1 DEF Sitios, EstadoDe
<1> QED BY <1>12

(* No move of a pcb between threads, lists and sockets loses it or leaves  *)
(* it in two places, whatever the order in which the threads run.          *)
THEOREM NadieSePierde == Spec => []UnSoloLugar
<1>1. IndInv /\ SitioUnico /\ ColasSinRepetir => UnSoloLugar
  <2> SUFFICES ASSUME IndInv, SitioUnico, ColasSinRepetir PROVE UnSoloLugar
    OBVIOUS
  <2>1. TypeOK /\ CpuDeUnProceso /\ pid_contador \in 0 .. MaxProcesos
    BY DEF IndInv, TypeOK, TiposDatos
  <2>2. ASSUME NEW p \in 1 .. pid_contador PROVE Cardinality(Lugares(p)) = 1
    <3>1. p \in Pid /\ ~(p > pid_contador)
      BY <2>1, CantidadesAssumption DEF Pid
    <3>2. PICK s \in Sitios : Ubicado(p, s)
      BY <3>1 DEF SitioUnico
    <3>3. s # "fuera"
      BY <3>1, <3>2 DEF Ubicado
    <3>4. Lugares(p) = {EstadoDe(s)}
      BY <2>1, <3>1, <3>2, <3>3, LugaresDeSitio
    <3> QED BY <3>4, FS_Singleton
  <2>3. IsInjective(running)
    <3>1. running = <<>> \/ \E p \in Pid : running = <<p>>
      BY <2>1 DEF CpuDeUnProceso
    <3> QED BY <3>1 DEF IsInjective
  <2> QED BY <2>2, <2>3 DEF UnSoloLugar, ColasSinRepetir
<1> QED
  BY <1>1, CadaUnoEnSuSitio, PTL
-----------------------------------------------------------------------------
(* Nobody is in two stages.                                                *)
LEMMA SitioSolo ==
  ASSUME NEW p \in Pid, NEW s \in Sitios, NEW t \in Sitios
  PROVE  /\ Ubicado(p, s) /\ Ubicado(p, t) => s = t
         /\ Ubicado(p, s)' /\ Ubicado(p, t)' => s = t
<1>1. Ubicado(p, s) /\ Ubicado(p, t) => s = t
  BY DEF Ubicado, Sitios
<1>2. Ubicado(p, s)' /\ Ubicado(p, t)' => s = t
  BY DEF Ubicado, Sitios
<1> QED BY <1>1, <1>2

(* Where a process is after a step, from where it was.                     *)
LEMMA SitioTrasPaso ==
  ASSUME SitioUnico, NEW q \in Pid, NEW u \in Sitios, Ubicado(q, u)'
  PROVE  /\ Quieto => Ubicado(q, u)
         /\ \A p \in Pid, s \in Sitios, t \in Sitios : Traslado(p, s, t) =>
              IF q = p THEN u = t /\ Ubicado(q, s) ELSE Ubicado(q, u)
<1>1. PICK v \in Sitios : Ubicado(q, v)
  BY DEF SitioUnico
<1>2. ASSUME Quieto PROVE Ubicado(q, u)
  <2>1. Ubicado(q, v)'
    BY <1>1, <1>2 DEF Quieto
  <2>2. u = v
    BY <2>1, SitioSolo
  <2> QED BY <1>1, <2>2
<1>3. ASSUME NEW p \in Pid, NEW s \in Sitios, NEW t \in Sitios, Traslado(p, s, t)
      PROVE  IF q = p THEN u = t /\ Ubicado(q, s) ELSE Ubicado(q, u)
  <2>1. CASE q = p
    <3>1. Ubicado(q, s) /\ Ubicado(q, t)'
      BY <1>3, <2>1 DEF Traslado
    <3> QED BY <2>1, <3>1, SitioSolo
  <2>2. CASE q # p
    <3>1. Ubicado(q, v)'
      BY <1>1, <1>3, <2>2 DEF Traslado
    <3>2. u = v
      BY <3>1, SitioSolo
    <3> QED BY <1>1, <2>2, <3>2
  <2> QED BY <2>1, <2>2
<1> QED BY <1>2, <1>3

(* From its admission on a process has the table memory gave it.           *)
ConTabla ==
  \A p \in Pid, s \in Sitios :
    Ubicado(p, s) /\ s \notin {"fuera", "cliente", "new", "lp_recibir"} => p \in tabla_paginas

(* Memory's answer is the only way out of lp_recibir, and it is stored in  *)
(* the pcb that moves on.                                                  *)
LEMMA TablaRecibida ==
  ASSUME TypeOK, [Next]_vars
  PROVE  /\ tabla_paginas \subseteq tabla_paginas'
         /\ hilo_ready.etapa = "lp_recibir" =>
              hilo_ready' = hilo_ready \/ hilo_ready.pid \in tabla_paginas'
<1> USE DEF listas, semaforos, datos, hilos, hilos_es
<1>1. CASE LargoPlazoRecibirTabla
  BY <1>1 DEF LargoPlazoRecibirTabla
<1>2. CASE MedianoPlazoSacar \/ LargoPlazoPedirTabla
  BY <1>2 DEF MedianoPlazoSacar, LargoPlazoPedirTabla, EsperarLugar, OtrosEsperarLugar
<1>3. CASE AgregarAReadyFIFO \/ AgregarAReadySRT \/ DesalojarTrasAgregar
  BY <1>3 DEF AgregarAReadyFIFO, AgregarAReadySRT, DesalojarTrasAgregar
<1>4. CASE Cliente
  BY <1>4 DEF Cliente, InicializarPcb, AgregarANew, AgregarRelacion
<1>5. CASE HiloCortoPlazo
  BY <1>5 DEF HiloCortoPlazo, CortoPlazoDespachar, CortoPlazoRegistrar
<1>6. CASE CpuDispatchHandler
  BY <1>6 DEF CpuDispatchHandler, BloquearFIFO, AgregarABloqueadoFIFO, BloquearSRT,
     SacarBloqueadoDeRunningSRT, VolverAReadySRT, SacarDesalojadoDeRunning, PasarAExit,
     AvisarConsola, RelacionInexistente
<1>7. CASE HiloBloqueo
  BY <1>7 DEF HiloBloqueo, TomarDispositivo, TerminarIO, Desbloquear,
     DesalojarTrasDesbloquear, BuscarSuspendido, PasarAReadySuspendido
<1>8. CASE HilosSuspension
  BY <1>8 DEF HilosSuspension, VencerBloqueo, ConfirmarSuspension
<1>9. CASE Cpu
  BY <1>9 DEF Cpu, CpuRecibir, CpuInterrupcion, CpuIO, CpuExit, CpuDesalojo, CpuEnviar
<1>10. CASE UNCHANGED vars
  BY <1>10 DEF vars
<1> QED
  BY <1>1, <1>2, <1>3, <1>4, <1>5, <1>6, <1>7, <1>8, <1>9, <1>10
  DEF Next, Sistema, SinTrabajo, HiloPasarReady

(* A move keeps it.                                                        *)
LEMMA ConTablaInductiva ==
  ASSUME IndInv, IndInv', SitioUnico, ColasSinRepetir, ConTabla, [Next]_vars
  PROVE  ConTabla'
<1> SUFFICES ASSUME NEW q \in Pid, NEW u \in Sitios, Ubicado(q, u)',
                    u \notin {"fuera", "cliente", "new", "lp_recibir"}
             PROVE  q \in tabla_paginas'
  BY DEF ConTabla
<1>1. TypeOK /\ tabla_paginas \subseteq tabla_paginas'
  BY TablaRecibida DEF IndInv
<1>2. Ubicado(q, u) => q \in tabla_paginas'
  BY <1>1 DEF ConTabla
<1>3. CASE Quieto
  BY <1>2, <1>3, SitioTrasPaso
<1>4. ASSUME NEW p \in Pid, NEW m \in Movimientos, Traslado(p, m[1], m[2])
      PROVE  q \in tabla_paginas'
  <2>1. m[1] \in Sitios /\ m[2] \in Sitios
    BY DEF Movimientos, Sitios
  <2>2. CASE q # p
    BY <1>2, <1>4, <2>1, <2>2, SitioTrasPaso
  <2>3. CASE q = p
    <3>1. u = m[2] /\ Ubicado(q, m[1])
      BY <1>4, <2>1, <2>3, SitioTrasPaso
    <3>2. CASE m[1] \notin {"fuera", "cliente", "new", "lp_recibir"}
      BY <1>1, <2>1, <3>1, <3>2 DEF ConTabla
    <3>3. CASE m[1] \in {"fuera", "cliente", "new", "lp_recibir"}
      <4>1. m[1] = "lp_recibir" /\ u = "admitido"
        BY <3>1, <3>3 DEF Movimientos
      <4>2. hilo_ready = En("lp_recibir", q)
        BY <3>1, <4>1 DEF Ubicado
      <4>3. hilo_ready' # En("lp_recibir", q)
        BY <4>1 DEF Ubicado
      <4> QED BY <1>1, <4>2, <4>3, EtapasDistintas, TablaRecibida
    <3> QED BY <3>2, <3>3
  <2> QED BY <2>2, <2>3
<1>5. Quieto \/ \E p \in Pid, m \in Movimientos : Traslado(p, m[1], m[2])
  BY PasoMueve
<1> QED BY <1>3, <1>4, <1>5

(* The table number memory answers is stored in the pcb that goes to ready,*)
(* whoever changes new while the answer is waited for.                     *)
THEOREM ReadyTieneTabla == Spec => []ReadyConTabla
<1>1. Init => ConTabla
  <2> SUFFICES ASSUME Init, NEW p \in Pid, NEW s \in Sitios, Ubicado(p, s),
                      s # "fuera"
               PROVE  FALSE
    BY DEF ConTabla
  <2>1. p > pid_contador
    BY DEF Init, Pid
  <2> QED BY <2>1 DEF Ubicado
<1>2. IndInv /\ IndInv' /\ SitioUnico /\ ColasSinRepetir /\ ConTabla /\ [Next]_vars
        => ConTabla'
  BY ConTablaInductiva
<1>3. IndInv /\ SitioUnico /\ ConTabla => ReadyConTabla
  <2> SUFFICES ASSUME IndInv, SitioUnico, ConTabla, NEW p \in ToSet(ready)
               PROVE  p \in tabla_paginas
    BY DEF ReadyConTabla
  <2>1. p \in Pid
    <3>1. ready \in Seq(Pid)
      BY DEF IndInv, TypeOK, TiposListas
    <3> QED BY <3>1 DEF ToSet
  <2>2. Ubicado(p, "ready")
    BY <2>1 DEF SitioUnico, Ubicado
  <2> QED BY <2>1, <2>2 DEF ConTabla, Sitios
<1> QED
  BY <1>1, <1>2, <1>3, CadaUnoEnSuSitio, PTL DEF Spec
-----------------------------------------------------------------------------
(* The stages with a place in main memory, and the processes in them: a    *)
(* process has one from the two waits of hilo_pasar_ready to its exit or   *)
(* to the end of its suspension.                                           *)
SitiosEnMemoria == {"lp_recibir", "admitido", "ready", "cpu", "bloquear", "bloqueado",
                    "suspendiendo", "a_ready", "exit"}
Ocupan == {p \in Pid : \E s \in SitiosEnMemoria : Ubicado(p, s)}

(* They are finitely many.                                                 *)
LEMMA OcupanFinito == IsFiniteSet(Ocupan) /\ Cardinality(Ocupan) \in Nat
<1>1. IsFiniteSet(Pid)
  BY CantidadesAssumption, FS_Interval DEF Pid
<1>2. Ocupan \subseteq Pid
  BY DEF Ocupan
<1> QED BY <1>1, <1>2, FS_Subset, FS_CardinalityType

(* They are the ones that GradoConservado counts.                          *)
LEMMA OcupanContados ==
  ASSUME TypeOK, SitioUnico
  PROVE  {p \in 1 .. pid_contador :
            \/ Lugares(p) \subseteq {"ready", "running", "bloqueado"}
            \/ hilo_dispatch.pid = p /\ hilo_dispatch.etapa \in {"exit", "caido"}} = Ocupan
<1> DEFINE cuenta(p) == \/ Lugares(p) \subseteq {"ready", "running", "bloqueado"}
                        \/ hilo_dispatch.pid = p /\ hilo_dispatch.etapa \in {"exit", "caido"}
<1>1. \A p : p \in 1 .. pid_contador <=> p \in Pid /\ ~(p > pid_contador)
  BY CantidadesAssumption DEF TypeOK, TiposDatos, Pid
<1>2. ASSUME NEW p \in Pid
      PROVE  ~(p > pid_contador) /\ cuenta(p) <=> p \in Ocupan
  <2>1. PICK s \in Sitios : Ubicado(p, s)
    BY DEF SitioUnico
  <2>2. p \in Ocupan <=> s \in SitiosEnMemoria
    <3>1. \A t \in SitiosEnMemoria : t \in Sitios
      BY DEF SitiosEnMemoria, Sitios
    <3>2. ASSUME NEW t \in SitiosEnMemoria, Ubicado(p, t) PROVE s = t
      BY <2>1, <3>1, <3>2, SitioSolo
    <3> QED BY <2>1, <3>2 DEF Ocupan
  <2>3. p > pid_contador <=> s = "fuera"
    BY <2>1 DEF Ubicado
  <2>4. Lugares(p) = IF s = "fuera" THEN {} ELSE {EstadoDe(s)}
    BY <2>1, LugaresDeSitio
  <2>5. hilo_dispatch.pid = p /\ hilo_dispatch.etapa \in {"exit", "caido"} <=> s = "exit"
    <3>1. hilo_dispatch = En(hilo_dispatch.etapa, hilo_dispatch.pid)
      BY HilosEn
    <3> QED BY <2>1, <3>1, EtapasDistintas DEF Ubicado
  <2>6. s # "fuera" => (cuenta(p) <=> EstadoDe(s) \in {"ready", "running", "bloqueado"}
                                        \/ s = "exit")
    BY <2>4, <2>5
  <2>7. s # "fuera" =>
          (EstadoDe(s) \in {"ready", "running", "bloqueado"} \/ s = "exit"
             <=> s \in SitiosEnMemoria)
    BY DEF EstadoDe, Sitios, SitiosEnMemoria
  <2>8. "fuera" \notin SitiosEnMemoria
    BY DEF SitiosEnMemoria
  <2> QED BY <2>2, <2>3, <2>6, <2>7, <2>8
<1> QED BY <1>1, <1>2 DEF Ocupan

(* What a move does to that set.                                           *)
LEMMA OcupanTrasPaso ==
  ASSUME SitioUnico
  PROVE  /\ Quieto => Ocupan' = Ocupan
         /\ \A p \in Pid, s \in Sitios, t \in Sitios : Traslado(p, s, t) =>
              /\ p \in Ocupan <=> s \in SitiosEnMemoria
              /\ Ocupan' = IF t \in SitiosEnMemoria THEN Ocupan \union {p} ELSE Ocupan \ {p}
<1>1. SitiosEnMemoria \subseteq Sitios
  BY DEF SitiosEnMemoria, Sitios
<1>2. /\ \A q : q \in Ocupan <=> q \in Pid /\ \E s \in SitiosEnMemoria : Ubicado(q, s)
      /\ \A q : q \in Ocupan' <=> q \in Pid /\ \E s \in SitiosEnMemoria : Ubicado(q, s)'
  BY DEF Ocupan
<1>3. ASSUME Quieto PROVE Ocupan' = Ocupan
  <2>1. ASSUME NEW q \in Pid, NEW s \in SitiosEnMemoria PROVE Ubicado(q, s)' <=> Ubicado(q, s)
    BY <1>1, <1>3, SitioTrasPaso DEF Quieto
  <2> QED BY <1>2, <2>1
<1>4. ASSUME NEW p \in Pid, NEW s \in Sitios, NEW t \in Sitios, Traslado(p, s, t)
      PROVE  /\ p \in Ocupan <=> s \in SitiosEnMemoria
             /\ Ocupan' = IF t \in SitiosEnMemoria THEN Ocupan \union {p} ELSE Ocupan \ {p}
  <2>1. p \in Ocupan <=> s \in SitiosEnMemoria
    BY <1>1, <1>2, <1>4, SitioSolo DEF Traslado
  <2>2. p \in Ocupan' <=> t \in SitiosEnMemoria
    BY <1>1, <1>2, <1>4, SitioSolo DEF Traslado
  <2>3. ASSUME NEW q \in Pid, q # p PROVE q \in Ocupan' <=> q \in Ocupan
    <3>1. ASSUME NEW u \in SitiosEnMemoria PROVE Ubicado(q, u)' <=> Ubicado(q, u)
      BY <1>1, <1>4, <2>3, SitioTrasPaso DEF Traslado
    <3> QED BY <1>2, <3>1
  <2>4. Ocupan \subseteq Pid /\ Ocupan' \subseteq Pid
    BY <1>2
  <2>5. \A q : q \in Ocupan' <=>
               q \in IF t \in SitiosEnMemoria THEN Ocupan \union {p} ELSE Ocupan \ {p}
    BY <2>2, <2>3, <2>4
  <2> QED BY <2>1, <2>5
<1> QED BY <1>3, <1>4

(* So a process enters memory, leaves it, or nothing changes.              *)
LEMMA CuantosOcupan ==
  ASSUME SitioUnico
  PROVE  /\ Quieto => Cardinality(Ocupan') = Cardinality(Ocupan)
         /\ \A p \in Pid, s \in Sitios, t \in Sitios : Traslado(p, s, t) =>
              Cardinality(Ocupan') = Cardinality(Ocupan)
                + Uno(t \in SitiosEnMemoria) - Uno(s \in SitiosEnMemoria)
<1>1. IsFiniteSet(Ocupan) /\ Cardinality(Ocupan) \in Nat
  BY OcupanFinito
<1>2. ASSUME NEW p \in Pid, NEW s \in Sitios, NEW t \in Sitios, Traslado(p, s, t)
      PROVE  Cardinality(Ocupan') = Cardinality(Ocupan)
               + Uno(t \in SitiosEnMemoria) - Uno(s \in SitiosEnMemoria)
  <2>1. /\ p \in Ocupan <=> s \in SitiosEnMemoria
        /\ Ocupan' = IF t \in SitiosEnMemoria THEN Ocupan \union {p} ELSE Ocupan \ {p}
    BY <1>2, OcupanTrasPaso
  <2>2. PICK n \in Nat : n = Cardinality(Ocupan)
    BY <1>1
  <2>3. /\ Cardinality(Ocupan \union {p}) = IF p \in Ocupan THEN n ELSE n + 1
        /\ Cardinality(Ocupan \ {p}) = IF p \in Ocupan THEN n - 1 ELSE n
    BY <1>1, <2>2, FS_AddElement, FS_RemoveElement
  <2>4. CASE t \in SitiosEnMemoria
    <3>1. Ocupan' = Ocupan \union {p}
      BY <2>1, <2>4
    <3>2. Cardinality(Ocupan') = IF p \in Ocupan THEN n ELSE n + 1
      BY <2>3, <3>1
    <3> QED BY <2>1, <2>2, <2>4, <3>2 DEF Uno
  <2>5. CASE t \notin SitiosEnMemoria
    <3>1. Ocupan' = Ocupan \ {p}
      BY <2>1, <2>5
    <3>2. Cardinality(Ocupan') = IF p \in Ocupan THEN n - 1 ELSE n
      BY <2>3, <3>1
    <3> QED BY <2>1, <2>2, <2>5, <3>2 DEF Uno
  <2> QED BY <2>4, <2>5
<1> QED BY <1>2, OcupanTrasPaso

(* The semaphore and the counter agree with it.                            *)
OcupanConservado ==
  /\ Cardinality(Ocupan) + sem_multiprogramacion = LIMITE
  /\ grado_multiprogramacion + Uno(hilo_ready.etapa # "esperar") = Cardinality(Ocupan)

(* A process is admitted: a place is taken, and it will be counted in      *)
(* grado_multiprogramacion when hilo_pasar_ready is done with it.          *)
LEMMA AdmitirConserva ==
  ASSUME IndInv, IndInv', SitioUnico, ColasSinRepetir, OcupanConservado,
         MedianoPlazoSacar \/ LargoPlazoPedirTabla
  PROVE  OcupanConservado'
<1> USE DEF datos
<1>1. /\ hilo_ready.etapa = "esperar" /\ hilo_ready'.etapa # "esperar"
      /\ sem_multiprogramacion' = sem_multiprogramacion - 1
      /\ grado_multiprogramacion' = grado_multiprogramacion
  BY DEF MedianoPlazoSacar, LargoPlazoPedirTabla, EsperarLugar, OtrosEsperarLugar, En
<1>2. \E p \in Pid, s \in {"new", "ready_suspendido"}, t \in {"lp_recibir", "admitido"} :
        Traslado(p, s, t)
  BY MueveAdmision
<1>3. PICK n \in Nat : n = Cardinality(Ocupan)
  BY OcupanFinito
<1>4. Cardinality(Ocupan') = n + 1
  <2>1. /\ "new" \notin SitiosEnMemoria /\ "ready_suspendido" \notin SitiosEnMemoria
        /\ "lp_recibir" \in SitiosEnMemoria /\ "admitido" \in SitiosEnMemoria
        /\ {"new", "ready_suspendido", "lp_recibir", "admitido"} \subseteq Sitios
    BY DEF SitiosEnMemoria, Sitios
  <2> QED BY <1>2, <1>3, <2>1, CuantosOcupan DEF Uno
<1>5. sem_multiprogramacion \in Int /\ grado_multiprogramacion \in Int /\ LIMITE \in Int
  BY CantidadesAssumption DEF IndInv, TypeOK, TiposSemaforos, TiposDatos
<1> QED BY <1>1, <1>3, <1>4, <1>5 DEF OcupanConservado, Uno

(* An exit and the end of a suspension give a place back.                  *)
LEMMA DevolverConserva ==
  ASSUME IndInv, IndInv', SitioUnico, ColasSinRepetir, OcupanConservado,
         AvisarConsola \/ \E p \in Pid : ConfirmarSuspension(p)
  PROVE  OcupanConservado'
<1>1. /\ hilo_ready' = hilo_ready
      /\ sem_multiprogramacion' = sem_multiprogramacion + 1
      /\ grado_multiprogramacion' = grado_multiprogramacion - 1
  BY DEF AvisarConsola, ConfirmarSuspension, DevolverLugar
<1>2. \E p \in Pid, s \in {"exit", "suspendiendo"}, t \in {"finalizado", "bloqueado_suspendido"} :
        Traslado(p, s, t)
  BY MueveDispatch, MueveSuspension
<1>3. PICK n \in Nat : n = Cardinality(Ocupan)
  BY OcupanFinito
<1>4. Cardinality(Ocupan') = n - 1
  <2>1. /\ "finalizado" \notin SitiosEnMemoria /\ "bloqueado_suspendido" \notin SitiosEnMemoria
        /\ "exit" \in SitiosEnMemoria /\ "suspendiendo" \in SitiosEnMemoria
        /\ {"exit", "suspendiendo", "finalizado", "bloqueado_suspendido"} \subseteq Sitios
    BY DEF SitiosEnMemoria, Sitios
  <2> QED BY <1>2, <1>3, <2>1, CuantosOcupan DEF Uno
<1>5. sem_multiprogramacion \in Int /\ grado_multiprogramacion \in Int /\ LIMITE \in Int
  BY CantidadesAssumption DEF IndInv, TypeOK, TiposSemaforos, TiposDatos
<1>6. Uno(hilo_ready.etapa # "esperar") \in Int
  BY DEF Uno
<1>7. n + sem_multiprogramacion = LIMITE
  BY <1>3 DEF OcupanConservado
<1>8. grado_multiprogramacion + Uno(hilo_ready.etapa # "esperar") = n
  BY <1>3 DEF OcupanConservado
<1>9. Cardinality(Ocupan') + sem_multiprogramacion' = LIMITE
  BY <1>1, <1>4, <1>5, <1>7
<1>10. grado_multiprogramacion' + Uno(hilo_ready.etapa # "esperar") = Cardinality(Ocupan')
  BY <1>1, <1>4, <1>5, <1>6, <1>8
<1>11. Uno(hilo_ready.etapa # "esperar")' = Uno(hilo_ready.etapa # "esperar")
  BY <1>1 DEF Uno
<1> QED BY <1>9, <1>10, <1>11 DEF OcupanConservado

(* The other steps.                                                        *)
DispatchSinAviso ==
  \/ BloquearFIFO \/ AgregarABloqueadoFIFO \/ BloquearSRT \/ SacarBloqueadoDeRunningSRT
  \/ VolverAReadySRT \/ SacarDesalojadoDeRunning \/ PasarAExit \/ RelacionInexistente
NadieEntraNiSale ==
  \/ Cliente \/ LargoPlazoRecibirTabla \/ AgregarAReadyFIFO \/ AgregarAReadySRT
  \/ DesalojarTrasAgregar \/ HiloCortoPlazo \/ DispatchSinAviso \/ HiloBloqueo
  \/ \E p \in Pid, k \in 1 .. MaxBloqueos : VencerBloqueo(p, k)
  \/ Cpu

(* They leave the same processes in memory.                                *)
LEMMA OcupanQuieto ==
  ASSUME IndInv, IndInv', SitioUnico, ColasSinRepetir,
         NadieEntraNiSale
  PROVE  Cardinality(Ocupan') = Cardinality(Ocupan)
<1> DEFINE Igual == Cardinality(Ocupan') = Cardinality(Ocupan)
<1> SUFFICES Igual
  OBVIOUS
<1>1. ASSUME NEW s \in Sitios, NEW t \in Sitios, \E p \in Pid : Traslado(p, s, t),
             s \in SitiosEnMemoria <=> t \in SitiosEnMemoria
      PROVE  Igual
  <2>1. PICK n \in Nat : n = Cardinality(Ocupan)
    BY OcupanFinito
  <2>2. Uno(s \in SitiosEnMemoria) = Uno(t \in SitiosEnMemoria) /\ Uno(t \in SitiosEnMemoria) \in Int
    BY <1>1 DEF Uno
  <2>3. Cardinality(Ocupan') = n + Uno(t \in SitiosEnMemoria) - Uno(s \in SitiosEnMemoria)
    BY <1>1, <2>1, CuantosOcupan
  <2> QED BY <2>1, <2>2, <2>3
<1>2. Quieto => Igual
  BY CuantosOcupan
<1> HIDE DEF Igual
<1> USE DEF Sitios, SitiosEnMemoria
<1>3. CASE Cliente
  <2>1. Quieto \/ (\E p \in Pid : Traslado(p, "fuera", "cliente"))
          \/ (\E p \in Pid : Traslado(p, "cliente", "new"))
    BY <1>3, MueveCliente DEF Cliente
  <2> QED BY <1>1, <1>2, <2>1
<1>4. CASE \/ LargoPlazoRecibirTabla \/ AgregarAReadyFIFO \/ AgregarAReadySRT
           \/ DesalojarTrasAgregar
  <2>1. Quieto \/ (\E p \in Pid : Traslado(p, "lp_recibir", "admitido"))
          \/ (\E p \in Pid : Traslado(p, "admitido", "ready"))
    BY <1>4, MueveAdmision, MueveAdmitido
  <2> QED BY <1>1, <1>2, <2>1
<1>5. CASE HiloCortoPlazo
  <2>1. Quieto \/ (\E p \in Pid : Traslado(p, "ready", "cpu"))
    BY <1>5, MueveCorto DEF HiloCortoPlazo
  <2> QED BY <1>1, <1>2, <2>1
<1>6. CASE DispatchSinAviso
  <2>1. \/ Quieto
        \/ \E p \in Pid : Traslado(p, "cpu", "bloquear")
        \/ \E p \in Pid : Traslado(p, "cpu", "bloqueado")
        \/ \E p \in Pid : Traslado(p, "cpu", "exit")
        \/ \E p \in Pid : Traslado(p, "cpu", "ready")
        \/ \E p \in Pid : Traslado(p, "bloquear", "bloqueado")
    <3>1. CASE BloquearFIFO \/ BloquearSRT \/ PasarAExit
      BY <3>1, MueveMensaje
    <3>2. CASE VolverAReadySRT
      BY <3>2, MueveDesalojado
    <3>3. CASE \/ AgregarABloqueadoFIFO \/ SacarBloqueadoDeRunningSRT
               \/ SacarDesalojadoDeRunning \/ RelacionInexistente
      BY <3>3, MueveDispatch
    <3> QED BY <1>6, <3>1, <3>2, <3>3 DEF DispatchSinAviso
  <2> QED BY <1>1, <1>2, <2>1
<1>7. CASE HiloBloqueo
  <2>1. \/ Quieto
        \/ \E p \in Pid : Traslado(p, "bloqueado", "a_ready")
        \/ \E p \in Pid : Traslado(p, "a_ready", "ready")
        \/ \E p \in Pid : Traslado(p, "bloqueado_suspendido", "a_ready_suspendido")
        \/ \E p \in Pid : Traslado(p, "a_ready_suspendido", "ready_suspendido")
    <3>1. CASE BuscarSuspendido \/ PasarAReadySuspendido
      BY <3>1, MueveSuspendido
    <3>2. CASE \/ \E p \in Pid : TomarDispositivo(p)
               \/ TerminarIO \/ Desbloquear \/ DesalojarTrasDesbloquear
      BY <3>2, MueveBloqueo
    <3> QED BY <1>7, <3>1, <3>2 DEF HiloBloqueo
  <2> QED BY <1>1, <1>2, <2>1
<1>8. CASE \E p \in Pid, k \in 1 .. MaxBloqueos : VencerBloqueo(p, k)
  <2>1. Quieto \/ \E p \in Pid : Traslado(p, "bloqueado", "suspendiendo")
    BY <1>8, MueveSuspension
  <2> QED BY <1>1, <1>2, <2>1
<1>9. CASE Cpu
  BY <1>2, <1>9, MueveCpu
<1> QED
  BY <1>3, <1>4, <1>5, <1>6, <1>7, <1>8, <1>9 DEF NadieEntraNiSale

(* And the semaphore and the counter are the same, the process that        *)
(* hilo_pasar_ready has in its hands included.                             *)
LEMMA GradoQuieto ==
  ASSUME TypeOK,
         NadieEntraNiSale
  PROVE  /\ sem_multiprogramacion' = sem_multiprogramacion
         /\ grado_multiprogramacion' + Uno(hilo_ready'.etapa # "esperar")
              = grado_multiprogramacion + Uno(hilo_ready.etapa # "esperar")
<1> USE DEF listas, semaforos, datos, hilos, hilos_es
<1>1. CASE LargoPlazoRecibirTabla \/ AgregarAReadySRT
  BY <1>1 DEF LargoPlazoRecibirTabla, SacarDeNew, AgregarAReadySRT, En
<1>2. CASE AgregarAReadyFIFO \/ DesalojarTrasAgregar
  BY <1>2 DEF AgregarAReadyFIFO, DesalojarTrasAgregar, En, Uno, TypeOK, TiposDatos
<1>3. CASE \/ Cliente \/ HiloCortoPlazo \/ DispatchSinAviso
           \/ HiloBloqueo \/ \E p \in Pid, k \in 1 .. MaxBloqueos : VencerBloqueo(p, k)
           \/ Cpu
  <2>1. UNCHANGED <<sem_multiprogramacion, grado_multiprogramacion, hilo_ready>>
    <3>1. CASE Cliente
      BY <3>1 DEF Cliente, InicializarPcb, AgregarANew, AgregarRelacion
    <3>2. CASE HiloCortoPlazo
      BY <3>2 DEF HiloCortoPlazo, CortoPlazoDespachar, CortoPlazoRegistrar
    <3>3. CASE DispatchSinAviso
      BY <3>3 DEF DispatchSinAviso, BloquearFIFO, AgregarABloqueadoFIFO, BloquearSRT,
         SacarBloqueadoDeRunningSRT, VolverAReadySRT, SacarDesalojadoDeRunning,
         PasarAExit, RelacionInexistente, SacarDeRunning, AvisarHayPcb
    <3>4. CASE HiloBloqueo
      BY <3>4 DEF HiloBloqueo, TomarDispositivo, TerminarIO, Desbloquear,
         DesalojarTrasDesbloquear, BuscarSuspendido, PasarAReadySuspendido, AvisarHayPcb
    <3>5. CASE \E p \in Pid, k \in 1 .. MaxBloqueos : VencerBloqueo(p, k)
      BY <3>5 DEF VencerBloqueo
    <3>6. CASE Cpu
      BY <3>6 DEF Cpu, CpuRecibir, CpuInterrupcion, CpuIO, CpuExit, CpuDesalojo, CpuEnviar
    <3> QED BY <1>3, <3>1, <3>2, <3>3, <3>4, <3>5, <3>6
  <2> QED BY <2>1
<1> QED BY <1>1, <1>2, <1>3 DEF NadieEntraNiSale

(* Every step keeps the count.                                             *)
LEMMA OcupanInductivo ==
  ASSUME IndInv, IndInv', SitioUnico, ColasSinRepetir, OcupanConservado, [Next]_vars
  PROVE  OcupanConservado'
<1>1. CASE MedianoPlazoSacar \/ LargoPlazoPedirTabla
  BY <1>1, AdmitirConserva
<1>2. CASE AvisarConsola \/ \E p \in Pid : ConfirmarSuspension(p)
  BY <1>2, DevolverConserva
<1>3. CASE NadieEntraNiSale
  <2>1. Cardinality(Ocupan') = Cardinality(Ocupan)
    BY <1>3, OcupanQuieto
  <2>2. /\ sem_multiprogramacion' = sem_multiprogramacion
        /\ grado_multiprogramacion' + Uno(hilo_ready'.etapa # "esperar")
             = grado_multiprogramacion + Uno(hilo_ready.etapa # "esperar")
    BY <1>3, GradoQuieto DEF IndInv
  <2>3. Uno(hilo_ready.etapa # "esperar")' = Uno(hilo_ready'.etapa # "esperar")
    BY DEF Uno
  <2> QED BY <2>1, <2>2, <2>3 DEF OcupanConservado
<1>4. CASE UNCHANGED vars
  <2>1. UNCHANGED <<new, ready, bloqueado, bloqueado_suspendido, ready_suspendido,
                    pid_contador, cliente, hilo_ready, hilo_dispatch, hilo_es,
                    suspendiendo, finalizados, en_cpu, dispatch_cpu, dispatch_kernel,
                    sem_multiprogramacion, grado_multiprogramacion>>
    BY <1>4 DEF vars, listas, semaforos, datos, hilos, hilos_es, cpu
  <2>2. Quieto
    BY <2>1 DEF Quieto, Ubicado, EnPoderDeLaCpu, Pids
  <2>3. Cardinality(Ocupan') = Cardinality(Ocupan)
    BY <2>2, CuantosOcupan
  <2> QED BY <2>1, <2>3 DEF OcupanConservado, Uno
<1> QED
  BY <1>1, <1>2, <1>3, <1>4
  DEF Next, Sistema, SinTrabajo, HiloPasarReady, CpuDispatchHandler, HilosSuspension,
      NadieEntraNiSale, DispatchSinAviso

(* At the start every place is free.                                       *)
LEMMA InicioOcupan == Init => OcupanConservado
<1> SUFFICES ASSUME Init PROVE OcupanConservado
  OBVIOUS
<1>1. ASSUME NEW p \in Pid, NEW s \in SitiosEnMemoria, Ubicado(p, s) PROVE FALSE
  <2>1. p > pid_contador
    BY DEF Init, Pid
  <2> QED BY <1>1, <2>1 DEF Ubicado, SitiosEnMemoria
<1>2. Ocupan = {}
  BY <1>1 DEF Ocupan
<1>3. Cardinality(Ocupan) = 0
  BY <1>2, FS_EmptySet
<1> QED BY <1>3, CantidadesAssumption DEF Init, OcupanConservado, Uno, En

(* The limit of multiprogramming holds through every admission, exit and   *)
(* suspension, and no place is lost: sem_multiprogramacion is what is left *)
(* of LIMITE, and the unsigned grado_multiprogramacion is at most one      *)
(* process behind the processes in memory.                                 *)
THEOREM LimiteRespetado == Spec => []GradoConservado
<1>1. Init => OcupanConservado
  BY InicioOcupan
<1>2. IndInv /\ IndInv' /\ SitioUnico /\ ColasSinRepetir /\ OcupanConservado /\ [Next]_vars
        => OcupanConservado'
  BY OcupanInductivo
<1>3. IndInv /\ SitioUnico /\ OcupanConservado => GradoConservado
  BY OcupanContados DEF IndInv, OcupanConservado, GradoConservado
<1> QED
  BY <1>1, <1>2, <1>3, CadaUnoEnSuSitio, PTL DEF Spec
-----------------------------------------------------------------------------
(* An ordered list stays ordered without its head.                         *)
LEMMA RestoOrdenado ==
  ASSUME NEW cola \in Seq(Pid), cola # <<>>, NEW r \in [Pid -> Int],
         \A i, j \in 1 .. Len(cola) : i < j => r[cola[i]] <= r[cola[j]]
  PROVE  \A i, j \in 1 .. Len(Tail(cola)) : i < j => r[Tail(cola)[i]] <= r[Tail(cola)[j]]
<1>1. /\ Len(cola) \in Nat /\ Len(Tail(cola)) = Len(cola) - 1
      /\ \A i \in 1 .. Len(Tail(cola)) : Tail(cola)[i] = cola[i + 1]
  BY HeadTailProperties
<1> SUFFICES ASSUME NEW i \in 1 .. Len(Tail(cola)), NEW j \in 1 .. Len(Tail(cola)), i < j
             PROVE  r[Tail(cola)[i]] <= r[Tail(cola)[j]]
  OBVIOUS
<1>2. i + 1 \in 1 .. Len(cola) /\ j + 1 \in 1 .. Len(cola) /\ i + 1 < j + 1
  BY <1>1
<1>3. r[cola[i + 1]] <= r[cola[j + 1]]
  BY <1>2
<1> QED BY <1>1, <1>3

(* list_add_sorted keeps the order.                                        *)
LEMMA InsertadoOrdenado ==
  ASSUME NEW cola \in Seq(Pid), NEW p \in Pid, NEW r \in [Pid -> Int],
         \A i, j \in 1 .. Len(cola) : i < j => r[cola[i]] <= r[cola[j]]
  PROVE  LET nueva == InsertarOrdenado(cola, p, r) IN
           \A i, j \in 1 .. Len(nueva) : i < j => r[nueva[i]] <= r[nueva[j]]
<1> DEFINE nueva == InsertarOrdenado(cola, p, r)
<1>1. PICK k \in 1 .. Len(cola) + 1 :
        /\ Insertado(nueva, cola, p, k)
        /\ \A i \in 1 .. k - 1 : r[cola[i]] <= r[p]
        /\ k <= Len(cola) => r[cola[k]] > r[p]
  BY InsertarOrdenadoForma
<1> HIDE DEF nueva
<1>2. /\ Len(cola) \in Nat /\ Len(nueva) = Len(cola) + 1
      /\ \A i \in 1 .. Len(cola) + 1 :
           nueva[i] = IF i < k THEN cola[i] ELSE IF i = k THEN p ELSE cola[i - 1]
  BY <1>1 DEF Insertado
<1>3. \A i \in 1 .. Len(cola) : cola[i] \in Pid /\ r[cola[i]] \in Int
  OBVIOUS
<1>4. r[p] \in Int
  OBVIOUS
<1>5. \A i \in 1 .. Len(cola) : i >= k => r[cola[i]] > r[p]
  <2> SUFFICES ASSUME NEW i \in 1 .. Len(cola), i >= k PROVE r[cola[i]] > r[p]
    OBVIOUS
  <2>1. k \in 1 .. Len(cola) /\ r[cola[k]] > r[p]
    BY <1>1, <1>2
  <2>2. i = k \/ r[cola[k]] <= r[cola[i]]
    BY <1>2, <2>1
  <2> QED BY <1>3, <1>4, <2>1, <2>2
<1>6. ASSUME NEW i \in 1 .. Len(nueva), NEW j \in 1 .. Len(nueva), i < j
      PROVE  r[nueva[i]] <= r[nueva[j]]
  <2>1. i \in 1 .. Len(cola) + 1 /\ j \in 1 .. Len(cola) + 1
    BY <1>2
  <2>2. CASE j < k
    <3>1. nueva[i] = cola[i] /\ nueva[j] = cola[j] /\ i \in 1 .. Len(cola) /\ j \in 1 .. Len(cola)
      BY <1>2, <1>6, <2>1, <2>2
    <3> QED BY <1>6, <3>1
  <2>3. CASE j = k
    <3>1. nueva[i] = cola[i] /\ nueva[j] = p /\ i \in 1 .. k - 1
      BY <1>2, <1>6, <2>1, <2>3
    <3> QED BY <1>1, <3>1
  <2>4. CASE j > k /\ i = k
    <3>1. nueva[i] = p /\ nueva[j] = cola[j - 1] /\ j - 1 \in 1 .. Len(cola) /\ j - 1 >= k
      BY <1>2, <2>1, <2>4
    <3> QED BY <1>3, <1>4, <1>5, <3>1
  <2>5. CASE j > k /\ i < k
    <3>1. i \in 1 .. k - 1 /\ j - 1 \in 1 .. Len(cola) /\ j - 1 >= k
      BY <1>2, <2>1, <2>5
    <3>2. r[cola[i]] <= r[p] /\ r[cola[j - 1]] > r[p] /\ i \in 1 .. Len(cola)
      BY <1>1, <1>2, <1>5, <3>1
    <3>3. nueva[i] = cola[i] /\ nueva[j] = cola[j - 1]
      BY <1>2, <2>1, <2>5
    <3> QED BY <1>3, <1>4, <3>1, <3>2, <3>3
  <2>6. CASE j > k /\ i > k
    <3>1. nueva[i] = cola[i - 1] /\ nueva[j] = cola[j - 1]
      BY <1>2, <2>1, <2>6
    <3>2. i - 1 \in 1 .. Len(cola) /\ j - 1 \in 1 .. Len(cola) /\ i - 1 < j - 1
      BY <1>2, <1>6, <2>1, <2>6
    <3> QED BY <3>1, <3>2
  <2>7. (j < k \/ j = k \/ j > k) /\ (i < k \/ i = k \/ i > k)
    BY <2>1
  <2> QED BY <2>2, <2>3, <2>4, <2>5, <2>6, <2>7
<1> QED BY <1>6 DEF nueva

(* A new estimate of a process that is not in the list does not disturb it.*)
LEMMA OtraRafaga ==
  ASSUME NEW cola \in Seq(Pid), NEW p \in Pid, p \notin ToSet(cola), NEW r, NEW x,
         r \in [Pid -> Rafagas],
         \A i, j \in 1 .. Len(cola) : i < j => r[cola[i]] <= r[cola[j]]
  PROVE  LET s == [r EXCEPT ![p] = x] IN
           \A i, j \in 1 .. Len(cola) : i < j => s[cola[i]] <= s[cola[j]]
<1>1. \A i \in 1 .. Len(cola) : cola[i] \in Pid /\ cola[i] # p
  BY DEF ToSet
<1> QED BY <1>1

(* The preempted and the blocked process have left ready before their      *)
(* estimates change, and every entrance is sorted.                         *)
LEMMA OrdenInductivo ==
  ASSUME IndInv, IndInv', SitioUnico, ColasSinRepetir, ReadyOrdenada, [Next]_vars
  PROVE  ReadyOrdenada'
<1> SUFFICES ASSUME SRT
             PROVE  \A i, j \in 1 .. Len(ready') : i < j => rafaga'[ready'[i]] <= rafaga'[ready'[j]]
  BY DEF ReadyOrdenada, SRT
<1> USE DEF listas, semaforos, datos, hilos, hilos_es
<1>1. /\ ready \in Seq(Pid) /\ rafaga \in [Pid -> Rafagas] /\ rafaga \in [Pid -> Int]
      /\ \A i, j \in 1 .. Len(ready) : i < j => rafaga[ready[i]] <= rafaga[ready[j]]
      /\ TypeOK
  BY RafagasAssumption DEF IndInv, TypeOK, TiposListas, TiposDatos, ReadyOrdenada
<1>2. ASSUME UNCHANGED <<ready, rafaga>>
      PROVE  \A i, j \in 1 .. Len(ready') : i < j => rafaga'[ready'[i]] <= rafaga'[ready'[j]]
  BY <1>1, <1>2
<1>3. CASE CortoPlazoDespachar
  <2>1. ready # <<>> /\ ready' = Tail(ready) /\ rafaga' = rafaga
    BY <1>3, ListasNoVacias DEF CortoPlazoDespachar
  <2> QED BY <1>1, <2>1, RestoOrdenado
<1>4. CASE AgregarAReadySRT \/ Desbloquear
  <2>1. PICK p \in Pid : AgregarAReady(p, rafaga) /\ rafaga' = rafaga
    <3>1. CASE AgregarAReadySRT
      <4>1. hilo_ready.pid \in Pid
        BY <1>1, <3>1, HilosEn DEF AgregarAReadySRT
      <4> QED BY <3>1, <4>1 DEF AgregarAReadySRT
    <3>2. CASE Desbloquear
      <4>1. hilo_es.pid \in Pid
        BY <1>1, <3>2, HilosEn DEF Desbloquear
      <4> QED BY <3>2, <4>1 DEF Desbloquear
    <3> QED BY <1>4, <3>1, <3>2
  <2>2. ready' = InsertarOrdenado(ready, p, rafaga)
    BY <2>1 DEF AgregarAReady
  <2> QED BY <1>1, <2>1, <2>2, InsertadoOrdenado
<1>5. ASSUME NEW p \in Pid, EnPoderDeLaCpu(p)
      PROVE  p \notin ToSet(ready)
  <2>1. PICK s \in Sitios : Ubicado(p, s)
    BY DEF SitioUnico
  <2> QED BY <1>5, <2>1 DEF Ubicado
<1>6. CASE VolverAReadySRT
  <2>1. PICK p \in Pid : Head(dispatch_kernel).pid = p /\ EnPoderDeLaCpu(p)
    BY <1>6, Recibido DEF VolverAReadySRT
  <2>2. PICK r \in Rafagas : /\ rafaga' = [rafaga EXCEPT ![p] = r]
                             /\ AgregarAReady(p, [rafaga EXCEPT ![p] = r])
    BY <1>6, <2>1 DEF VolverAReadySRT
  <2>3. rafaga' \in [Pid -> Int]
    BY <1>1, <2>2, RafagasAssumption
  <2>4. \A i, j \in 1 .. Len(ready) : i < j => rafaga'[ready[i]] <= rafaga'[ready[j]]
    BY <1>1, <1>5, <2>1, <2>2, OtraRafaga
  <2>5. ready' = InsertarOrdenado(ready, p, rafaga')
    BY <2>2 DEF AgregarAReady
  <2> QED BY <1>1, <2>3, <2>4, <2>5, InsertadoOrdenado
<1>7. CASE BloquearSRT
  <2>1. PICK p \in Pid : Head(dispatch_kernel).pid = p /\ EnPoderDeLaCpu(p)
    BY <1>7, Recibido DEF BloquearSRT
  <2>2. PICK r \in Rafagas : rafaga' = [rafaga EXCEPT ![p] = r]
    BY <1>7, <2>1 DEF BloquearSRT
  <2>3. ready' = ready
    BY <1>7 DEF BloquearSRT
  <2> QED BY <1>1, <1>5, <2>1, <2>2, <2>3, OtraRafaga
<1>8. CASE Cliente
  BY <1>2, <1>8 DEF Cliente, InicializarPcb, AgregarANew, AgregarRelacion
<1>9. CASE HiloPasarReady /\ ~AgregarAReadySRT
  <2>1. UNCHANGED <<ready, rafaga>>
    BY <1>9 DEF HiloPasarReady, MedianoPlazoSacar, LargoPlazoPedirTabla, EsperarLugar,
       OtrosEsperarLugar, LargoPlazoRecibirTabla, AgregarAReadyFIFO, DesalojarTrasAgregar
  <2> QED BY <1>2, <2>1
<1>10. CASE CortoPlazoRegistrar
  BY <1>2, <1>10 DEF CortoPlazoRegistrar
<1>11. CASE CpuDispatchHandler /\ ~VolverAReadySRT /\ ~BloquearSRT
  <2>1. UNCHANGED <<ready, rafaga>>
    BY <1>11 DEF CpuDispatchHandler, BloquearFIFO, AgregarABloqueadoFIFO,
       SacarBloqueadoDeRunningSRT, SacarDesalojadoDeRunning, PasarAExit, AvisarConsola,
       RelacionInexistente
  <2> QED BY <1>2, <2>1
<1>12. CASE HiloBloqueo /\ ~Desbloquear
  <2>1. UNCHANGED <<ready, rafaga>>
    BY <1>12 DEF HiloBloqueo, TomarDispositivo, TerminarIO, DesalojarTrasDesbloquear,
       BuscarSuspendido, PasarAReadySuspendido
  <2> QED BY <1>2, <2>1
<1>13. CASE HilosSuspension
  BY <1>2, <1>13 DEF HilosSuspension, VencerBloqueo, ConfirmarSuspension
<1>14. CASE Cpu
  BY <1>2, <1>14 DEF Cpu, CpuRecibir, CpuInterrupcion, CpuIO, CpuExit, CpuDesalojo, CpuEnviar
<1>15. CASE UNCHANGED vars
  BY <1>2, <1>15 DEF vars
<1> QED
  BY <1>3, <1>4, <1>6, <1>7, <1>8, <1>9, <1>10, <1>11, <1>12, <1>13, <1>14, <1>15
  DEF Next, Sistema, SinTrabajo, HiloCortoPlazo

(* Under SRT the process that hilo_de_corto_plazo takes is one with the    *)
(* shortest estimate in ready: the list is sorted in every state.          *)
THEOREM ReadySiempreOrdenada == Spec => []ReadyOrdenada
<1>1. Init => ReadyOrdenada
  BY DEF Init, ReadyOrdenada
<1>2. IndInv /\ IndInv' /\ SitioUnico /\ ColasSinRepetir /\ ReadyOrdenada /\ [Next]_vars
        => ReadyOrdenada'
  BY OrdenInductivo
<1> QED
  BY <1>1, <1>2, CadaUnoEnSuSitio, PTL DEF Spec
-----------------------------------------------------------------------------
(* The refinement of CicloDeVida.  The state that Estado gives a process   *)
(* is the one of its stage.                                                *)
EstadosBien == \A p \in Pid, s \in Sitios : Ubicado(p, s) => Estado(p) = EstadoDe(s)

(* So it is in every state that has its types.                             *)
LEMMA EstadoDeSitio == TypeOK => EstadosBien
<1> SUFFICES ASSUME TypeOK, NEW p \in Pid, NEW s \in Sitios, Ubicado(p, s)
             PROVE  Estado(p) = EstadoDe(s)
  BY DEF EstadosBien
<1>1. p > pid_contador <=> s = "fuera"
  BY DEF Ubicado
<1>2. CASE s = "fuera"
  BY <1>1, <1>2 DEF Estado, EstadoDe
<1>3. CASE s # "fuera"
  <2>1. Lugares(p) = {EstadoDe(s)}
    BY <1>3, LugaresDeSitio
  <2> QED BY <1>1, <1>3, <2>1 DEF Estado
<1> QED BY <1>2, <1>3

(* The moves that change it, as CicloDeVida names them.                    *)
LEMMA EstadosDeMovimientos ==
  ASSUME NEW m \in Movimientos
  PROVE  /\ m[1] \in Sitios /\ m[2] \in Sitios
         /\ \/ EstadoDe(m[1]) = EstadoDe(m[2])
            \/ m = <<"fuera", "cliente">>
                 /\ EstadoDe(m[1]) = "fuera" /\ EstadoDe(m[2]) = "new"
            \/ m = <<"new", "lp_recibir">>
                 /\ EstadoDe(m[1]) = "new" /\ EstadoDe(m[2]) = "ready"
            \/ m = <<"ready_suspendido", "admitido">>
                 /\ EstadoDe(m[1]) = "ready_suspendido" /\ EstadoDe(m[2]) = "ready"
            \/ m = <<"ready", "cpu">>
                 /\ EstadoDe(m[1]) = "ready" /\ EstadoDe(m[2]) = "running"
            \/ EstadoDe(m[1]) = "running" /\ EstadoDe(m[2]) \in {"ready", "bloqueado", "exit"}
            \/ EstadoDe(m[1]) = "bloqueado"
                 /\ EstadoDe(m[2]) \in {"ready", "bloqueado_suspendido"}
            \/ EstadoDe(m[1]) = "bloqueado_suspendido" /\ EstadoDe(m[2]) = "ready_suspendido"
  BY DEF Movimientos, Sitios, EstadoDe

(* A stage and its state tell the same processes apart: those in main      *)
(* memory, the one that runs, and those that wait in ready_suspendido.     *)
LEMMA SitiosDeEstado ==
  ASSUME NEW s \in Sitios
  PROVE  /\ EstadoDe(s) \in {"ready", "running", "bloqueado"} => s \in SitiosEnMemoria
         /\ EstadoDe(s) = "running" => s = "cpu"
         /\ EstadoDe(s) = "ready_suspendido" => s = "ready_suspendido"
  BY DEF Sitios, SitiosEnMemoria, EstadoDe

(* A process that takes a place finds one, by the count of the places.     *)
LEMMA LugarAlEntrar ==
  ASSUME IndInv, IndInv', SitioUnico, EstadosBien, OcupanConservado, OcupanConservado',
         NEW p \in Pid, NEW s \in Sitios, NEW t \in Sitios, Traslado(p, s, t),
         s \notin SitiosEnMemoria, t \in SitiosEnMemoria
  PROVE  Ciclo!HayLugar
<1>1. PICK n \in Nat : n = Cardinality(Ocupan)
  BY OcupanFinito
<1>2. n < LIMITE
  <2>1. Cardinality(Ocupan') = n + 1
    BY <1>1, CuantosOcupan DEF Uno
  <2>2. PICK k \in Nat : k = sem_multiprogramacion'
    BY DEF IndInv, TypeOK, TiposSemaforos
  <2>3. n + 1 + k = LIMITE
    BY <2>1, <2>2 DEF OcupanConservado
  <2> QED BY <2>3, CantidadesAssumption
<1>3. Ciclo!EnMemoria \subseteq Ocupan
  <2> SUFFICES ASSUME NEW q \in Pid, Estado(q) \in {"ready", "running", "bloqueado"}
               PROVE  q \in Ocupan
    BY DEF Ciclo!EnMemoria, Ciclo!En
  <2>1. PICK u \in Sitios : Ubicado(q, u)
    BY DEF SitioUnico
  <2>2. u \in SitiosEnMemoria
    BY <2>1, SitiosDeEstado DEF EstadosBien
  <2> QED BY <2>1, <2>2 DEF Ocupan
<1>4. PICK k \in Nat : k = Cardinality(Ciclo!EnMemoria) /\ k <= n
  BY <1>1, <1>3, OcupanFinito, FS_Subset, FS_CardinalityType
<1>5. k < LIMITE
  BY <1>2, <1>4, CantidadesAssumption
<1>6. Ciclo!HayLugar <=> Cardinality(Ciclo!EnMemoria) < LIMITE
  BY Zenon DEF Ciclo!HayLugar, Ciclo!Cardinality, Cardinality
<1> QED BY <1>4, <1>5, <1>6

(* The CPU never has two processes.                                        *)
LEMMA UnoEnLaCpu ==
  ASSUME IndInv, IndInv', NEW p \in Pid, NEW q \in Pid,
         EnPoderDeLaCpu(p)', EnPoderDeLaCpu(q)'
  PROVE  p = q
<1>1. CpuDeUnProceso'
  BY DEF IndInv
<1>2. EnLaCpu(p)' /\ EnLaCpu(q)'
  BY PoderDeLaCpu
<1>3. p # Nadie /\ q # Nadie
  BY DEF Pid, Nadie
<1>4. PICK x \in Pid : EnTransito(x)'
  BY <1>1, <1>2, <1>3 DEF CpuDeUnProceso, EnLaCpu
<1>5. \A y \in Pid : EnLaCpu(y)' /\ y # Nadie => y = x
  BY <1>4 DEF EnTransito, EnLaCpu, Mensaje
<1> QED BY <1>2, <1>3, <1>5

(* Only planificador_largo_plazo_ready looks at the head of new, and only  *)
(* when nobody waits in ready_suspendido.                                  *)
LEMMA SoloPideElLargoPlazo ==
  ASSUME [Next]_vars, hilo_ready'.etapa = "lp_recibir"
  PROVE  hilo_ready' = hilo_ready \/ ready_suspendido = <<>>
<1> USE DEF listas, semaforos, datos, hilos, hilos_es
<1>1. CASE LargoPlazoPedirTabla
  BY <1>1 DEF LargoPlazoPedirTabla
<1>2. CASE \/ MedianoPlazoSacar \/ LargoPlazoRecibirTabla
           \/ AgregarAReadyFIFO \/ AgregarAReadySRT \/ DesalojarTrasAgregar
  BY <1>2 DEF MedianoPlazoSacar, LargoPlazoRecibirTabla, SacarDeNew, AgregarAReadyFIFO,
     AgregarAReadySRT, DesalojarTrasAgregar, En
<1>3. CASE Cliente \/ HiloCortoPlazo
  BY <1>3 DEF Cliente, InicializarPcb, AgregarANew, AgregarRelacion, HiloCortoPlazo,
     CortoPlazoDespachar, CortoPlazoRegistrar
<1>4. CASE CpuDispatchHandler
  BY <1>4 DEF CpuDispatchHandler, BloquearFIFO, AgregarABloqueadoFIFO, BloquearSRT,
     SacarBloqueadoDeRunningSRT, VolverAReadySRT, SacarDesalojadoDeRunning, PasarAExit,
     AvisarConsola, RelacionInexistente
<1>5. CASE HiloBloqueo
  BY <1>5 DEF HiloBloqueo, TomarDispositivo, TerminarIO, Desbloquear,
     DesalojarTrasDesbloquear, BuscarSuspendido, PasarAReadySuspendido
<1>6. CASE HilosSuspension
  BY <1>6 DEF HilosSuspension, VencerBloqueo, ConfirmarSuspension
<1>7. CASE Cpu
  BY <1>7 DEF Cpu, CpuRecibir, CpuInterrupcion, CpuIO, CpuExit, CpuDesalojo, CpuEnviar
<1>8. CASE UNCHANGED vars
  BY <1>8 DEF vars
<1> QED
  BY <1>1, <1>2, <1>3, <1>4, <1>5, <1>6, <1>7, <1>8
  DEF Next, Sistema, SinTrabajo, HiloPasarReady

(* The state of each process, which CicloDeVida calls estado.              *)
EstadoActual == [p \in Pid |-> Estado(p)]

(* A move between stages of the same state is a stutter, any other changes *)
(* the state of its process alone.                                         *)
LEMMA EfectoEnEstado ==
  ASSUME SitioUnico, EstadosBien, EstadosBien'
  PROVE  /\ Quieto => EstadoActual' = EstadoActual
         /\ \A p \in Pid, s \in Sitios, t \in Sitios : Traslado(p, s, t) =>
              /\ EstadoActual[p] = EstadoDe(s)
              /\ EstadoActual' = [EstadoActual EXCEPT ![p] = EstadoDe(t)]
<1>1. EstadoActual' = [q \in Pid |-> Estado(q)']
  BY DEF EstadoActual
<1>2. \A q \in Pid, u \in Sitios : /\ Ubicado(q, u) => Estado(q) = EstadoDe(u)
                                   /\ Ubicado(q, u)' => Estado(q)' = EstadoDe(u)
  <2>1. \A q \in Pid, u \in Sitios : Ubicado(q, u)' => Estado(q)' = EstadoDe(u)
    <3>1. \A q \in Pid, u \in Sitios : (Ubicado(q, u) => Estado(q) = EstadoDe(u))'
      BY DEF EstadosBien
    <3>2. \A u : EstadoDe(u)' = EstadoDe(u)
      BY DEF EstadoDe
    <3> QED BY <3>1, <3>2
  <2> QED BY <2>1 DEF EstadosBien
<1>3. ASSUME NEW q \in Pid, \A u \in Sitios : Ubicado(q, u) => Ubicado(q, u)'
      PROVE  Estado(q)' = Estado(q)
  <2>1. PICK u \in Sitios : Ubicado(q, u)
    BY DEF SitioUnico
  <2> QED BY <1>2, <1>3, <2>1
<1>4. Quieto => EstadoActual' = EstadoActual
  BY <1>1, <1>3 DEF Quieto, EstadoActual
<1>5. ASSUME NEW p \in Pid, NEW s \in Sitios, NEW t \in Sitios, Traslado(p, s, t)
      PROVE  /\ EstadoActual[p] = EstadoDe(s)
             /\ EstadoActual' = [EstadoActual EXCEPT ![p] = EstadoDe(t)]
  <2>1. Estado(p) = EstadoDe(s) /\ Estado(p)' = EstadoDe(t)
    BY <1>2, <1>5 DEF Traslado
  <2>2. \A q \in Pid : q # p => Estado(q)' = Estado(q)
    BY <1>3, <1>5 DEF Traslado
  <2> QED BY <1>1, <2>1, <2>2 DEF EstadoActual
<1> QED BY <1>4, <1>5

(* Every step of the kernel is a step of CicloDeVida or a stutter.         *)
LEMMA RefinaCiclo ==
  ASSUME IndInv, IndInv', SitioUnico, ColasSinRepetir, EstadosBien, EstadosBien',
         OcupanConservado, OcupanConservado', [Next]_vars
  PROVE  [Ciclo!Next]_EstadoActual
<1>1. CASE Quieto
  BY <1>1, EfectoEnEstado
<1>2. ASSUME NEW p \in Pid, NEW m \in Movimientos, Traslado(p, m[1], m[2])
      PROVE  [Ciclo!Next]_EstadoActual
  <2> DEFINE desde == EstadoDe(m[1])
             hasta == EstadoDe(m[2])
  <2>1. m[1] \in Sitios /\ m[2] \in Sitios
    BY EstadosDeMovimientos
  <2>2. EstadoActual[p] = desde /\ EstadoActual' = [EstadoActual EXCEPT ![p] = hasta]
    BY <1>2, <2>1, EfectoEnEstado
  <2> HIDE DEF desde, hasta
  <2>3. Ciclo!Mover(p, desde, hasta)
    BY <2>2 DEF Ciclo!Mover, EstadoActual
  <2>4. CASE desde = hasta
    <3>1. EstadoActual' = EstadoActual
      BY <2>2, <2>4 DEF EstadoActual
    <3> QED BY <3>1
  <2>5. CASE desde = "fuera" /\ hasta = "new"
    BY <2>3, <2>5 DEF Ciclo!Next, Ciclo!Crear
  <2>6. CASE m = <<"new", "lp_recibir">> /\ desde = "new" /\ hasta = "ready"
    <3>1. m[1] = "new" /\ m[2] = "lp_recibir"
      BY <2>6
    <3>2. Ciclo!HayLugar
      BY <1>2, <2>1, <3>1, LugarAlEntrar DEF SitiosEnMemoria
    <3>3. hilo_ready # En("lp_recibir", p) /\ hilo_ready' = En("lp_recibir", p)
      BY <1>2, <3>1 DEF Traslado, Ubicado
    <3>4. ready_suspendido = <<>>
      BY <3>3, EtapasDistintas, SoloPideElLargoPlazo
    <3>5. ASSUME NEW q \in Pid PROVE Estado(q) # "ready_suspendido"
      <4>1. PICK u \in Sitios : Ubicado(q, u)
        BY DEF SitioUnico
      <4>2. q \notin ToSet(ready_suspendido)
        BY <3>4 DEF ToSet
      <4> QED BY <4>1, <4>2, SitiosDeEstado DEF EstadosBien, Ubicado
    <3>6. Ciclo!En("ready_suspendido") = {}
      BY <3>5 DEF Ciclo!En
    <3> QED BY <2>3, <2>6, <3>2, <3>6 DEF Ciclo!Next, Ciclo!Admitir
  <2>7. CASE /\ m = <<"ready_suspendido", "admitido">>
             /\ desde = "ready_suspendido" /\ hasta = "ready"
    <3>1. m[1] = "ready_suspendido" /\ m[2] = "admitido"
      BY <2>7
    <3>2. Ciclo!HayLugar
      BY <1>2, <2>1, <3>1, LugarAlEntrar DEF SitiosEnMemoria
    <3> QED BY <2>3, <2>7, <3>2 DEF Ciclo!Next, Ciclo!Readmitir
  <2>8. CASE m = <<"ready", "cpu">> /\ desde = "ready" /\ hasta = "running"
    <3>1. m[1] = "ready" /\ m[2] = "cpu"
      BY <2>8
    <3>2. EnPoderDeLaCpu(p)' /\ ~EnPoderDeLaCpu(p)
      BY <1>2, <3>1 DEF Traslado, Ubicado
    <3>3. ASSUME NEW q \in Pid, Estado(q) = "running" PROVE FALSE
      <4>1. PICK u \in Sitios : Ubicado(q, u)
        BY DEF SitioUnico
      <4>2. u = "cpu"
        BY <3>3, <4>1, SitiosDeEstado DEF EstadosBien
      <4>3. EnPoderDeLaCpu(q)
        BY <4>1, <4>2 DEF Ubicado
      <4>4. q # p
        BY <3>2, <4>3
      <4>5. EnPoderDeLaCpu(q)'
        BY <1>2, <4>1, <4>2, <4>4 DEF Traslado, Ubicado
      <4> QED BY <3>2, <4>4, <4>5, UnoEnLaCpu
    <3>4. Ciclo!En("running") = {}
      BY <3>3 DEF Ciclo!En
    <3> QED BY <2>3, <2>8, <3>4 DEF Ciclo!Next, Ciclo!Despachar
  <2>9. CASE desde = "running" /\ hasta \in {"ready", "bloqueado", "exit"}
    BY <2>3, <2>9 DEF Ciclo!Next, Ciclo!Desalojar, Ciclo!Bloquear, Ciclo!Terminar
  <2>10. CASE desde = "bloqueado" /\ hasta \in {"ready", "bloqueado_suspendido"}
    BY <2>3, <2>10 DEF Ciclo!Next, Ciclo!Desbloquear, Ciclo!Suspender
  <2>11. CASE desde = "bloqueado_suspendido" /\ hasta = "ready_suspendido"
    BY <2>3, <2>11 DEF Ciclo!Next, Ciclo!TerminarBloqueo
  <2> QED
    BY <2>4, <2>5, <2>6, <2>7, <2>8, <2>9, <2>10, <2>11, EstadosDeMovimientos
    DEF desde, hasta
<1>3. Quieto \/ \E p \in Pid, m \in Movimientos : Traslado(p, m[1], m[2])
  BY PasoMueve
<1> QED BY <1>1, <1>2, <1>3

(* The scheduler implements CicloDeVida: whatever its six kinds of threads *)
(* do in between, a process only makes the moves of its life cycle, it is  *)
(* admitted only when there is a place, a suspended one before a new one,  *)
(* and one at a time has the CPU.                                          *)
THEOREM KernelImplementaCiclo == Spec => ImplementaCiclo
<1>1. Init /\ SitioUnico /\ EstadosBien => Ciclo!Init
  <2> SUFFICES ASSUME Init PROVE Ciclo!Init
    OBVIOUS
  <2>1. \A p \in Pid : Estado(p) = "fuera"
    BY DEF Init, Pid, Estado
  <2> QED BY <2>1 DEF Ciclo!Init
<1>2. IndInv => EstadosBien
  BY EstadoDeSitio DEF IndInv
<1>3. Init => OcupanConservado
  BY InicioOcupan
<1>4. IndInv /\ IndInv' /\ SitioUnico /\ ColasSinRepetir /\ OcupanConservado /\ [Next]_vars
        => OcupanConservado'
  BY OcupanInductivo
<1>5. IndInv /\ IndInv' /\ SitioUnico /\ ColasSinRepetir /\ EstadosBien /\ EstadosBien'
        /\ OcupanConservado /\ OcupanConservado' /\ [Next]_vars
        => [Ciclo!Next]_EstadoActual
  BY RefinaCiclo
<1> QED
  BY <1>1, <1>2, <1>3, <1>4, <1>5, CadaUnoEnSuSitio, PTL
  DEF Spec, ImplementaCiclo, Ciclo!Spec, EstadoActual
=============================================================================

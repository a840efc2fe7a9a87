----------------------------- MODULE Traduccion -----------------------------
(***************************************************************************)
(* The CPU's mmu and TLB (cpu/cpu.c) on top of the memory module and its   *)
(* two levels of tables (module Tablas): which bytes of main memory an     *)
(* access goes to.  The CPU asks for the second level table at every       *)
(* access, and for the frame only when the TLB misses; it empties the TLB  *)
(* when it receives a process, unless it is the one it last gave back      *)
(* because of an interruption.                                             *)
(*                                                                         *)
(* Of the kernel (kernel/planificador.c) only the state of each process is *)
(* here, since it decides when a process executes, is suspended, comes     *)
(* back and ends; module Planificador has its queues and threads.          *)
(*                                                                         *)
(* A definition with the comment "Variant" is a plausible bug in the       *)
(* definition that follows it.                                             *)
(***************************************************************************)
EXTENDS Memoria, Mmu

CONSTANTS
  Tamanios,                \* sizes the consoles ask for, in bytes
  Direcciones,             \* logical addresses the programs use
  ENTRADAS_TLB,            \* of the TLB
  REEMPLAZO_TLB            \* "FIFO" or "LRU"

ASSUME DireccionesAssumption ==
  /\ \A tam \in Tamanios : tam \in Nat /\ tam <= PAGINAS * TAM_PAGINA
  /\ \A dir \in Direcciones : dir \in Nat /\ \A tam \in Tamanios : dir < tam
ASSUME TlbAssumption == ENTRADAS_TLB \in Nat \ {0} /\ REEMPLAZO_TLB \in {"FIFO", "LRU"}

VARIABLES
  estado,                  \* the state the kernel has each process in
  tabla_tlb,
  pid_en_ejecucion,        \* the last process the CPU received
  atendiendo_interrupcion,
  direccion,               \* physical address the CPU has for the access, or 0
  tablas_primer_nivel,
  tablas_segundo_nivel,
  tabla_paginas,           \* in the pcb of each process
  tam_proceso              \* in the pcb of each process

cpu == <<tabla_tlb, pid_en_ejecucion, atendiendo_interrupcion, direccion>>
tablas == <<tablas_primer_nivel, tablas_segundo_nivel, tabla_paginas, tam_proceso>>
varsTraduccion == <<vars, estado, cpu, tablas>>

T == INSTANCE Tablas

InitTraduccion ==
  /\ Init
  /\ estado = [p \in Procesos |-> "ready"]
  /\ tabla_tlb = <<>>
  /\ pid_en_ejecucion = Nada
  /\ atendiendo_interrupcion = FALSE
  /\ direccion = 0
  /\ T!InitTablas

Ejecutando(p) == estado[p] = "running"
Pasar(p, desde, hasta) == estado[p] = desde /\ estado' = [estado EXCEPT ![p] = hasta]

-----------------------------------------------------------------------------
(* The kernel, its requests to the memory module, and what the CPU sends   *)
(* back: the process, blocked, interrupted or ended.                       *)

\* Variant.
SinLimpiar(p) == UNCHANGED tabla_tlb
LimpiarSiOtroPid(p) ==
  tabla_tlb' = IF p # pid_en_ejecucion THEN <<>> ELSE tabla_tlb
LimpiarTlb(p) ==
  tabla_tlb' = IF atendiendo_interrupcion /\ p = pid_en_ejecucion THEN tabla_tlb ELSE <<>>

(* EJECUTAR, in the main loop of the CPU.                                  *)
Ejecutar(p) ==
  /\ proceso[p] = "en_memoria"
  /\ \A q \in Procesos : ~Ejecutando(q)
  /\ Pasar(p, "ready", "running")
  /\ LimpiarTlb(p)
  /\ pid_en_ejecucion' = p
  /\ atendiendo_interrupcion' = FALSE
  /\ UNCHANGED <<vars, tablas, direccion>>

(* atender_interrupcion, between two instructions.                         *)
AtenderInterrupcion(p) ==
  /\ pedido = SinPedido
  /\ Pasar(p, "running", "ready")
  /\ atendiendo_interrupcion' = TRUE
  /\ UNCHANGED <<vars, tablas, tabla_tlb, pid_en_ejecucion, direccion>>

(* I_O and EXIT.                                                           *)
Dejar(p, hasta) ==
  pedido = SinPedido /\ Pasar(p, "running", hasta) /\ UNCHANGED <<vars, tablas, cpu>>
EjecutarIO(p) == Dejar(p, "bloqueado")
EjecutarExit(p) == Dejar(p, "exit")

(* The I/O ends in time, or a suspended process comes back.                *)
Desbloquear(p) ==
  /\ proceso[p] = "en_memoria"
  /\ Pasar(p, "bloqueado", "ready")
  /\ UNCHANGED <<vars, tablas, cpu>>
VolverDeSuspension(p) ==
  Readmitir(p) /\ Pasar(p, "bloqueado", "ready") /\ UNCHANGED <<tablas, cpu>>

(* The tables are made and destroyed with the rest of the structures.      *)
CrearEstructuras(p, tam) == InicializarEstructuras(p) /\ T!CrearTablas(p, tam)
DestruirDelTodo == ConfirmarDestruccion /\ T!DestruirTablas(hilo_kernel.pid)

AtenderKernel ==
  /\ \/ \E p \in Procesos, tam \in Tamanios : CrearEstructuras(p, tam)
     \/ DestruirDelTodo
     \/ /\ \/ \E p \in Procesos : \/ estado[p] = "bloqueado" /\ Suspender(p)
                                  \/ estado[p] = "exit" /\ DestruirEstructuras(p)
           \/ EnviarPaginaSwap \/ ConfirmarSuspension \/ LiberarEntrada
        /\ UNCHANGED tablas
  /\ UNCHANGED <<estado, cpu>>

-----------------------------------------------------------------------------
(* mmu: the TLB, then the memory module.                                   *)

PosicionesTlb(n) == {i \in 1 .. Len(tabla_tlb) : tabla_tlb[i].pagina = n}
EnTlb(n) == CHOOSE i \in PosicionesTlb(n) : \A j \in PosicionesTlb(n) : i <= j

\* Variant.
AgregarSinSacar(i) == Append(tabla_tlb, tabla_tlb[i])
(* LRU takes the entry out and puts it last; FIFO leaves it in its place.  *)
Tocar(i) ==
  IF REEMPLAZO_TLB = "LRU" THEN Append(RemoveAt(tabla_tlb, i), tabla_tlb[i]) ELSE tabla_tlb

(* The entry of second level the two first requests of an access lead to.  *)
EntradaDe(p, dir) == T!EntradaDe(tabla_paginas[p], dir)

MmuAcierto(p, dir) ==
  LET n == NumeroPagina(dir)
      m == tabla_tlb[EnTlb(n)].marco
  IN  /\ pedido = SinPedido
      /\ Ejecutando(p)
      /\ PosicionesTlb(n) # {}
      /\ pedido' = [pid |-> EntradaDe(p, dir).pid, pagina |-> EntradaDe(p, dir).pagina,
                     marco |-> m]
      /\ direccion' = DireccionFisica(m, dir)
      /\ tabla_tlb' = Tocar(EnTlb(n))
      /\ UNCHANGED <<proceso, tabla, marcos_disponibles, base_memoria, swap,
                     posicion_cursor, hilo_kernel, caida, estado, pid_en_ejecucion,
                     atendiendo_interrupcion, tablas>>

\* Variant.
AgregarSiempre(entrada) == Append(tabla_tlb, entrada)
(* agregar_entrada_tlb: when the TLB is full its first entry goes.         *)
AgregarEntradaTlb(entrada) ==
  Append(IF Len(tabla_tlb) = ENTRADAS_TLB THEN Tail(tabla_tlb) ELSE tabla_tlb, entrada)

MmuFallo(p, dir) ==
  LET n == NumeroPagina(dir)
  IN  /\ Ejecutando(p)
      /\ PosicionesTlb(n) = {}
      /\ ObtenerNumeroMarco(EntradaDe(p, dir).pid, EntradaDe(p, dir).pagina)
      /\ IF caida'
           THEN UNCHANGED <<tabla_tlb, direccion>>
           ELSE /\ tabla_tlb' = AgregarEntradaTlb([pagina |-> n, marco |-> pedido'.marco])
                /\ direccion' = DireccionFisica(pedido'.marco, dir)
      /\ UNCHANGED <<estado, pid_en_ejecucion, atendiendo_interrupcion, tablas>>

Acceder ==
  /\ Acceso
  /\ direccion' = 0
  /\ UNCHANGED <<estado, tabla_tlb, pid_en_ejecucion, atendiendo_interrupcion, tablas>>

-----------------------------------------------------------------------------
Terminado == SinTrabajo /\ UNCHANGED <<estado, cpu, tablas>>

Cpu ==
  \/ \E p \in Procesos : \/ Ejecutar(p) \/ AtenderInterrupcion(p)
                         \/ EjecutarIO(p) \/ EjecutarExit(p)
  \/ \E p \in Procesos, dir \in Direcciones : MmuAcierto(p, dir) \/ MmuFallo(p, dir)
  \/ Acceder

NextTraduccion ==
  \/ ~caida /\ Cpu
  \/ ~caida /\ AtenderKernel
  \/ ~caida /\ \E p \in Procesos : Desbloquear(p) \/ VolverDeSuspension(p)
  \/ Terminado

SpecTraduccion == InitTraduccion /\ [][NextTraduccion]_varsTraduccion
-----------------------------------------------------------------------------
(* What the TLB says of the process that executes is what its page table   *)
(* says: emptying the TLB on EJECUTAR is enough even though a suspension   *)
(* takes frames away and the TLB is kept across an interruption.           *)
TlbCoherente ==
  \A p \in Procesos : Ejecutando(p) =>
    \A i \in 1 .. Len(tabla_tlb) :
      LET e == tabla_tlb[i]
      IN  tabla[p][e.pagina].presencia /\ tabla[p][e.pagina].marco = e.marco

(* The TLB never outgrows its entries, nor holds a page twice.             *)
TlbAcotada ==
  /\ Len(tabla_tlb) <= ENTRADAS_TLB
  /\ \A i, j \in 1 .. Len(tabla_tlb) : tabla_tlb[i].pagina = tabla_tlb[j].pagina => i = j

(* The tables lead every address of every process to its own page, whatever*)
(* other processes have been created and destroyed.                        *)
RutaDePagina == T!RutaDePagina

(* The four bytes an access reads or writes are in the frame it was told:  *)
(* none of them is of another page, for the aligned addresses programs use.*)
AccesoEnSuMarco ==
  pedido # SinPedido =>
    \A b \in direccion .. direccion + ANCHO - 1 : b \div TAM_PAGINA = pedido.marco
=============================================================================

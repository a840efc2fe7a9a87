---------------------------- MODULE Planificador ----------------------------
(***************************************************************************)
(* The kernel's scheduler (kernel/planificador.c): the process lists, the  *)
(* counting semaphores that tie the threads together, and one action per   *)
(* step of each thread: the handler of each console, hilo_pasar_ready      *)
(* (long and medium term), hilo_de_corto_plazo_pasar_running,              *)
(* cpu_dispatch_handler, one hilo_bloqueo_proceso and one                  *)
(* hilo_contador_suspension_por_bloqueo per block.  The CPU is reduced to  *)
(* what it may send over the dispatch socket; the memory module answers a  *)
(* request at any later moment.                                            *)
(*                                                                         *)
(* An action is a maximal run of one thread's code that does one access    *)
(* another thread can observe: the waits and receives that precede the     *)
(* access and the posts, sends and thread creations that follow it belong  *)
(* to the same action.  The calls on the lists of the commons library are  *)
(* taken as atomic.                                                        *)
(*                                                                         *)
(* A definition with the comment "Variant" is not part of the              *)
(* specification: it is a plausible bug in the definition that follows it, *)
(* with which the properties are shown to be able to fail.                 *)
(***************************************************************************)
EXTENDS Integers, FiniteSets, SequencesExt

CONSTANTS
  MaxProcesos,             \* bound: processes created in a behaviour
  MaxBloqueos,             \* bound: I/O instructions of a process
  ALGORITMO,               \* ALGORITMO_PLANIFICACION of the kernel's config
  LIMITE,                  \* GRADO_MULTIPROGRAMACION of the kernel's config
  Rafagas,                 \* abstract values of a burst estimate
  ESTIMACION_INICIAL,      \* ESTIMACION_INICIAL of the kernel's config
  ConexionesConcurrentes,  \* may two consoles be attended at once?
  SuspensionLenta          \* may an I/O end while memory is still swapping?

ASSUME CantidadesAssumption ==
  /\ MaxProcesos \in Nat \ {0}
  /\ MaxBloqueos \in Nat
  /\ LIMITE \in Nat \ {0}
ASSUME AlgoritmoAssumption == ALGORITMO \in {"FIFO", "SRT"}
ASSUME RafagasAssumption == Rafagas \subseteq Int /\ ESTIMACION_INICIAL \in Rafagas
ASSUME EntornoAssumption ==
  ConexionesConcurrentes \in BOOLEAN /\ SuspensionLenta \in BOOLEAN

Pid == 1 .. MaxProcesos
Nadie == 0                 \* no process
SRT == ALGORITMO = "SRT"

VARIABLES
  \* the lists of planificador.h; bloqueado and bloqueado_suspendido are only
  \* searched by pid, so their order is left out
  new, ready, running, bloqueado, bloqueado_suspendido, ready_suspendido,
  lista_relacion_consola_proceso,
  \* the counting semaphores
  sem_sincro_ready, sem_multiprogramacion, sem_hay_pcb_ready, sem_cpu_libre,
  sem_sincro_running, sem_sincro_suspension,
  \* the counters and the fields of a pcb that scheduling depends on
  pid_contador, grado_multiprogramacion, tabla_paginas, rafaga, bloqueos,
  \* the threads: where each one is and the pcb it holds
  cliente, hilo_ready, hilo_corto, hilo_dispatch, hilo_es,
  esperan_es, temporizadores, suspendiendo, finalizados,
  \* the sockets dispatch (both directions) and interrupt, and the CPU
  dispatch_cpu, dispatch_kernel, interrupt, en_cpu, hay_interrupciones

listas == <<new, ready, running, bloqueado, bloqueado_suspendido,
            ready_suspendido, lista_relacion_consola_proceso>>
semaforos == <<sem_sincro_ready, sem_multiprogramacion, sem_hay_pcb_ready,
               sem_cpu_libre, sem_sincro_running, sem_sincro_suspension>>
datos == <<pid_contador, grado_multiprogramacion, tabla_paginas, rafaga, bloqueos>>
hilos_es == <<hilo_es, esperan_es, temporizadores, suspendiendo>>
hilos == <<cliente, hilo_ready, hilo_corto, hilo_dispatch, hilos_es, finalizados>>
cpu == <<dispatch_cpu, dispatch_kernel, interrupt, en_cpu, hay_interrupciones>>
vars == <<listas, semaforos, datos, hilos, cpu>>

En(etapa, pid) == [etapa |-> etapa, pid |-> pid]
Mensaje(tipo, pid) == [tipo |-> tipo, pid |-> pid]

-----------------------------------------------------------------------------
\* Variant.
InsertarAlFinal(cola, pid, r) == Append(cola, pid)

(* list_add_sorted with ordenar_por_estimacion_rafaga: the pcb goes before *)
(* the first element it must not follow, after its equals.                 *)
InsertarOrdenado(cola, pid, r) ==
  LET mayores == {i \in 1 .. Len(cola) : r[cola[i]] > r[pid]}
  IN  IF mayores = {} THEN Append(cola, pid) ELSE InsertAt(cola, Min(mayores), pid)

(* A pcb enters ready as each algorithm says, with the estimates r.        *)
AgregarAReady(pid, r) ==
  ready' = IF SRT THEN InsertarOrdenado(ready, pid, r) ELSE Append(ready, pid)

(* sem_post(&sem_hay_pcb_ready).                                           *)
\* Variant.
AvisarSoloFIFO == sem_hay_pcb_ready' = IF SRT THEN sem_hay_pcb_ready ELSE sem_hay_pcb_ready + 1
AvisarSoloSRT == sem_hay_pcb_ready' = IF SRT THEN sem_hay_pcb_ready + 1 ELSE sem_hay_pcb_ready
AvisarHayPcb == sem_hay_pcb_ready' = sem_hay_pcb_ready + 1

(* list_remove_by_condition(bloqueado, es_pid_a_desbloquear), under        *)
(* semaforo_pid_comparacion.                                               *)
\* Variant.
BuscarSinSacar(pid) == UNCHANGED bloqueado
SacarDeBloqueado(pid) == bloqueado' = bloqueado \ {pid}

(* A process leaves main memory: its place is given back.                  *)
\* Variant.
DevolverSinPost ==
  /\ grado_multiprogramacion' = grado_multiprogramacion - 1
  /\ UNCHANGED sem_multiprogramacion
DevolverLugar ==
  /\ grado_multiprogramacion' = grado_multiprogramacion - 1
  /\ sem_multiprogramacion' = sem_multiprogramacion + 1

(* semaforo_lista_ready is only held across two actions by the long term   *)
(* scheduler, while it decides whether to interrupt.                       *)
MutexReadyLibre == hilo_ready.etapa # "lp_desalojo"

(* One int is sent over the interrupt socket if some process is registered *)
(* as running at the moment of the check.                                  *)
EvaluarDesalojo ==
  interrupt' = IF running # <<>> THEN interrupt + 1 ELSE interrupt

Init ==
  /\ new = <<>> /\ ready = <<>> /\ running = <<>>
  /\ bloqueado = {} /\ bloqueado_suspendido = {} /\ ready_suspendido = <<>>
  /\ lista_relacion_consola_proceso = {}
  /\ sem_sincro_ready = 0 /\ sem_multiprogramacion = LIMITE
  /\ sem_hay_pcb_ready = 0 /\ sem_cpu_libre = 1
  /\ sem_sincro_running = 0 /\ sem_sincro_suspension = 0
  /\ pid_contador = 0 /\ grado_multiprogramacion = 0
  /\ tabla_paginas = {}
  /\ rafaga = [p \in Pid |-> ESTIMACION_INICIAL]
  /\ bloqueos = [p \in Pid |-> 0]
  /\ cliente = [p \in Pid |-> "sin_pid"]
  /\ hilo_ready = En("esperar", Nadie)
  /\ hilo_corto = En("esperar", Nadie)
  /\ hilo_dispatch = En("esperar", Nadie)
  /\ hilo_es = En("libre", Nadie)
  /\ esperan_es = {} /\ temporizadores = {} /\ suspendiendo = {}
  /\ finalizados = {}
  /\ dispatch_cpu = <<>> /\ dispatch_kernel = <<>> /\ interrupt = 0
  /\ en_cpu = Nadie /\ hay_interrupciones = FALSE

-----------------------------------------------------------------------------
(* The handler of a console: crear_proceso.  The handler is named by the   *)
(* pid it obtains under semaforo_pid.                                      *)

InicializarPcb ==
  /\ pid_contador < MaxProcesos
  /\ ConexionesConcurrentes \/ \A p \in 1 .. pid_contador : cliente[p] = "fin"
  /\ pid_contador' = pid_contador + 1
  /\ cliente' = [cliente EXCEPT ![pid_contador + 1] = "agregar_new"]
  /\ UNCHANGED <<listas, semaforos, grado_multiprogramacion, tabla_paginas, rafaga,
                 bloqueos, hilo_ready, hilo_corto, hilo_dispatch, hilos_es,
                 finalizados, cpu>>

\* Variant.
EncolarAlFrente(p) == <<p>> \o new
EncolarEnNew(p) == Append(new, p)

AgregarANew(p) ==
  /\ cliente[p] = "agregar_new"
  /\ new' = EncolarEnNew(p)
  /\ cliente' = [cliente EXCEPT ![p] = "agregar_relacion"]
  /\ UNCHANGED <<ready, running, bloqueado, bloqueado_suspendido, ready_suspendido,
                 lista_relacion_consola_proceso, semaforos, datos, hilo_ready,
                 hilo_corto, hilo_dispatch, hilos_es, finalizados, cpu>>

AgregarRelacion(p) ==
  /\ cliente[p] = "agregar_relacion"
  /\ lista_relacion_consola_proceso' = lista_relacion_consola_proceso \union {p}
  /\ sem_sincro_ready' = sem_sincro_ready + 1
  /\ cliente' = [cliente EXCEPT ![p] = "fin"]
  /\ UNCHANGED <<new, ready, running, bloqueado, bloqueado_suspendido,
                 ready_suspendido, sem_multiprogramacion, sem_hay_pcb_ready,
                 sem_cpu_libre, sem_sincro_running, sem_sincro_suspension, datos,
                 hilo_ready, hilo_corto, hilo_dispatch, hilos_es, finalizados, cpu>>

-----------------------------------------------------------------------------
(* hilo_pasar_ready: long term (from new) or medium term (from             *)
(* ready_suspendido), the suspended first.                                 *)

OtrosEsperarLugar ==
  UNCHANGED <<sem_hay_pcb_ready, sem_cpu_libre, sem_sincro_running,
              sem_sincro_suspension, ready, running, bloqueado, bloqueado_suspendido,
              lista_relacion_consola_proceso, new, datos, cliente, hilo_corto,
              hilo_dispatch, hilos_es, finalizados, cpu>>

\* Variant.
EsperarSinLimite ==
  /\ hilo_ready.etapa = "esperar"
  /\ sem_sincro_ready > 0
  /\ sem_sincro_ready' = sem_sincro_ready - 1
  /\ sem_multiprogramacion' = sem_multiprogramacion - 1
  /\ OtrosEsperarLugar
EsperarSinConsumir ==
  /\ hilo_ready.etapa = "esperar"
  /\ sem_sincro_ready > 0 /\ sem_multiprogramacion > 0
  /\ sem_multiprogramacion' = sem_multiprogramacion - 1
  /\ UNCHANGED sem_sincro_ready
  /\ OtrosEsperarLugar

(* The two waits at the top of the loop.                                   *)
EsperarLugar ==
  /\ hilo_ready.etapa = "esperar"
  /\ sem_sincro_ready > 0 /\ sem_multiprogramacion > 0
  /\ sem_sincro_ready' = sem_sincro_ready - 1
  /\ sem_multiprogramacion' = sem_multiprogramacion - 1
  /\ OtrosEsperarLugar

(* planificador_mediano_plazo_ready: takes the head of ready_suspendido.   *)
MedianoPlazoSacar ==
  /\ EsperarLugar
  /\ ready_suspendido # <<>>
  /\ hilo_ready' = En("mp_agregar", Head(ready_suspendido))
  /\ ready_suspendido' = Tail(ready_suspendido)

(* planificador_largo_plazo_ready: looks at the head of new and asks the   *)
(* memory module to initialise its structures.                             *)
LargoPlazoPedirTabla ==
  /\ EsperarLugar
  /\ ready_suspendido = <<>>
  /\ hilo_ready' = En("lp_recibir", Head(new))
  /\ UNCHANGED ready_suspendido

(* list_remove(new, 0).                                                    *)
\* Variant.
UltimoDeNew ==
  /\ hilo_ready' = En("lp_agregar", new[Len(new)])
  /\ new' = SubSeq(new, 1, Len(new) - 1)
SacarDeNew ==
  /\ hilo_ready' = En("lp_agregar", Head(new))
  /\ new' = Tail(new)

(* The answer is stored in the pcb seen before; the pcb that moves on is   *)
(* the one list_remove returns now.                                        *)
LargoPlazoRecibirTabla ==
  /\ hilo_ready.etapa = "lp_recibir"
  /\ tabla_paginas' = tabla_paginas \union {hilo_ready.pid}
  /\ SacarDeNew
  /\ UNCHANGED <<ready, running, bloqueado, bloqueado_suspendido, ready_suspendido,
                 lista_relacion_consola_proceso, semaforos, pid_contador,
                 grado_multiprogramacion, rafaga, bloqueos, cliente, hilo_corto,
                 hilo_dispatch, hilos_es, finalizados, cpu>>

(* FIFO: nothing is left to decide after the insertion.                    *)
AgregarAReadyFIFO ==
  /\ hilo_ready.etapa \in {"lp_agregar", "mp_agregar"}
  /\ ~SRT
  /\ AgregarAReady(hilo_ready.pid, rafaga)
  /\ grado_multiprogramacion' = grado_multiprogramacion + 1
  /\ AvisarHayPcb
  /\ hilo_ready' = En("esperar", Nadie)
  /\ UNCHANGED <<new, running, bloqueado, bloqueado_suspendido, ready_suspendido,
                 lista_relacion_consola_proceso, sem_sincro_ready,
                 sem_multiprogramacion, sem_cpu_libre, sem_sincro_running,
                 sem_sincro_suspension, pid_contador, tabla_paginas, rafaga, bloqueos,
                 cliente, hilo_corto, hilo_dispatch, hilos_es, finalizados, cpu>>

(* SRT: the long term scheduler keeps semaforo_lista_ready until it has    *)
(* decided whether to interrupt, the medium term one does not.             *)
AgregarAReadySRT ==
  /\ hilo_ready.etapa \in {"lp_agregar", "mp_agregar"}
  /\ SRT
  /\ AgregarAReady(hilo_ready.pid, rafaga)
  /\ hilo_ready' = En(IF hilo_ready.etapa = "lp_agregar" THEN "lp_desalojo"
                                                        ELSE "mp_desalojo",
                      hilo_ready.pid)
  /\ UNCHANGED <<new, running, bloqueado, bloqueado_suspendido, ready_suspendido,
                 lista_relacion_consola_proceso, semaforos, datos, cliente,
                 hilo_corto, hilo_dispatch, hilos_es, finalizados, cpu>>

DesalojarTrasAgregar ==
  /\ hilo_ready.etapa \in {"lp_desalojo", "mp_desalojo"}
  /\ EvaluarDesalojo
  /\ grado_multiprogramacion' = grado_multiprogramacion + 1
  /\ AvisarHayPcb
  /\ hilo_ready' = En("esperar", Nadie)
  /\ UNCHANGED <<listas, sem_sincro_ready, sem_multiprogramacion, sem_cpu_libre,
                 sem_sincro_running, sem_sincro_suspension, pid_contador,
                 tabla_paginas, rafaga, bloqueos, cliente, hilo_corto, hilo_dispatch,
                 hilos_es, finalizados, dispatch_cpu, dispatch_kernel, en_cpu,
                 hay_interrupciones>>

HiloPasarReady ==
  \/ MedianoPlazoSacar \/ LargoPlazoPedirTabla \/ LargoPlazoRecibirTabla
  \/ AgregarAReadyFIFO \/ AgregarAReadySRT \/ DesalojarTrasAgregar

-----------------------------------------------------------------------------
(* hilo_de_corto_plazo_pasar_running: the pcb is sent to the CPU before it *)
(* is registered in running.                                               *)

CortoPlazoDespachar ==
  /\ hilo_corto.etapa = "esperar"
  /\ sem_hay_pcb_ready > 0 /\ sem_cpu_libre > 0
  /\ sem_hay_pcb_ready' = sem_hay_pcb_ready - 1
  /\ sem_cpu_libre' = sem_cpu_libre - 1
  /\ ready' = Tail(ready)
  /\ dispatch_cpu' = Append(dispatch_cpu, Mensaje("EJECUTAR", Head(ready)))
  /\ hilo_corto' = En("registrar", Head(ready))
  /\ UNCHANGED <<new, running, bloqueado, bloqueado_suspendido, ready_suspendido,
                 lista_relacion_consola_proceso, sem_sincro_ready,
                 sem_multiprogramacion, sem_sincro_running, sem_sincro_suspension,
                 datos, cliente, hilo_ready, hilo_dispatch, hilos_es, finalizados,
                 dispatch_kernel, interrupt, en_cpu, hay_interrupciones>>

CortoPlazoRegistrar ==
  /\ hilo_corto.etapa = "registrar"
  /\ running' = Append(running, hilo_corto.pid)
  /\ sem_sincro_running' = sem_sincro_running + 1
  /\ hilo_corto' = En("esperar", Nadie)
  /\ UNCHANGED <<new, ready, bloqueado, bloqueado_suspendido, ready_suspendido,
                 lista_relacion_consola_proceso, sem_sincro_ready,
                 sem_multiprogramacion, sem_hay_pcb_ready, sem_cpu_libre,
                 sem_sincro_suspension, datos, cliente, hilo_ready, hilo_dispatch,
                 hilos_es, finalizados, cpu>>

HiloCortoPlazo == CortoPlazoDespachar \/ CortoPlazoRegistrar

-----------------------------------------------------------------------------
(* cpu_dispatch_handler: one message of the CPU at a time.                 *)

Recibir(tipo) ==
  /\ hilo_dispatch.etapa = "esperar"
  /\ dispatch_kernel # <<>>
  /\ Head(dispatch_kernel).tipo = tipo
  /\ dispatch_kernel' = Tail(dispatch_kernel)
  /\ UNCHANGED <<dispatch_cpu, interrupt, en_cpu, hay_interrupciones>>

\* For the variants of two actions below.
SacarSinSincro ==
  /\ running' = IF running = <<>> THEN <<>> ELSE Tail(running)
  /\ sem_cpu_libre' = sem_cpu_libre + 1
  /\ UNCHANGED <<sem_sincro_ready, sem_multiprogramacion, sem_hay_pcb_ready,
                 sem_sincro_running, sem_sincro_suspension>>
(* The pcb leaves running once it has been registered there.               *)
SacarDeRunning ==
  /\ sem_sincro_running > 0
  /\ sem_sincro_running' = sem_sincro_running - 1
  /\ running' = Tail(running)
  /\ sem_cpu_libre' = sem_cpu_libre + 1
  /\ UNCHANGED <<sem_sincro_ready, sem_multiprogramacion, sem_hay_pcb_ready,
                 sem_sincro_suspension>>

\* Variant.
BloqueoSinHilo(p) ==
  /\ temporizadores' = temporizadores \union {<<p, bloqueos[p]>>}
  /\ UNCHANGED <<hilo_es, suspendiendo, esperan_es>>
(* The two threads a block starts: the suspension timer and the I/O thread.*)
ComenzarBloqueo(p) ==
  /\ temporizadores' = temporizadores \union {<<p, bloqueos[p]>>}
  /\ esperan_es' = esperan_es \union {p}
  /\ UNCHANGED <<hilo_es, suspendiendo>>

\* Variant.
BloquearSinSincro ==
  /\ Recibir("PASAR_A_BLOQUEADO")
  /\ ~SRT
  /\ SacarSinSincro
  /\ hilo_dispatch' = En("bloquear", Head(dispatch_kernel).pid)
  /\ UNCHANGED <<new, ready, bloqueado, bloqueado_suspendido, ready_suspendido,
                 lista_relacion_consola_proceso, datos, cliente, hilo_ready,
                 hilo_corto, hilos_es, finalizados>>
(* planificador_de_corto_plazo_fifo_running, PASAR_A_BLOQUEADO.            *)
BloquearFIFO ==
  /\ Recibir("PASAR_A_BLOQUEADO")
  /\ ~SRT
  /\ SacarDeRunning
  /\ hilo_dispatch' = En("bloquear", Head(dispatch_kernel).pid)
  /\ UNCHANGED <<new, ready, bloqueado, bloqueado_suspendido, ready_suspendido,
                 lista_relacion_consola_proceso, datos, cliente, hilo_ready,
                 hilo_corto, hilos_es, finalizados>>

AgregarABloqueadoFIFO ==
  /\ hilo_dispatch.etapa = "bloquear"
  /\ bloqueado' = bloqueado \union {hilo_dispatch.pid}
  /\ ComenzarBloqueo(hilo_dispatch.pid)
  /\ hilo_dispatch' = En("esperar", Nadie)
  /\ UNCHANGED <<new, ready, running, bloqueado_suspendido, ready_suspendido,
                 lista_relacion_consola_proceso, semaforos, datos, cliente,
                 hilo_ready, hilo_corto, finalizados, cpu>>

(* planificador_de_corto_plazo_sjf_running, PASAR_A_BLOQUEADO: a new       *)
(* estimate, and the pcb enters bloqueado before it leaves running.        *)
BloquearSRT ==
  /\ Recibir("PASAR_A_BLOQUEADO")
  /\ SRT
  /\ LET p == Head(dispatch_kernel).pid IN
       /\ \E r \in Rafagas : rafaga' = [rafaga EXCEPT ![p] = r]
       /\ bloqueado' = bloqueado \union {p}
       /\ hilo_dispatch' = En("bloquear_srt", p)
  /\ UNCHANGED <<new, ready, running, bloqueado_suspendido, ready_suspendido,
                 lista_relacion_consola_proceso, semaforos, pid_contador,
                 grado_multiprogramacion, tabla_paginas, bloqueos, cliente,
                 hilo_ready, hilo_corto, hilos_es, finalizados>>

SacarBloqueadoDeRunningSRT ==
  /\ hilo_dispatch.etapa = "bloquear_srt"
  /\ SacarDeRunning
  /\ ComenzarBloqueo(hilo_dispatch.pid)
  /\ hilo_dispatch' = En("esperar", Nadie)
  /\ UNCHANGED <<new, ready, bloqueado, bloqueado_suspendido, ready_suspendido,
                 lista_relacion_consola_proceso, datos, cliente, hilo_ready,
                 hilo_corto, finalizados, cpu>>

(* planificador_de_corto_plazo_sjf_running, PASAR_A_READY: the burst that  *)
(* ran is discounted and the pcb is sorted back into ready.                *)
VolverAReadySRT ==
  /\ Recibir("PASAR_A_READY")
  /\ SRT
  /\ MutexReadyLibre
  /\ LET p == Head(dispatch_kernel).pid IN
       \E r \in {s \in Rafagas : s <= rafaga[p]} :
         LET nuevas == [rafaga EXCEPT ![p] = r] IN
           /\ rafaga' = nuevas
           /\ AgregarAReady(p, nuevas)
           /\ hilo_dispatch' = En("volver", p)
  /\ AvisarHayPcb
  /\ UNCHANGED <<new, running, bloqueado, bloqueado_suspendido, ready_suspendido,
                 lista_relacion_consola_proceso, sem_sincro_ready,
                 sem_multiprogramacion, sem_cpu_libre, sem_sincro_running,
                 sem_sincro_suspension, pid_contador, grado_multiprogramacion,
                 tabla_paginas, bloqueos, cliente, hilo_ready, hilo_corto, hilos_es,
                 finalizados>>

\* Variant.
SacarDesalojadoSinSincro ==
  /\ hilo_dispatch.etapa = "volver"
  /\ SacarSinSincro
  /\ hilo_dispatch' = En("esperar", Nadie)
  /\ UNCHANGED <<new, ready, bloqueado, bloqueado_suspendido, ready_suspendido,
                 lista_relacion_consola_proceso, datos, cliente, hilo_ready,
                 hilo_corto, hilos_es, finalizados, cpu>>
SacarDesalojadoDeRunning ==
  /\ hilo_dispatch.etapa = "volver"
  /\ SacarDeRunning
  /\ hilo_dispatch' = En("esperar", Nadie)
  /\ UNCHANGED <<new, ready, bloqueado, bloqueado_suspendido, ready_suspendido,
                 lista_relacion_consola_proceso, datos, cliente, hilo_ready,
                 hilo_corto, hilos_es, finalizados, cpu>>

(* exit_largo_plazo.  The message carries no pid: the process that ends is *)
(* the head of running.  exit_estado never holds any pcb but this one.     *)
PasarAExit ==
  /\ Recibir("PASAR_A_EXIT")
  /\ SacarDeRunning
  /\ hilo_dispatch' = En("exit", Head(running))
  /\ UNCHANGED <<new, ready, bloqueado, bloqueado_suspendido, ready_suspendido,
                 lista_relacion_consola_proceso, datos, cliente, hilo_ready,
                 hilo_corto, hilos_es, finalizados>>

(* Memory has answered: the console of the process is looked up, told, and *)
(* closed, and the place in memory is given back.                          *)
AvisarConsola ==
  /\ hilo_dispatch.etapa = "exit"
  /\ hilo_dispatch.pid \in lista_relacion_consola_proceso
  /\ lista_relacion_consola_proceso' =
       lista_relacion_consola_proceso \ {hilo_dispatch.pid}
  /\ finalizados' = finalizados \union {hilo_dispatch.pid}
  /\ DevolverLugar
  /\ hilo_dispatch' = En("esperar", Nadie)
  /\ UNCHANGED <<new, ready, running, bloqueado, bloqueado_suspendido,
                 ready_suspendido, sem_sincro_ready, sem_hay_pcb_ready,
                 sem_cpu_libre, sem_sincro_running, sem_sincro_suspension,
                 pid_contador, tabla_paginas, rafaga, bloqueos, cliente, hilo_ready,
                 hilo_corto, hilos_es, cpu>>

(* The relation is not there yet: the NULL that list_remove_by_condition   *)
(* returns is dereferenced and the kernel goes down.                       *)
RelacionInexistente ==
  /\ hilo_dispatch.etapa = "exit"
  /\ hilo_dispatch.pid \notin lista_relacion_consola_proceso
  /\ hilo_dispatch' = En("caido", hilo_dispatch.pid)
  /\ UNCHANGED <<listas, semaforos, datos, cliente, hilo_ready, hilo_corto, hilos_es,
                 finalizados, cpu>>

CpuDispatchHandler ==
  \/ BloquearFIFO \/ AgregarABloqueadoFIFO
  \/ BloquearSRT \/ SacarBloqueadoDeRunningSRT
  \/ VolverAReadySRT \/ SacarDesalojadoDeRunning
  \/ PasarAExit \/ AvisarConsola \/ RelacionInexistente

-----------------------------------------------------------------------------
(* hilo_bloqueo_proceso: sem_entrada_salida admits one thread, hilo_es.    *)

TomarDispositivo(p) ==
  /\ hilo_es.etapa = "libre"
  /\ p \in esperan_es
  /\ esperan_es' = esperan_es \ {p}
  /\ hilo_es' = En("io", p)
  /\ UNCHANGED <<listas, semaforos, datos, cliente, hilo_ready, hilo_corto,
                 hilo_dispatch, temporizadores, suspendiendo, finalizados, cpu>>

(* The I/O ends: the process is looked for in bloqueado.                   *)
TerminarIO ==
  /\ hilo_es.etapa = "io"
  /\ SuspensionLenta \/ hilo_es.pid \notin suspendiendo
  /\ SacarDeBloqueado(hilo_es.pid)
  /\ hilo_es' = En(IF hilo_es.pid \in bloqueado THEN "a_ready" ELSE "esperar_suspension",
                   hilo_es.pid)
  /\ UNCHANGED <<new, ready, running, bloqueado_suspendido, ready_suspendido,
                 lista_relacion_consola_proceso, semaforos, datos, cliente,
                 hilo_ready, hilo_corto, hilo_dispatch, esperan_es, temporizadores,
                 suspendiendo, finalizados, cpu>>

Desbloquear ==
  /\ hilo_es.etapa = "a_ready"
  /\ MutexReadyLibre
  /\ AgregarAReady(hilo_es.pid, rafaga)
  /\ AvisarHayPcb
  /\ hilo_es' = IF SRT THEN En("desalojo", hilo_es.pid) ELSE En("libre", Nadie)
  /\ UNCHANGED <<new, running, bloqueado, bloqueado_suspendido, ready_suspendido,
                 lista_relacion_consola_proceso, sem_sincro_ready,
                 sem_multiprogramacion, sem_cpu_libre, sem_sincro_running,
                 sem_sincro_suspension, datos, cliente, hilo_ready, hilo_corto,
                 hilo_dispatch, esperan_es, temporizadores, suspendiendo, finalizados,
                 cpu>>

DesalojarTrasDesbloquear ==
  /\ hilo_es.etapa = "desalojo"
  /\ EvaluarDesalojo
  /\ hilo_es' = En("libre", Nadie)
  /\ UNCHANGED <<listas, semaforos, datos, cliente, hilo_ready, hilo_corto,
                 hilo_dispatch, esperan_es, temporizadores, suspendiendo, finalizados,
                 dispatch_cpu, dispatch_kernel, en_cpu, hay_interrupciones>>

(* Not in bloqueado: after one post of sem_sincro_suspension, whoever's it *)
(* is, the process is looked for in bloqueado_suspendido; if it is not     *)
(* there the thread logs an error and ends.                                *)
BuscarSuspendido ==
  /\ hilo_es.etapa = "esperar_suspension"
  /\ sem_sincro_suspension > 0
  /\ sem_sincro_suspension' = sem_sincro_suspension - 1
  /\ IF hilo_es.pid \in bloqueado_suspendido
       THEN /\ bloqueado_suspendido' = bloqueado_suspendido \ {hilo_es.pid}
            /\ hilo_es' = En("a_ready_suspendido", hilo_es.pid)
       ELSE /\ UNCHANGED bloqueado_suspendido
            /\ hilo_es' = En("libre", Nadie)
  /\ UNCHANGED <<new, ready, running, bloqueado, ready_suspendido,
                 lista_relacion_consola_proceso, sem_sincro_ready,
                 sem_multiprogramacion, sem_hay_pcb_ready, sem_cpu_libre,
                 sem_sincro_running, datos, cliente, hilo_ready, hilo_corto,
                 hilo_dispatch, esperan_es, temporizadores, suspendiendo, finalizados,
                 cpu>>

PasarAReadySuspendido ==
  /\ hilo_es.etapa = "a_ready_suspendido"
  /\ ready_suspendido' = Append(ready_suspendido, hilo_es.pid)
  /\ sem_sincro_ready' = sem_sincro_ready + 1
  /\ hilo_es' = En("libre", Nadie)
  /\ UNCHANGED <<new, ready, running, bloqueado, bloqueado_suspendido,
                 lista_relacion_consola_proceso, sem_multiprogramacion,
                 sem_hay_pcb_ready, sem_cpu_libre, sem_sincro_running,
                 sem_sincro_suspension, datos, cliente, hilo_ready, hilo_corto,
                 hilo_dispatch, esperan_es, temporizadores, suspendiendo, finalizados,
                 cpu>>

HiloBloqueo ==
  \/ \E p \in Pid : TomarDispositivo(p)
  \/ TerminarIO \/ Desbloquear \/ DesalojarTrasDesbloquear
  \/ BuscarSuspendido \/ PasarAReadySuspendido

-----------------------------------------------------------------------------
(* hilo_contador_suspension_por_bloqueo and                                *)
(* mediano_plazo_bloqueado_suspendido.  The timer <<p, k>> was started by  *)
(* the k-th block of p; the code only looks at p.                          *)

VencerBloqueo(p, k) ==
  /\ <<p, k>> \in temporizadores
  /\ temporizadores' = temporizadores \ {<<p, k>>}
  /\ SacarDeBloqueado(p)
  /\ suspendiendo' = IF p \in bloqueado THEN suspendiendo \union {p} ELSE suspendiendo
  /\ UNCHANGED <<new, ready, running, bloqueado_suspendido, ready_suspendido,
                 lista_relacion_consola_proceso, semaforos, datos, cliente,
                 hilo_ready, hilo_corto, hilo_dispatch, hilo_es, esperan_es,
                 finalizados, cpu>>

(* Memory has confirmed that the process is on disk.                       *)
ConfirmarSuspension(p) ==
  /\ p \in suspendiendo
  /\ suspendiendo' = suspendiendo \ {p}
  /\ bloqueado_suspendido' = bloqueado_suspendido \union {p}
  /\ DevolverLugar
  /\ sem_sincro_suspension' = sem_sincro_suspension + 1
  /\ UNCHANGED <<new, ready, running, bloqueado, ready_suspendido,
                 lista_relacion_consola_proceso, sem_sincro_ready, sem_hay_pcb_ready,
                 sem_cpu_libre, sem_sincro_running, pid_contador, tabla_paginas,
                 rafaga, bloqueos, cliente, hilo_ready, hilo_corto, hilo_dispatch,
                 hilo_es, esperan_es, temporizadores, finalizados, cpu>>

HilosSuspension ==
  \E p \in Pid : ConfirmarSuspension(p) \/ \E k \in 1 .. MaxBloqueos : VencerBloqueo(p, k)

-----------------------------------------------------------------------------
(* The CPU as the kernel sees it (cpu/cpu.c): a loop that receives a pcb,  *)
(* forgets the interrupts seen so far, and answers with exactly one        *)
(* message; and the thread that notes the interrupts.                      *)

CpuRecibir ==
  /\ en_cpu = Nadie
  /\ dispatch_cpu # <<>>
  /\ en_cpu' = Head(dispatch_cpu).pid
  /\ dispatch_cpu' = Tail(dispatch_cpu)
  /\ hay_interrupciones' = FALSE
  /\ UNCHANGED <<listas, semaforos, datos, hilos, dispatch_kernel, interrupt>>

CpuInterrupcion ==
  /\ interrupt > 0
  /\ interrupt' = interrupt - 1
  /\ hay_interrupciones' = TRUE
  /\ UNCHANGED <<listas, semaforos, datos, hilos, dispatch_cpu, dispatch_kernel, en_cpu>>

CpuEnviar(tipo) ==
  /\ en_cpu # Nadie
  /\ dispatch_kernel' = Append(dispatch_kernel, Mensaje(tipo, en_cpu))
  /\ en_cpu' = Nadie
  /\ UNCHANGED <<listas, semaforos, pid_contador, grado_multiprogramacion,
                 tabla_paginas, rafaga, hilos, dispatch_cpu, interrupt,
                 hay_interrupciones>>

CpuIO ==
  /\ CpuEnviar("PASAR_A_BLOQUEADO")
  /\ bloqueos[en_cpu] < MaxBloqueos
  /\ bloqueos' = [bloqueos EXCEPT ![en_cpu] = @ + 1]

CpuExit == CpuEnviar("PASAR_A_EXIT") /\ UNCHANGED bloqueos

CpuDesalojo ==
  /\ CpuEnviar("PASAR_A_READY")
  /\ hay_interrupciones
  /\ UNCHANGED bloqueos

Cpu == CpuRecibir \/ CpuInterrupcion \/ CpuIO \/ CpuExit \/ CpuDesalojo

-----------------------------------------------------------------------------
Cliente == InicializarPcb \/ \E p \in Pid : AgregarANew(p) \/ AgregarRelacion(p)

(* Once every process that the bound allows has ended the kernel just      *)
(* waits for the next console.                                             *)
SinTrabajo == finalizados = Pid /\ UNCHANGED vars

Sistema ==
  \/ Cliente \/ HiloPasarReady \/ HiloCortoPlazo \/ CpuDispatchHandler
  \/ HiloBloqueo \/ HilosSuspension \/ Cpu

(* A segmentation fault stops every thread of the kernel.                  *)
Next == hilo_dispatch.etapa # "caido" /\ (Sistema \/ SinTrabajo)

Spec == Init /\ [][Next]_vars
-----------------------------------------------------------------------------
(* Where a process is.                                                     *)

Uno(b) == IF b THEN 1 ELSE 0
Pids(mensajes) == [i \in 1 .. Len(mensajes) |-> mensajes[i].pid]

(* The kernel has handed p to the CPU and not yet taken it out of running: *)
(* p is in exactly one of the places a running pcb goes through.           *)
EnTransito(p) ==
  LET enviado == dispatch_cpu = <<Mensaje("EJECUTAR", p)>>
      devuelto == Len(dispatch_kernel) = 1 /\ dispatch_kernel[1].pid = p
      tratado == hilo_dispatch.etapa \in {"bloquear_srt", "volver"}
  IN  \/ enviado /\ en_cpu = Nadie /\ dispatch_kernel = <<>> /\ ~tratado
      \/ dispatch_cpu = <<>> /\ en_cpu = p /\ dispatch_kernel = <<>> /\ ~tratado
      \/ dispatch_cpu = <<>> /\ en_cpu = Nadie /\ devuelto /\ ~tratado
      \/ /\ dispatch_cpu = <<>> /\ en_cpu = Nadie /\ dispatch_kernel = <<>>
         /\ tratado /\ hilo_dispatch.pid = p

EnPoderDeLaCpu(p) ==
  \/ en_cpu = p
  \/ p \in ToSet(Pids(dispatch_cpu)) \union ToSet(Pids(dispatch_kernel))

(* One entry per state; a pcb that a thread carries between two lists       *)
(* still counts for the state it leaves, except that hilo_pasar_ready has  *)
(* admitted the process from the moment it took a place in memory for it.  *)
Esta(p) ==
  LET admitido == hilo_ready.pid = p
                    /\ hilo_ready.etapa \in {"lp_recibir", "lp_agregar", "mp_agregar"}
  IN  [new |-> (cliente[p] = "agregar_new" \/ p \in ToSet(new)) /\ ~admitido,
       ready |-> admitido \/ p \in ToSet(ready),
       running |-> EnPoderDeLaCpu(p),
       bloqueado |-> p \in bloqueado \union suspendiendo \/ hilo_es = En("a_ready", p)
                       \/ hilo_dispatch = En("bloquear", p),
       bloqueado_suspendido |-> p \in bloqueado_suspendido
                       \/ hilo_es = En("a_ready_suspendido", p),
       ready_suspendido |-> p \in ToSet(ready_suspendido),
       exit |-> p \in finalizados
                  \/ (hilo_dispatch.pid = p /\ hilo_dispatch.etapa \in {"exit", "caido"})]

Lugares(p) == LET esta == Esta(p) IN {e \in DOMAIN esta : esta[e]}

Estado(p) == IF p > pid_contador THEN "fuera" ELSE CHOOSE e \in Lugares(p) : TRUE

(* A thread holds a pcb in every stage but the first.                      *)
Hilo(sin, con) == [etapa : sin, pid : {Nadie}] \union [etapa : con, pid : Pid]

TiposListas ==
  /\ new \in Seq(Pid) /\ ready \in Seq(Pid) /\ running \in Seq(Pid)
  /\ bloqueado \subseteq Pid /\ bloqueado_suspendido \subseteq Pid
  /\ ready_suspendido \in Seq(Pid) /\ lista_relacion_consola_proceso \subseteq Pid
TiposSemaforos ==
  /\ sem_sincro_ready \in Nat /\ sem_multiprogramacion \in Nat
  /\ sem_hay_pcb_ready \in Nat /\ sem_cpu_libre \in Nat
  /\ sem_sincro_running \in Nat /\ sem_sincro_suspension \in Nat
TiposDatos ==
  /\ pid_contador \in 0 .. MaxProcesos /\ grado_multiprogramacion \in Int
  /\ tabla_paginas \subseteq Pid
  /\ rafaga \in [Pid -> Rafagas] /\ bloqueos \in [Pid -> 0 .. MaxBloqueos]
TiposHilos ==
  /\ cliente \in [Pid -> {"sin_pid", "agregar_new", "agregar_relacion", "fin"}]
  /\ hilo_ready \in
       Hilo({"esperar"}, {"lp_recibir", "lp_agregar", "mp_agregar", "lp_desalojo",
                          "mp_desalojo"})
  /\ hilo_corto \in Hilo({"esperar"}, {"registrar"})
  /\ hilo_dispatch \in
       Hilo({"esperar"}, {"bloquear", "bloquear_srt", "volver", "exit", "caido"})
  /\ hilo_es \in
       Hilo({"libre"}, {"io", "a_ready", "desalojo", "esperar_suspension",
                        "a_ready_suspendido"})
  /\ esperan_es \subseteq Pid /\ suspendiendo \subseteq Pid /\ finalizados \subseteq Pid
  /\ temporizadores \subseteq Pid \X (0 .. MaxBloqueos)

MensajeAlCpu == [tipo : {"EJECUTAR"}, pid : Pid]
MensajeDelCpu == [tipo : {"PASAR_A_BLOQUEADO", "PASAR_A_READY", "PASAR_A_EXIT"}, pid : Pid]
TiposCpu ==
  /\ dispatch_cpu \in Seq(MensajeAlCpu) /\ dispatch_kernel \in Seq(MensajeDelCpu)
  /\ interrupt \in Nat /\ en_cpu \in Pid \union {Nadie}
  /\ hay_interrupciones \in BOOLEAN

TypeOK == TiposListas /\ TiposSemaforos /\ TiposDatos /\ TiposHilos /\ TiposCpu

(* The kernel's running list, with the pcb that is about to be registered  *)
(* in it, is exactly what the CPU or its sockets hold; there is one such   *)
(* process or sem_cpu_libre is free.  So the head of running is the        *)
(* process each message of the CPU is about.                               *)
CpuDeUnProceso ==
  \/ /\ sem_cpu_libre = 1 /\ running = <<>> /\ hilo_corto.etapa = "esperar"
     /\ dispatch_cpu = <<>> /\ en_cpu = Nadie /\ dispatch_kernel = <<>>
     /\ hilo_dispatch.etapa \notin {"bloquear_srt", "volver"}
     /\ sem_sincro_running = 0
  \/ /\ sem_cpu_libre = 0
     /\ \E p \in Pid :
          /\ EnTransito(p)
          /\ \/ running = <<p>> /\ sem_sincro_running = 1 /\ hilo_corto.etapa = "esperar"
             \/ running = <<>> /\ sem_sincro_running = 0 /\ hilo_corto = En("registrar", p)

(* sem_hay_pcb_ready counts the processes in ready, except the one whose   *)
(* preemption is still being evaluated: list_remove(ready, 0) never finds  *)
(* the list empty.                                                         *)
ReadyContado ==
  Len(ready) = sem_hay_pcb_ready + Uno(hilo_ready.etapa \in {"lp_desalojo", "mp_desalojo"})

(* Every post of sem_sincro_ready answers for one process in new or in     *)
(* ready_suspendido, so hilo_pasar_ready never finds both lists empty.     *)
PorRegistrar == {p \in Pid : cliente[p] = "agregar_relacion"}
PorAdmitirContado ==
  Len(new) + Len(ready_suspendido) =
    sem_sincro_ready + Uno(hilo_ready.etapa = "lp_recibir") + Cardinality(PorRegistrar)

(* Admissions, exits and suspensions keep sem_multiprogramacion and        *)
(* grado_multiprogramacion equal to the places left and taken: the limit   *)
(* is never exceeded and the unsigned counter never goes below zero.       *)
GradoConservado ==
  LET ocupan == {p \in 1 .. pid_contador :
                   \/ Lugares(p) \subseteq {"ready", "running", "bloqueado"}
                   \/ hilo_dispatch.pid = p /\ hilo_dispatch.etapa \in {"exit", "caido"}}
  IN  /\ Cardinality(ocupan) + sem_multiprogramacion = LIMITE
      /\ grado_multiprogramacion + Uno(hilo_ready.etapa # "esperar") = Cardinality(ocupan)

(* No move of a pcb between threads, lists and sockets loses it or leaves  *)
(* it in two places.                                                       *)
UnSoloLugar ==
  /\ \A p \in 1 .. pid_contador : Cardinality(Lugares(p)) = 1
  /\ \A cola \in {new, ready, running, ready_suspendido} : IsInjective(cola)

(* Between list_get(new, 0) and list_remove(new, 0) memory is waited for:  *)
(* the head of new is still the pcb whose structures were initialised.     *)
PrimeroDeNew ==
  hilo_ready.etapa = "lp_recibir" => new # <<>> /\ Head(new) = hilo_ready.pid

(* The table number memory answers is stored in the pcb that goes to ready.*)
ReadyConTabla == \A p \in ToSet(ready) : p \in tabla_paginas

(* Under SRT ready is sorted by estimate at every moment.                  *)
ReadyOrdenada ==
  SRT => \A i, j \in 1 .. Len(ready) : i < j => rafaga[ready[i]] <= rafaga[ready[j]]

(* Every process blocked or suspended has an I/O thread that will move it. *)
BloqueadoTieneHilo ==
  \A p \in bloqueado \union suspendiendo \union bloqueado_suspendido :
    p \in esperan_es \union {hilo_es.pid, hilo_dispatch.pid}

(* When the console of a process is looked up, it is there.                *)
ConsolaRegistrada == hilo_dispatch.etapa # "caido"

(* Once every evaluation under way is over, no process in ready has a      *)
(* shorter estimate than the one that runs.                                *)
DesalojoEvaluado ==
  ( /\ SRT /\ interrupt = 0 /\ ~hay_interrupciones
    /\ hilo_ready.etapa \notin {"lp_desalojo", "mp_desalojo"}
    /\ hilo_es.etapa # "desalojo"
    /\ en_cpu # Nadie )
  => \A p \in ToSet(ready) : rafaga[en_cpu] <= rafaga[p]

(* A process is suspended by the timer of the block it is in.              *)
SuspendeSuBloqueo ==
  [][\A p \in suspendiendo' \ suspendiendo : <<p, bloqueos[p]>> \notin temporizadores']_vars

-----------------------------------------------------------------------------
(* The scheduler implements the life cycle of a process.                   *)
Ciclo == INSTANCE CicloDeVida WITH estado <- [p \in Pid |-> Estado(p)]
ImplementaCiclo == Ciclo!Spec

(* No thread of the kernel stops while it can go on, every program reaches *)
(* its EXIT; nothing is assumed of new consoles.                           *)
Equidad ==
  /\ WF_vars(\E p \in Pid : AgregarANew(p) \/ AgregarRelacion(p))
  /\ WF_vars(HiloPasarReady) /\ WF_vars(HiloCortoPlazo) /\ WF_vars(CpuDispatchHandler)
  /\ WF_vars(HiloBloqueo) /\ WF_vars(HilosSuspension) /\ WF_vars(Cpu)

SpecJusta == Spec /\ Equidad

(* Memory has confirmed a suspension by the time its I/O ends.             *)
SuspensionATiempo == hilo_es.etapa = "esperar_suspension" => hilo_es.pid \notin suspendiendo

(* Every process a console creates ends and its console is told, unless it *)
(* was exited before it was registered.  A slow suspension, for which an   *)
(* I/O thread waits with the only device in its hands, delays everyone, but*)
(* nobody for ever, unless a process is left without its thread; and if no *)
(* suspension is slow, none is.                                            *)
TodosTerminan ==
  []ConsolaRegistrada /\ ([]SuspensionATiempo \/ []BloqueadoTieneHilo) =>
    \A p \in Pid : (p <= pid_contador) ~> (p \in finalizados)
=============================================================================

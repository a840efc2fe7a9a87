# Verification of the SistemasOperativos2022 project

Four C programs simulate an operating system: `consola` sends a program to
`kernel`, which plans processes; `cpu` executes them one at a time; `memoria`
keeps their pages.  This directory holds TLA+ models of them, the TLC runs that
check them, and theorems checked by TLAPS.  Names of state and actions are those
of the code, in Spanish; comments are in English.

## 1. Inventory

| Component | State | Operations | Talks to |
|---|---|---|---|
| kernel, planners (`kernel/planificador.c`) | lists `new`, `ready`, `running`, `bloqueado`, `bloqueado_suspendido`, `ready_suspendido`; `grado_multiprogramacion`; six counting semaphores | long and medium term (`hilo_pasar_ready`), short term (`hilo_de_corto_plazo_pasar_running`), `cpu_dispatch_handler`, one `hilo_bloqueo_proceso` and one `hilo_contador_suspension_por_bloqueo` per block | cpu (dispatch, interrupt), memoria, consola |
| kernel, console handler (`kernel/instrucciones_handler.c`) | `lista_relacion_consola_proceso`, `pid_contador` | `atender_instrucciones_cliente`, `crear_proceso` | consola |
| kernel, start (`kernel/kernel.c`) | semaphores, threads | `main`, `inicializar_semaforos` | all |
| cpu, cycle (`cpu/cpu.c` 43-205, 303-309) | pc, `hay_interrupciones`, `atendiendo_interrupcion`, `contador_rafaga` | `ciclo`, the instructions, `atender_interrupcion` | kernel, memoria |
| kernel, the socket to memoria (`kernel/planificador.c` 93-146, 209-232) | `conexion_memoria`, shared by several threads | INICIALIZAR_ESTRUCTURAS, SUSPENDER, DESTRUIR_ESTRUCTURAS | memoria |
| pcb on the wire (`kernel/planificador.c` 510-597, `cpu/utils.c`) | | `enviar_pcb`, `recibir_pcb`, the messages of the cpu | |
| cpu, mmu and TLB (`cpu/cpu.c` 211-354) | `tabla_tlb`, `pid_en_ejecucion` | `mmu`, `tlb`, `agregar_entrada_tlb` | memoria |
| memoria, pages (`memoria/memoria.c`) | tables, `marcos_disponibles`, `base_memoria`, swap files, cursors | create, suspend and destroy (thread of the kernel); frame of a page, read, write (thread of the cpu) | kernel, cpu |
| memoria, tables (143-210, 483-512) | `tablas_primer_nivel`, `tablas_segundo_nivel` | `inicializar_estructuras_proceso`, `destruir_estructuras` | |
| memoria, replacement (577-700) | use and modified bits, `cursor` | CLOCK, CLOCK-M | |
| consola (`consola/*.c`) | the file it reads | `leer_y_enviar_archivo_de_instrucciones`, the wait for `finalizo_exitosamente` | kernel |

What is hard: every planner is a thread, and lists, counters and semaphores
change in separate steps; one socket to memoria is used by several threads;
blocked processes are watched by two threads each, the I/O and the suspension
timer; an interrupt races the message it is about; the two threads of memoria
share the list of free frames; the TLB is a copy of tables that change
elsewhere; a pcb is copied by position at every trip between two programs; and
the burst of a process is counted in pieces by the cpu and used in pieces by the
kernel.  `PROJECT.json` lists these hazards line by line.

What makes each part correct: a process is in one state at a time and none is
lost; semaphores count what their lists hold; the degree of multiprogramming is
respected and given back; the cpu runs one process; a frame holds one page; a
page keeps what was written to it; replacement ends with the page the algorithm
names; the cpu accesses the frame the page is in, and only that one; the program
that is executed is the one written in the file, once and in order; what `ready` is
sorted by is what was executed; and a console is told that its process ended, in the
end too unless the kernel loses its process or its relation (sections 3 and 4).

## 2. Modules

| Module | What it is |
|---|---|
| `CicloDeVida` | Abstract: the seven states of a process, their moves, and the limit of processes in memory. |
| `Planificador` | The kernel's threads with the cpu and the consoles as their environment; implements `CicloDeVida`. |
| `Planificador_proofs` | TLAPS: types, counts, places, the limit and the order of `ready`; implements `CicloDeVida`. |
| `Ejecucion_proofs` | TLAPS: programs, pcbs and bursts; implements `Programa`. |
| `Protocolo_proofs` | TLAPS: pcbs, messages, instructions and whole files are read as they were sent. |
| `Clock_proofs` | TLAPS: turns of the cursor, and that the victim is a page in memory. |
| `Reemplazo_proofs` | TLAPS: the loops compute what `Clock` says, for any number of frames. |
| `Memoria_proofs` | TLAPS: frames and contents; implements `Almacen`. |
| `Tablas_proofs` | TLAPS: the arithmetic of addresses and tables, and that the tables lead every address to its entry. |
| `Traduccion_proofs` | TLAPS: they do so in the system of cpu, kernel and memory; the TLB. |
| `Programa` | Abstract: what a console is promised, its file executed in order and then the answer. |
| `Protocolo` | The words consoles, kernel and cpu send each other, and how they are read. |
| `Ejecucion` | Consoles, handlers, the kernel's hold on the pcb, and the cpu's cycle; implements `Programa`. |
| `MCEjecucion` | The files the consoles of the `ejecucion` run are given. |
| `ConexionMemoria` | The socket from the kernel to memoria, word by word. |
| `Clock` | What CLOCK and CLOCK-M choose, as a function of bits and cursor. |
| `Reemplazo` | The loops of both algorithms, an iteration at a time; they compute `Clock`. |
| `Almacen` | Abstract: a process's pages and their contents, which only the write of the access under way changes. |
| `Memoria` | The memory module with its two threads; uses `Clock`, implements `Almacen`. |
| `Mmu` | The arithmetic of addresses and of the number of tables. |
| `Tablas` | The two levels of page tables of all processes, known by position. |
| `Traduccion` | mmu and TLB on top of `Memoria` and `Tablas`: from a logical address to bytes of a frame. |

**Planificador.** One action per step of a thread between two waits or list
operations: `hilo_ready`, `hilo_corto`, `hilo_dispatch` and `hilo_es` hold the
stage of each thread and the pcb it carries; `esperan_es`, `temporizadores` and
`suspendiendo` are the detached threads of blocked processes.  Lists are
sequences of pids (`bloqueado` and `bloqueado_suspendido` are sets: they are only
searched by pid); each counting semaphore is a number, `sem_wait` a guard and a
decrement.  A section under a mutex is part of one action, and
`semaforo_lista_ready` is kept as a guard where it is held while an interrupt is
sent.  The cpu is three actions (it takes a process, ends a burst by I/O or EXIT,
answers an interrupt); its instructions are a choice.  `ConexionesConcurrentes`
lets consoles be attended at once, `SuspensionLenta` lets an I/O end before
memory has confirmed a suspension; without them the model has the slower
consoles and the faster memory only.  With consoles at once the kernel may look
up a console that is not registered yet and dereference NULL: the dispatch
thread is then "caido" and nothing else happens.

**Reemplazo.** `paso` is the loop that runs and `i` its counter; between page
faults the process accesses its pages in any way.  The page that comes in has
any bits it could have kept from its last stay.

**Memoria.** A page fault is one action, because the only thing it shares with
the other thread is one `list_remove` of `marcos_disponibles`; suspension and
destruction are one action per page.  `pedido` is what the cpu knows between the
answer of the mmu and the access.  When the list of free frames is empty the
code dereferences NULL: `caida`, and nothing else happens.  The kernel asks for a
process what `planificador.c` asks: created once, suspended and destroyed only
while the cpu does not use it, brought back without telling memoria.

**Ejecucion.** One program from the lines of its file to its last instruction.  The
console appends the words of a line to the socket (`EnviarLineaDe`), the handler
takes an instruction at a time, as many words as its type has, and -1 creates
the process.  `pcb` is what the kernel keeps; while a process is dispatched or in
the cpu its pcb is a message or `en_cpu`, and what the kernel keeps next is what it reads
back (`RecibirBloqueo`, `RecibirInterrumpido`).  The planners are here only what they
do to a pcb: any process of `ready` may be dispatched and an interrupt may come at
any time, which includes what `Planificador` allows.  A handler puts the pcb in `new`
(`CrearProceso`) and writes the relation of process and console in a step of its own
(`Registrar`), after which it posts `sem_sincro_ready`; with the post of another console
the process may be admitted and end before that, and then `AvisarConsola` finds no
relation, where the code dereferences NULL: `caido`, and the kernel takes no more steps.
`Desbloquear` is the return of a blocked process, suspended or not; the code may abandon a suspended one, so
nothing makes this step happen.  Time is a number of units per
instruction; `transcurrido` and `contador_rafaga` are the two measures of the cpu.
`ejecutadas`, `consumido` and `desplazado` are history.  Parameters of instructions are
not interpreted here.

**ConexionMemoria.** A request is three sends and a recv by one thread; other threads
send and receive in between, because no mutex covers the socket.

**Tablas, Mmu, Traduccion.** A table is a position in a list, as in the code; nothing is
taken out of these lists, and what is destroyed is the empty table.  `Traduccion` adds
to `Memoria` the addresses, the tables, the TLB, the state the kernel has each process
in, and the rule by which the cpu empties the TLB on EJECUTAR.  An access finds
its page through the table number in the pcb and two requests; `direccion` is the physical
address the cpu has computed.

Definitions marked `Variant` are plausible bugs of the definition that follows
them; no specification uses them, they show that each property can fail.

## 3. Runs

| Run | Question | Bounds |
|---|---|---|
| `planificador_fifo` | Do lists, semaphores and states agree under every interleaving, and is the life cycle implemented? | 3 processes, 1 block each, 2 places, slow memory, consoles at once |
| `planificador_srt` | The same with preemption, and is `ready` sorted? | 3 processes, 1 block, 2 estimates, 2 places |
| `planificador_vivacidad` | Does every process end, however slow memory is to confirm suspensions, unless the kernel loses it or its relation? | 2 processes, 2 blocks each, 1 place, SRT, slow memory, consoles at once |
| `proceso_perdido` | violation: a suspended process is abandoned | 2 processes |
| `desalojo_omitido` | violation: a preemption is not evaluated | 2 processes |
| `ejecucion` | Is the program executed the one in the file, with its pcb and its bursts intact? Is every console told, if suspensions end and relations are written in time? | 2 consoles, 2 files, interrupts at any time |
| `conexion_memoria` | violation: two requests mix on one socket | 2 processes |
| `reemplazo` | Do the loops of both algorithms end, with the right victim? | 4 frames |
| `memoria` | Does a page keep its contents through faults, replacement, suspension and return, within the share of its process? | 1 process of 3 pages, 2 of 3 frames, 2 values, CLOCK-M |
| `suspendido_en_disco` | violation: a suspended process keeps frames | 1 process of 2 pages |
| `traduccion` | Do tables and TLB lead every access to its own frame, across creation, interruption, suspension and destruction? | 2 processes of 24 bytes, pages of 8, 2 entries per table, 2 frames, LRU TLB of 1 |
| `tlb_vieja` | violation: a replaced page stays in the TLB | 3 pages, 1 frame |

Three processes are what it takes for one to run, one to be blocked and one to
enter; two places make the limit bind; two blocks let a timer outlive its block.
Four frames give both algorithms every arrangement around the cursor, and are those of
most configurations.  In `memoria` a frame to spare keeps the order of the list
relevant; one process is enough for contents, which no other process can reach once
frames are of one page each.  With one process the two threads exclude each other, so
what they could do to `marcos_disponibles` together is left to `traduccion`, where the
thread of the kernel is in the middle of one process while the cpu faults in the other
(`MarcosRepartidos`).
`traduccion` has frames for one process only, on purpose, so
that a suspension matters and the NULL of an empty list is reached; with pages of
8 bytes and two entries per table, addresses 12, 16 and 20 are the end of a page, the
first entry of the second table, and an offset in it.  These are two pages, so the TLB
has one entry: a miss with a page of the process in it finds it full (`TlbAcotada`).
With more pages than that they would be more than the frames, and one would be replaced;
`TlbEnSuTamanio` is proved for any number of entries.  It is symmetric in the processes, which no definition
orders.  The two files of `ejecucion` have between them every instruction, a NO_OP
that is repeated, a NO_OP 0, a stretch that can be interrupted twice, and two bursts
around an I/O; two consoles are what it takes for one to execute in the middle of the
other.  All durations are one unit there: a difference between what was executed and what is
reported is a number of instructions.
Deadlock checking is off in `planificador_fifo` and `planificador_vivacidad`, because
there the kernel can stop for good, as said above, or be left with an abandoned process only, and in `conexion_memoria`, which ends when its processes do.

**Fairness.** `SpecJusta` asks weak fairness of each thread of the kernel and of the
cpu: the threads block only in `sem_wait` and `recv`, and an enabled thread of the
operating system is eventually scheduled.  Nothing is asked of the order of the
consoles.  In `Ejecucion` each console, each handler, the planners with the dispatch handler
(`Planificar`) and the cpu are asked to go on, which is
less than a fairness for each thread of the kernel.  Nothing is asked of interrupts: a
process may be interrupted after every instruction, and still each turn executes
one.  Nothing is asked of `Desbloquear` either: `TodaConsolaAvisada` has as conditions that
no process is suspended for ever (`Vuelven`) and that the kernel does not end
(`Sigue`), because the code promises neither; the first is what `proceso_perdido` shows
and the second what `ConsolaRegistrada` is about (section 6).  Each process has a bounded number of blocks (`MaxBloqueos`), as a
program has a last instruction.  `TodosTerminan` says when every process ends: if memory confirms each
suspension before the I/O ends (`SuspensionATiempo`); and if it does not, as long as no process is
left without its I/O thread (`BloqueadoTieneHilo`), which `proceso_perdido` shows can happen.  So
the wait of an I/O thread for a slow suspension, with the only device in its hands,
makes nobody wait for ever by itself.  Both suppose that the kernel goes on (`ConsolaRegistrada`).
In `Reemplazo` weak fairness is that
of a loop that goes on.

## 4. What the violation runs show

- `proceso_perdido`: `sem_sincro_suspension` is one counter for all processes, and
  the I/O thread of one takes the post of another (`planificador.c:430`).
- `desalojo_omitido`: `list_size(running)` is read while the pcb already sent is not
  in `running` yet (`planificador.c:416`).
- `suspendido_en_disco`: pages that are not modified keep frame and presence bit
  (`memoria.c:381`), although the kernel suspends "para que pase a disco".
- `conexion_memoria`: the suspension thread takes for its confirmation the answer to
  another thread's request, and the words of the two are mixed (`planificador.c:227`).
- `tlb_vieja`: a page that was replaced stays in the TLB of its process
  (`cpu.c:230`), and the next access uses a frame of another page.

## 5. Proofs

Everything below is for any values of the constants that satisfy the assumptions
named in each module, and any interleaving.  Each property follows from an
inductive invariant; where it needs more than those assumptions, it is said.

Every invariant that a passing run checks is stated by a theorem, and so are the three
refinements.  What stays with TLC is liveness (`TodosTerminan`, `TodaConsolaAvisada`,
`FaultAtendido`): fairness and ENABLED are out of the prover's reach.

**Planificador_proofs.**

| Theorem | Property | Why it is not inductive alone |
|---|---|---|
| `Tipos` | `TypeOK` | the head of a list is a pid only if the list is not empty, which the counts say where the code takes it (`ListasNoVacias`) |
| `CpuExclusiva`, `ReadyContada`, `AdmisionContada`, `NewEstable` | `CpuDeUnProceso`, `ReadyContado`, `PorAdmitirContado`, `PrimeroDeNew` | joined with the types and with `ClientesEnOrden` in `IndInv`: handlers take pids in order, so that a new pid is in no list |
| `CadaUnoEnSuSitio`, `NadieSePierde` | `UnSoloLugar` | see below |
| `ReadyTieneTabla` | `ReadyConTabla` | `ConTabla`: also what is blocked, in the cpu, or in the hands of a thread has its tables |
| `LimiteRespetado` | `GradoConservado` | `OcupanConservado`: the semaphore and the processes in the places that take memory (`Ocupan`) add up to the limit, and `grado_multiprogramacion` is their number but for the one being admitted |
| `ReadySiempreOrdenada` | `ReadyOrdenada` | a burst changes only while its pcb is out of `ready` |
| `KernelImplementaCiclo` | `ImplementaCiclo` | states are read off the places (`EstadoDe`) |

The kernel keeps a pid in one of several lists, in the hands of one of its threads, or
in the cpu and its channels.  `Ubicado(p, s)` says that p is in the place s, for the places `Sitios`;
every action is either still (`Quieto`) or moves one pid from one place to another
(`Traslado`), which there is a lemma for per action (`Mueve...`, joined in `PasoMueve`).
That every pid is in exactly one place (`SitioUnico`), with no list repeating one
(`ColasSinRepetir`), follows once for all of them, and from the place follow its state, its tables
and whether it counts for the limit.  `InsertarOrdenadoForma` says what the sorted
insertion gives: the sequence with the pid in one position more.

**Clock_proofs, Reemplazo_proofs.** `UnaVuelta` is the arithmetic of the cursor: as many steps as there are frames reach
every position once.  `VictimaPresente`: the victim is a page in memory, and no modified bit
changes.  `IndInv` of `Reemplazo` says, for each loop, how far from the cursor of the
fault it has gone, what use bits it has cleared, and what it has not found so far
(`EnClock`, `EnPrimerPaso`, `EnModificadaSinUso`, and the same for the second turn); so the loops end with what
the function of `Clock` chooses (`CalculoCorrecto`), which for CLOCK-M is of the lowest
class there was (`MenorClase`).

**Memoria_proofs.** `IndInv` has `MarcosRepartidos` in a form without counting (`Reparto`: a frame is free
once or is of one page, and one or the other); what the thread of the kernel has gone
through (`HiloDeAcuerdo`, `EntradasLiberadas`); that a process without structures has no page present
(`SinPaginas`); and that a page has a value somewhere (`PaginasConValor`).  From it:
`TiposMemoria`, `MarcosSinPerdida`, `MarcosPorProceso`, `LimpiasEnDisco`, `MarcoDelPedido`, and
`MemoriaImplementaAlmacen`, the refinement of `Almacen` for both algorithms.  `MarcosSuficientes` is
conditional: the list of free frames is never found empty if the processes are finitely many and their shares add
up to no more than the frames (`Cardinality(Procesos) * MARCOS_POR_PROCESO <= MARCOS`);
it stays a theorem and in no run, because with the one process of `memoria` it is only
counting, and in `traduccion`, whose two processes share two frames, it is false on purpose.
Without it the code does reach the NULL (run `traduccion`, `caida`).

**Tablas_proofs.** About one address: its entries and its offset are in range and put together again are the
address (`PartesDeLaDireccion`); an access that begins four bytes before the end of
its page stays in the frame (`AccesoConLugar`), as an aligned one does when pages are
multiples of four (`AccesoAlineado`); there is a table for every address
below the size of a process (`TablasSuficientes`).  Then `RutaSiempre`: the tables lead every address to its
entry, for sizes that are naturals.  `IndInvTablas` (`TablasEnOrden`) says that the positions a process has are in its
lists, with its own tables in them, and that no two processes have the same table of
first level, which has to be said because a process of 0 bytes has an empty table, like any
other.

**Traduccion_proofs.** Every step of `Traduccion` is one of `Tablas` or leaves the tables alone, so
`RutaDeTodaDireccion` holds.  `TlbEnSuTamanio` needs no condition: the TLB has at most its
entries and each page once.  The rest is under `Holgura`: the pages the addresses are about are
no more than the frames of a process, so that no page is replaced.  The condition is
needed, `tlb_vieja` is the counterexample without it.  Under it `InvSistema` is
inductive: who may have entries in the TLB (`ConTlb`, the process that executes or the one that
was, while an interrupt is served), where they lead (`TlbDelProceso`), and that the
address of an access is in the frame of its request (`DireccionDelPedido`).  A hit in the TLB and a walk of the tables are then both
steps of `Memoria`, so the system uses the memory module as `Memoria` allows (`SistemaUsaMemoria`), its theorems hold
here (`MemoriaEnElSistema`), and `TlbSiempreCoherente` and `AccesosEnSuMarco` follow; the last
also supposes that offsets leave room for the four bytes of an access.

**Protocolo_proofs.** Whatever follows on the socket, the pcb that is read is the one that was
sent (`PcbLeido`), and so is each instruction (`InstruccionLeida`, for those the parser makes).
What the messages with a pcb give (`BloqueoLeido` and its like) and what joins the words of
many instructions (`AplanarAgregar`, `PrimeraDeTres`) are lemmas for the next module.  The loop of
`FlattenSeq` is reasoned about by the least index at which two of them would differ, in place of
an induction.

**Ejecucion_proofs.** `IndInv` is the conjunction of

- `Tipos`;
- `Recepcion`: what a console has sent is what its handler has read and then what is on
  the socket, whole instructions at every moment;
- `Procesos`, `Relaciones`: each process has one console and each console one process,
  pids are given in order, what is in the list of relations is true, and a handler that
  has not written its relation has a process to write there;
- `PcbsDelKernel`: a pcb in the lists of the kernel has the program and the size of its
  console, its pc counts what was executed, and its burst is the estimation less that;
- `Lugares`: the pcb of the process in execution is in exactly one of four places (the dispatch
  message, the cpu, a message back to be blocked, a message back because of an interrupt), or
  its end has been sent;
- `Rafagas`: what the cpu has counted of a burst is all of it, unless another process was executed in
  between (`Medido`).

From it: `TiposEjecucion`, `FetchSiempreEnRango`, `RafagaSiempreDescontada`, `RafagaBienInformada`,
`PcbSiempreConservado`, and `ProgramaImplementado`, the refinement of `Programa`: a console is executed its
own file, in order and to its EXIT, and is told afterwards, if it is told: an EXIT that finds no relation
is a step of `Programa` in which nothing happens.  `ArchivosAssumption` supposes files whose only EXIT is
their last line: with a line after it or without it, the parser does not end or writes past an
array (section 6), and every file of `src/consola/Pruebas` is so.  `TamaniosAssumption` and
`NadieAssumption` say that sizes are integers and that the absence of a process is not one.
The invariant speaks of sequences of any length, so TLC checks the properties and not
`IndInv`.

## 6. Not modelled

- Sockets, configuration files and logging are I/O.  Words are whole: that a recv without
  MSG_WAITALL may bring less than an instruction is a hazard listed and not checked.
- The parser's reading of characters: a line is its word and its numbers, so the
  overrun of `palabraLeida` on a file that goes on after EXIT is listed and not checked.
- Doubles are integers: the estimates of `Ejecucion` and the addresses of `Mmu`.
- Lists are atomic: what two unlocked calls do to the nodes of one list is
  undefined, and only steps between calls are interleaved.
- The start of the kernel: its threads may wait on semaphores that are initialised
  afterwards (`kernel.c:43`), which is undefined; no model would say more.
- Bytes of a page: a page holds one value.  That accesses stay within a page is
  checked for addresses that are multiples of four, as in the programs of
  `src/consola/Pruebas`.
- Two properties are stated in `Planificador` and in no run, because they are false
  and nothing in the repository claims them: `SuspendeSuBloqueo`, an old timer may
  suspend a later block (`planificador.c:453`), and `ConsolaRegistrada`, a process may
  end before its console is registered (`instrucciones_handler.c:56`).

## 7. Plan

Modules and runs are written, and what they check is proved, liveness apart.  What is left:

1. `Ejecucion` against `Planificador`: that the order in which the planners dispatch is one
   the kernel of `Ejecucion` allows, as a refinement and not only by the shape of the two.
2. `Traduccion` without `Holgura`: which accesses are still right when pages are replaced
   (those that miss the TLB, and those after it has been emptied).
3. Bounds on what the code does not check: how long `esperan_es` and the list of suspension
   threads can grow with the blocks of a process.

----------------------------- MODULE Ejecucion -----------------------------
(***************************************************************************)
(* A program from the file of its console to its last instruction: the     *)
(* console that sends it (consola/), the handler that receives it          *)
(* (kernel/instrucciones_handler.c), the kernel that keeps its pcb, and    *)
(* the instruction cycle and the burst counters of the CPU (cpu/cpu.c).    *)
(*                                                                         *)
(* Of the kernel's planners (kernel/planificador.c, SRT) only what they do *)
(* to a pcb is here: any process in ready may be dispatched, an interrupt  *)
(* may be sent at any time, and a request to the memory module is its      *)
(* answer.  Module Planificador has the queues and the threads, module     *)
(* Traduccion the accesses to memory.                                      *)
(*                                                                         *)
(* Time passes while the CPU executes an instruction that is not I_O or    *)
(* EXIT.  The doubles are integers; alfa is in tenths.                     *)
(*                                                                         *)
(* A definition with the comment "Variant" is a plausible bug in the       *)
(* definition that follows it.                                             *)
(***************************************************************************)
EXTENDS Protocolo, FiniteSets

CONSTANTS
  Consolas,
  Archivos,                \* the files a console may be given
  Tamanios,                \* and the sizes
  Duraciones,              \* of an instruction
  ESTIMACION_INICIAL, ALFA,
  Nadie                    \* no process

ASSUME ConsolasAssumption == IsFiniteSet(Consolas)
ASSUME ArchivosAssumption == \A a \in Archivos : EsArchivo(a)
ASSUME TamaniosAssumption == Tamanios \subseteq Int
ASSUME NadieAssumption == Nadie \notin Int
ASSUME DuracionesAssumption == Duraciones \subseteq Nat \ {0}
ASSUME EstimacionAssumption == ESTIMACION_INICIAL \in Int /\ ALFA \in 0 .. 10

VARIABLES
  archivo, tam_pedido,     \* the arguments of each console
  enviado,                 \* what it sends next: the size, a line, the end
  avisada,                 \* finalizo_exitosamente
  socket,                  \* words from each console to its handler
  handler,                 \* the handler of each console
  pid_contador,
  relaciones,              \* lista_relacion_consola_proceso
  sin_registrar,           \* consoles whose process is in new and not in that list
  sem_sincro_ready,        \* the posts of crear_proceso nobody has taken
  caido,                   \* a NULL was dereferenced: the kernel has ended
  estado, pcb,             \* of each process; the pcb while the kernel has it
  tablas_creadas,          \* answers of the memory module
  running,
  dispatch_cpu,            \* words to the CPU
  dispatch_kernel,         \* words from it
  hay_interrupciones,
  en_cpu,                  \* the pcb the CPU executes
  pid_en_ejecucion, atendiendo_interrupcion,
  transcurrido,            \* since tiempo_inicio
  contador_rafaga,
  ejecutadas,              \* history: instructions of each process
  consumido,               \* history: its time in the CPU since it last blocked
  desplazado               \* history: has another executed in the middle of it?

consola == <<archivo, tam_pedido, enviado, avisada>>
recepcion == <<socket, handler>>
registro == <<sin_registrar, sem_sincro_ready, caido>>
kernel == <<pid_contador, relaciones, estado, pcb, tablas_creadas, running, registro>>
canales == <<dispatch_cpu, dispatch_kernel>>
cpu == <<hay_interrupciones, en_cpu, pid_en_ejecucion, atendiendo_interrupcion,
         transcurrido, contador_rafaga>>
historia == <<ejecutadas, consumido, desplazado>>
vars == <<consola, recepcion, kernel, canales, cpu, historia>>

Pids == 1 .. Cardinality(Consolas)
SinPcb == [id |-> Nadie]

Init ==
  /\ archivo \in [Consolas -> Archivos]
  /\ tam_pedido \in [Consolas -> Tamanios]
  /\ enviado = [c \in Consolas |-> 0]
  /\ avisada = [c \in Consolas |-> FALSE]
  /\ socket = [c \in Consolas |-> <<>>]
  /\ handler = [c \in Consolas |-> [paso |-> "tam", tam_proceso |-> 0,
                                    instrucciones |-> <<>>, pid_creado |-> Nadie]]
  /\ pid_contador = 0
  /\ relaciones = <<>>
  /\ sin_registrar = {}
  /\ sem_sincro_ready = 0
  /\ caido = FALSE
  /\ estado = [p \in Pids |-> "inexistente"]
  /\ pcb = [p \in Pids |-> SinPcb]
  /\ tablas_creadas = 0
  /\ running = Nadie
  /\ dispatch_cpu = <<>>
  /\ dispatch_kernel = <<>>
  /\ hay_interrupciones = FALSE
  /\ en_cpu = SinPcb
  /\ pid_en_ejecucion = Nadie
  /\ atendiendo_interrupcion = FALSE
  /\ transcurrido = 0
  /\ contador_rafaga = 0
  /\ ejecutadas = [p \in Pids |-> <<>>]
  /\ consumido = [p \in Pids |-> 0]
  /\ desplazado = [p \in Pids |-> FALSE]

-----------------------------------------------------------------------------
(* The console: its size, its file line by line, and -1.                   *)
Enviar(c, palabras) ==
  /\ socket' = [socket EXCEPT ![c] = @ \o palabras]
  /\ enviado' = [enviado EXCEPT ![c] = @ + 1]
  /\ UNCHANGED <<archivo, tam_pedido, avisada, handler, kernel, canales, cpu, historia>>

EnviarTamProceso(c) == enviado[c] = 0 /\ Enviar(c, <<tam_pedido[c]>>)
EnviarLineaDe(c) ==
  enviado[c] \in DOMAIN archivo[c] /\ Enviar(c, EnviarLinea(archivo[c][enviado[c]]))
EnviarFin(c) == enviado[c] = Len(archivo[c]) + 1 /\ Enviar(c, <<FIN>>)

Consola(c) == EnviarTamProceso(c) \/ EnviarLineaDe(c) \/ EnviarFin(c)

-----------------------------------------------------------------------------
(* atender_instrucciones_cliente.                                          *)
RecibirTam(c) ==
  /\ handler[c].paso = "tam"
  /\ socket[c] # <<>>
  /\ handler' = [handler EXCEPT ![c].paso = "instrucciones",
                                ![c].tam_proceso = Head(socket[c])]
  /\ socket' = [socket EXCEPT ![c] = Tail(@)]
  /\ UNCHANGED <<consola, kernel, canales, cpu, historia>>

\* Variant.
HastaExit(palabras) == Head(palabras) \in {FIN, EXIT}
EsFin(palabras) == Head(palabras) = FIN

RecibirInstruccion(c) ==
  /\ handler[c].paso = "instrucciones"
  /\ socket[c] # <<>>
  /\ ~EsFin(socket[c])
  /\ LET n == PalabrasDe(Head(socket[c])) IN
       /\ Len(socket[c]) >= n
       /\ handler' = [handler EXCEPT ![c].instrucciones =
                        Append(@, LeerInstruccion(SubSeq(socket[c], 1, n)))]
       /\ socket' = [socket EXCEPT ![c] = Desde(@, n + 1)]
  /\ UNCHANGED <<consola, kernel, canales, cpu, historia>>

PidNuevo == pid_contador + 1

PcbNuevo(p, c) ==
  [id |-> p, tam_proceso |-> handler[c].tam_proceso, pc |-> 0,
   rafaga |-> ESTIMACION_INICIAL, estimacion_anterior |-> ESTIMACION_INICIAL,
   tabla_paginas |-> 0, instrucciones |-> handler[c].instrucciones]

(* crear_proceso puts the pcb in new; it writes the relation afterwards,   *)
(* and posts sem_sincro_ready, which is not only for this process.         *)
CrearProceso(c) ==
  /\ handler[c].paso = "instrucciones"
  /\ socket[c] # <<>>
  /\ EsFin(socket[c])
  /\ pid_contador' = pid_contador + 1
  /\ estado' = [estado EXCEPT ![PidNuevo] = "new"]
  /\ pcb' = [pcb EXCEPT ![PidNuevo] = PcbNuevo(PidNuevo, c)]
  /\ sin_registrar' = sin_registrar \union {c}
  /\ handler' = [handler EXCEPT ![c].paso = "terminado", ![c].pid_creado = PidNuevo]
  /\ socket' = [socket EXCEPT ![c] = Tail(@)]
  /\ UNCHANGED <<consola, relaciones, tablas_creadas, running, sem_sincro_ready, caido,
                 canales, cpu, historia>>

Registrar(c) ==
  /\ c \in sin_registrar
  /\ sin_registrar' = sin_registrar \ {c}
  /\ relaciones' =
       Append(relaciones, [pid |-> handler[c].pid_creado, conexion_consola |-> c])
  /\ sem_sincro_ready' = sem_sincro_ready + 1
  /\ UNCHANGED <<consola, recepcion, pid_contador, estado, pcb, tablas_creadas, running,
                 caido, canales, cpu, historia>>

Handler(c) ==
  ~caido /\ (RecibirTam(c) \/ RecibirInstruccion(c) \/ CrearProceso(c) \/ Registrar(c))

-----------------------------------------------------------------------------
(* The kernel and a pcb.                                                   *)

(* planificador_largo_plazo_ready: the number of the table memory answers. *)
Admitir(p) ==
  /\ sem_sincro_ready > 0
  /\ sem_sincro_ready' = sem_sincro_ready - 1
  /\ estado[p] = "new"
  /\ estado' = [estado EXCEPT ![p] = "ready"]
  /\ pcb' = [pcb EXCEPT ![p].tabla_paginas = tablas_creadas]
  /\ tablas_creadas' = tablas_creadas + 1
  /\ UNCHANGED <<consola, recepcion, pid_contador, relaciones, running, sin_registrar,
                 caido, canales, cpu, historia>>

(* hilo_de_corto_plazo_pasar_running.                                      *)
Despachar(p) ==
  /\ running = Nadie
  /\ estado[p] = "ready"
  /\ estado' = [estado EXCEPT ![p] = "running"]
  /\ running' = p
  /\ dispatch_cpu' = dispatch_cpu \o MensajeEjecutar(pcb[p])
  /\ UNCHANGED <<consola, recepcion, pid_contador, relaciones, pcb, tablas_creadas,
                 registro, dispatch_kernel, cpu, historia>>

\* Variant.
SinLiberarCpu == UNCHANGED running
LiberarCpu == running' = Nadie

(* calcular_estimacion_rafaga.                                             *)
Estimacion(real, anterior) == (ALFA * real + (10 - ALFA) * anterior) \div 10

RecibeDeCpu(mensaje) == dispatch_kernel # <<>> /\ Head(dispatch_kernel) = mensaje

(* PASAR_A_BLOQUEADO: the message has the time and the real burst.         *)
RecibirBloqueo ==
  /\ RecibeDeCpu(PASAR_A_BLOQUEADO)
  /\ LET recibido == LeerPcb(Desde(dispatch_kernel, 4))
         e == Estimacion(dispatch_kernel[3], recibido.estimacion_anterior)
     IN  /\ pcb' = [pcb EXCEPT ![recibido.id] =
                      [recibido EXCEPT !.rafaga = e, !.estimacion_anterior = e]]
         /\ estado' = [estado EXCEPT ![recibido.id] = "bloqueado"]
         /\ consumido' = [consumido EXCEPT ![recibido.id] = 0]
         /\ desplazado' = [desplazado EXCEPT ![recibido.id] = FALSE]
  /\ dispatch_kernel' = TrasPcb(dispatch_kernel, 3)
  /\ LiberarCpu
  /\ UNCHANGED <<consola, recepcion, pid_contador, relaciones, tablas_creadas,
                 registro, dispatch_cpu, cpu, ejecutadas>>

(* PASAR_A_READY: the message has the time of this stretch.                *)
RecibirInterrumpido ==
  /\ RecibeDeCpu(PASAR_A_READY)
  /\ LET recibido == LeerPcb(Desde(dispatch_kernel, 3))
     IN  /\ pcb' = [pcb EXCEPT ![recibido.id] =
                      [recibido EXCEPT !.rafaga = @ - dispatch_kernel[2]]]
         /\ estado' = [estado EXCEPT ![recibido.id] = "ready"]
  /\ dispatch_kernel' = TrasPcb(dispatch_kernel, 2)
  /\ LiberarCpu
  /\ UNCHANGED <<consola, recepcion, pid_contador, relaciones, tablas_creadas,
                 registro, dispatch_cpu, cpu, historia>>

(* The console of the process in running is told, if its relation has been *)
(* written; otherwise list_remove_by_condition answers NULL.               *)
AvisarConsola ==
  \/ /\ \E k \in DOMAIN relaciones :
          /\ relaciones[k].pid = running
          /\ \A j \in 1 .. k - 1 : relaciones[j].pid # running
          /\ avisada' = [avisada EXCEPT ![relaciones[k].conexion_consola] = TRUE]
          /\ relaciones' = RemoveAt(relaciones, k)
     /\ UNCHANGED caido
  \/ /\ \A k \in DOMAIN relaciones : relaciones[k].pid # running
     /\ caido' = TRUE
     /\ UNCHANGED <<avisada, relaciones>>

(* PASAR_A_EXIT brings no pcb: exit_largo_plazo takes the one in running.  *)
RecibirExit ==
  /\ RecibeDeCpu(PASAR_A_EXIT)
  /\ AvisarConsola
  /\ estado' = [estado EXCEPT ![running] = "exit"]
  /\ pcb' = [pcb EXCEPT ![running] = SinPcb]
  /\ dispatch_kernel' = Tail(dispatch_kernel)
  /\ LiberarCpu
  /\ UNCHANGED <<archivo, tam_pedido, enviado, recepcion, pid_contador, tablas_creadas,
                 sin_registrar, sem_sincro_ready, dispatch_cpu, cpu, historia>>

(* hilo_bloqueo_proceso, when the I/O ends and its process is found, in    *)
(* bloqueado or in bloqueado_suspendido, from where mediano plazo brings it*)
(* to ready.  It may not be found: with the post of another suspension the *)
(* thread looks too early, and ends.  So nothing makes this step happen.   *)
Desbloquear(p) ==
  /\ estado[p] = "bloqueado"
  /\ estado' = [estado EXCEPT ![p] = "ready"]
  /\ UNCHANGED <<consola, recepcion, pid_contador, relaciones, pcb, tablas_creadas,
                 running, registro, canales, cpu, historia>>

Planificar ==
  /\ ~caido
  /\ \/ \E p \in Pids : Admitir(p) \/ Despachar(p)
     \/ RecibirBloqueo \/ RecibirInterrumpido \/ RecibirExit
Kernel == Planificar \/ (~caido /\ \E p \in Pids : Desbloquear(p))

(* The kernel asks for an eviction, and interrupcion_handler takes note.   *)
Interrumpir ==
  /\ ~caido
  /\ running # Nadie
  /\ ~hay_interrupciones
  /\ hay_interrupciones' = TRUE
  /\ UNCHANGED <<consola, recepcion, kernel, canales, en_cpu, pid_en_ejecucion,
                 atendiendo_interrupcion, transcurrido, contador_rafaga, historia>>

-----------------------------------------------------------------------------
(* The CPU.                                                                *)

\* Variant.
SinReiniciar(p) == UNCHANGED contador_rafaga
(* The counter goes on only if the process is the one that was interrupted.*)
ReiniciarContador(p) ==
  contador_rafaga' = IF atendiendo_interrupcion /\ p = pid_en_ejecucion
                       THEN contador_rafaga ELSE 0

(* EJECUTAR, in main.                                                      *)
Recibir ==
  /\ en_cpu = SinPcb
  /\ dispatch_cpu # <<>>
  /\ Head(dispatch_cpu) = EJECUTAR
  /\ LET p == LeerPcb(Tail(dispatch_cpu)) IN
       /\ en_cpu' = p
       /\ ReiniciarContador(p.id)
       /\ pid_en_ejecucion' = p.id
       /\ desplazado' = [q \in Pids |-> desplazado[q] \/ (q # p.id /\ consumido[q] > 0)]
  /\ hay_interrupciones' = FALSE
  /\ atendiendo_interrupcion' = FALSE
  /\ transcurrido' = 0
  /\ dispatch_cpu' = TrasPcb(dispatch_cpu, 1)
  /\ UNCHANGED <<consola, recepcion, kernel, dispatch_kernel, ejecutadas, consumido>>

(* ciclo and fetch.  Past the last instruction list_get answers NULL, which*)
(* decode dereferences: the CPU has no step then.                          *)
EnCiclo == en_cpu # SinPcb /\ en_cpu.pc < Len(en_cpu.instrucciones)
Actual == en_cpu.instrucciones[en_cpu.pc + 1]
Avanzado == [en_cpu EXCEPT !.pc = @ + 1]

Anotar == ejecutadas' = [ejecutadas EXCEPT ![en_cpu.id] = Append(@, Actual)]

(* The pcb leaves the CPU; setear_contador_rafaga comes before.            *)
Entregar(mensaje) ==
  /\ dispatch_kernel' = dispatch_kernel \o mensaje
  /\ en_cpu' = SinPcb
  /\ transcurrido' = 0
  /\ UNCHANGED <<consola, recepcion, kernel, dispatch_cpu, hay_interrupciones,
                 pid_en_ejecucion>>

\* Variant.
TramoAcumulado(total) == contador_rafaga + total
Tramo(total) == total

(* NO_OP, READ, WRITE and COPY.  The interruption is attended after the    *)
(* instruction, and never before the first one.                            *)
EjecutarInstruccion(d) ==
  LET total == transcurrido + d
  IN  /\ EnCiclo
      /\ Actual.tipo \notin {I_O, EXIT}
      /\ Anotar
      /\ consumido' = [consumido EXCEPT ![en_cpu.id] = @ + d]
      /\ \/ /\ ~hay_interrupciones
            /\ en_cpu' = Avanzado
            /\ transcurrido' = total
            /\ UNCHANGED <<consola, recepcion, kernel, canales, hay_interrupciones,
                           pid_en_ejecucion, atendiendo_interrupcion, contador_rafaga,
                           desplazado>>
         \/ /\ hay_interrupciones
            /\ Entregar(MensajeInterrupcion(Avanzado, Tramo(total)))
            /\ contador_rafaga' = contador_rafaga + total
            /\ atendiendo_interrupcion' = TRUE
            /\ UNCHANGED desplazado

(* The instruction stops the cycle, so that no interruption is attended.   *)
EjecutarIO ==
  /\ EnCiclo
  /\ Actual.tipo = I_O
  /\ Anotar
  /\ contador_rafaga' = contador_rafaga + transcurrido
  /\ Entregar(MensajeBloqueo(Avanzado, Actual.params[1], contador_rafaga'))
  /\ UNCHANGED <<atendiendo_interrupcion, consumido, desplazado>>

EjecutarExit ==
  /\ EnCiclo
  /\ Actual.tipo = EXIT
  /\ Anotar
  /\ Entregar(MensajeExit)
  /\ UNCHANGED <<atendiendo_interrupcion, contador_rafaga, consumido, desplazado>>

Cpu ==
  \/ Recibir
  \/ \E d \in Duraciones : EjecutarInstruccion(d)
  \/ EjecutarIO \/ EjecutarExit

-----------------------------------------------------------------------------
(* Every console has closed and the kernel waits for more, or a process was*)
Terminado ==
  /\ caido \/ \A c \in Consolas : avisada[c]
  /\ UNCHANGED vars

Next ==
  \/ \E c \in Consolas : Consola(c) \/ Handler(c)
  \/ Kernel \/ Interrumpir \/ Cpu
  \/ Terminado

Spec == Init /\ [][Next]_vars

(* Every thread and every module that can take a step ends up taking one.  *)
(* Nothing is asked of interrupts, nor of the end of a suspension.         *)
SpecJusta ==
  /\ Spec
  /\ \A c \in Consolas : WF_vars(Consola(c)) /\ WF_vars(Handler(c))
  /\ WF_vars(Planificar)
  /\ WF_vars(Cpu)
-----------------------------------------------------------------------------
EsPcb(x) ==
  /\ x.id \in Pids /\ x.tam_proceso \in Tamanios
  /\ x.pc \in 0 .. Len(x.instrucciones)
  /\ x.rafaga \in Int /\ x.estimacion_anterior \in Int
  /\ x.tabla_paginas \in 0 .. Cardinality(Consolas) - 1

TypeOK ==
  /\ \A c \in Consolas : enviado[c] \in 0 .. Len(archivo[c]) + 2
  /\ avisada \in [Consolas -> BOOLEAN]
  /\ pid_contador \in 0 .. Cardinality(Consolas)
  /\ sin_registrar \subseteq Consolas /\ sem_sincro_ready \in Nat /\ caido \in BOOLEAN
  /\ running \in Pids \union {Nadie}
  /\ estado \in [Pids -> {"inexistente", "new", "ready", "running", "bloqueado", "exit"}]
  /\ \A p \in Pids : pcb[p] = SinPcb \/ EsPcb(pcb[p])
  /\ \A p \in Pids : (pcb[p] = SinPcb) = (estado[p] \in {"inexistente", "exit"})
  /\ en_cpu = SinPcb \/ EsPcb(en_cpu)
  /\ hay_interrupciones \in BOOLEAN /\ atendiendo_interrupcion \in BOOLEAN
  /\ transcurrido \in Nat /\ contador_rafaga \in Nat

(* The process of a console, and the pcb of a process wherever it is: in   *)
(* the kernel, in a message or in the CPU.                                 *)
ConsolaDe(p) == CHOOSE c \in Consolas : handler[c].pid_creado = p
EnKernel == {"new", "ready", "bloqueado"}
EnMensaje == IF dispatch_cpu # <<>> THEN LeerPcb(Tail(dispatch_cpu))
             ELSE IF RecibeDeCpu(PASAR_A_BLOQUEADO) THEN LeerPcb(Desde(dispatch_kernel, 4))
             ELSE IF RecibeDeCpu(PASAR_A_READY) THEN LeerPcb(Desde(dispatch_kernel, 3))
             ELSE SinPcb
PcbDe(p) ==
  IF estado[p] \in EnKernel THEN pcb[p] ELSE IF en_cpu # SinPcb THEN en_cpu ELSE EnMensaje

(* A pcb comes and goes between the kernel and the CPU without being mixed *)
(* up: it stays that of its process, with the size and the program of its  *)
(* console and the position it has executed up to.                         *)
PcbConservado ==
  \A p \in Pids :
    (estado[p] \in EnKernel \/ (estado[p] = "running" /\ ~RecibeDeCpu(PASAR_A_EXIT))) =>
      LET x == PcbDe(p)
          c == ConsolaDe(p)
      IN  /\ x.id = p
          /\ x.tam_proceso = tam_pedido[c]
          /\ x.instrucciones = handler[c].instrucciones
          /\ x.tabla_paginas = pcb[p].tabla_paginas
          /\ ejecutadas[p] = SubSeq(x.instrucciones, 1, x.pc)

(* No fetch goes past the last instruction, although the guard of ciclo    *)
(* would let it: the EXIT of the file arrives, and stops the cycle.        *)
FetchEnRango == en_cpu # SinPcb => en_cpu.pc < Len(en_cpu.instrucciones)

(* What ready is sorted by: the estimate of a process is lowered by all it *)
(* has executed since it last blocked, however many times it was preempted.*)
RafagaDescontada ==
  \A p \in Pids :
    estado[p] \in EnKernel => pcb[p].rafaga = pcb[p].estimacion_anterior - consumido[p]

(* The real burst a process blocks with is the one it executed, if no other*)
(* process executed in the middle of it; otherwise it may be less, because *)
(* the counter is lost, but never more.                                    *)
RafagaInformada ==
  RecibeDeCpu(PASAR_A_BLOQUEADO) =>
    LET p == LeerPcb(Desde(dispatch_kernel, 4)).id
    IN  /\ dispatch_kernel[3] <= consumido[p]
        /\ ~desplazado[p] => dispatch_kernel[3] = consumido[p]

(* What a line of a file asks for, and the file of each console; and what  *)
(* has been executed of it.                                                *)
Pedidas(linea) ==
  LET n == linea.numeros
      veces == IF linea.palabra = "NO_OP" /\ n[1] > 1 THEN n[1] ELSE 1
  IN  [j \in 1 .. veces |->
         Instruccion(TipoDe(linea.palabra),
                     IF linea.palabra # "NO_OP" /\ Len(n) >= 1 THEN n[1] ELSE 0,
                     IF Len(n) = 2 THEN n[2] ELSE 0)]
Escritas ==
  [c \in Consolas |-> FlattenSeq([k \in DOMAIN archivo[c] |-> Pedidas(archivo[c][k])])]
EjecutadasPor ==
  [c \in Consolas |->
     IF handler[c].pid_creado = Nadie THEN <<>> ELSE ejecutadas[handler[c].pid_creado]]

(* Every console executes its file, and only then is told.                 *)
Programa == INSTANCE Programa WITH instrucciones <- Escritas, ejecutadas <- EjecutadasPor
ImplementaPrograma == Programa!Spec

(* No process is left suspended for ever, and the kernel does not end.     *)
Vuelven == \A p \in Pids : []<>(estado[p] # "bloqueado")
Sigue == []~caido

(* Every console is told in the end that its process finished, if every    *)
(* suspension ends and no process exits before its relation is written:    *)
(* the code promises neither (BloqueadoTieneHilo and ConsolaRegistrada, in *)
(* module Planificador, are about the two).                                *)
TodaConsolaAvisada == (Sigue /\ Vuelven) => \A c \in Consolas : <>avisada[c]
=============================================================================

-------------------------- MODULE ConexionMemoria --------------------------
(***************************************************************************)
(* conexion_memoria, the one socket between the kernel and the memory      *)
(* module: hilo_pasar_ready, cpu_dispatch_handler and the suspension thread*)
(* of each blocked process (kernel/planificador.c) send their requests over*)
(* it, one word per send, and wait for the answer, without a lock;         *)
(* conexion_kernel_handler (memoria/memoria.c) reads requests of three     *)
(* words and answers each with one.                                        *)
(*                                                                         *)
(* A process is admitted, then blocks and is suspended or ends.  An answer *)
(* is one unit here, although a bool is shorter than an int.               *)
(***************************************************************************)
EXTENDS Integers, Sequences

CONSTANTS
  Procesos,                \* pids, admitted in their order
  TAM                      \* of a process

VARIABLES
  estado,                  \* of each process, in the kernel
  tabla_paginas,           \* in the pcb of each process
  hilo,                    \* the request of each thread, and its next step
  a_memoria, a_kernel,     \* words on the socket
  tablas,                  \* tables of first level, in the memory module
  caida                    \* has the memory module dereferenced a NULL?

vars == <<estado, tabla_paginas, hilo, a_memoria, a_kernel, tablas, caida>>

INICIALIZAR_ESTRUCTURAS == 0
SUSPENDER == 1
DESTRUIR_ESTRUCTURAS == 2

LargoPlazo == 0                          \* hilo_pasar_ready
Dispatch == -1                           \* cpu_dispatch_handler
Hilos == {LargoPlazo, Dispatch} \union Procesos    \* and a suspension thread each

Inactivo == [paso |-> 0, palabras |-> <<>>, pid |-> 0]
EsperaRespuesta == 4

Init ==
  /\ estado = [p \in Procesos |-> "new"]
  /\ tabla_paginas = [p \in Procesos |-> 0]
  /\ hilo = [h \in Hilos |-> Inactivo]
  /\ a_memoria = <<>> /\ a_kernel = <<>>
  /\ tablas = <<>>
  /\ caida = FALSE

-----------------------------------------------------------------------------
(* The kernel.                                                             *)
Pedir(h, p, accion, dato, estado_nuevo) ==
  /\ hilo[h] = Inactivo
  /\ hilo' = [hilo EXCEPT ![h] =
                [paso |-> 1, palabras |-> <<accion, p, dato>>, pid |-> p]]
  /\ estado' = [estado EXCEPT ![p] = estado_nuevo]
  /\ UNCHANGED <<tabla_paginas, a_memoria, a_kernel, tablas, caida>>

(* planificador_largo_plazo_ready, for the first of new.                   *)
PedirTabla(p) ==
  /\ estado[p] = "new"
  /\ \A q \in Procesos : q < p => estado[q] # "new"
  /\ Pedir(LargoPlazo, p, INICIALIZAR_ESTRUCTURAS, TAM, "admitiendo")

(* mediano_plazo_bloqueado_suspendido.                                     *)
PedirSuspension(p) ==
  estado[p] = "admitido" /\ Pedir(p, p, SUSPENDER, tabla_paginas[p], "suspendiendo")

(* exit_largo_plazo.                                                       *)
PedirDestruccion(p) ==
  estado[p] = "admitido"
    /\ Pedir(Dispatch, p, DESTRUIR_ESTRUCTURAS, tabla_paginas[p], "terminando")

EnviarPalabra(h) ==
  /\ hilo[h].paso \in 1 .. 3
  /\ a_memoria' = Append(a_memoria, hilo[h].palabras[hilo[h].paso])
  /\ hilo' = [hilo EXCEPT ![h].paso = @ + 1]
  /\ UNCHANGED <<estado, tabla_paginas, a_kernel, tablas, caida>>

Siguiente == [admitiendo |-> "admitido", suspendiendo |-> "suspendido",
              terminando |-> "exit"]

(* The recv: whatever answer comes is taken for this thread's.             *)
RecibirRespuesta(h) ==
  /\ hilo[h].paso = EsperaRespuesta
  /\ a_kernel # <<>>
  /\ LET p == hilo[h].pid IN
       /\ estado' = [estado EXCEPT ![p] = Siguiente[@]]
       /\ tabla_paginas' = IF h = LargoPlazo
                             THEN [tabla_paginas EXCEPT ![p] = Head(a_kernel)]
                             ELSE tabla_paginas
  /\ a_kernel' = Tail(a_kernel)
  /\ hilo' = [hilo EXCEPT ![h] = Inactivo]
  /\ UNCHANGED <<a_memoria, tablas, caida>>

-----------------------------------------------------------------------------
(* conexion_kernel_handler.                                                *)
Accion == Head(a_memoria)
Dato == a_memoria[3]
HayPedido == ~caida /\ Len(a_memoria) >= 3

Responder(respuesta) ==
  /\ a_kernel' = Append(a_kernel, respuesta)
  /\ a_memoria' = SubSeq(a_memoria, 4, Len(a_memoria))
  /\ UNCHANGED <<estado, tabla_paginas, hilo, caida>>

InicializarEstructuras ==
  /\ HayPedido
  /\ Accion = INICIALIZAR_ESTRUCTURAS
  /\ tablas' = Append(tablas, "viva")
  /\ Responder(Len(tablas))

(* A number that is no table: list_get answers NULL.                       *)
SinTabla ==
  /\ HayPedido
  /\ Accion \in {SUSPENDER, DESTRUIR_ESTRUCTURAS}
  /\ Dato + 1 \notin DOMAIN tablas
  /\ caida' = TRUE
  /\ UNCHANGED <<estado, tabla_paginas, hilo, a_memoria, a_kernel, tablas>>

(* Both answer true.                                                       *)
Atender(accion, queda) ==
  /\ HayPedido
  /\ Accion = accion
  /\ Dato + 1 \in DOMAIN tablas
  /\ tablas' = [tablas EXCEPT ![Dato + 1] = queda]
  /\ Responder(1)

(* The default of the switch.                                              *)
Desconocida ==
  /\ ~caida
  /\ a_memoria # <<>>
  /\ Accion \notin {INICIALIZAR_ESTRUCTURAS, SUSPENDER, DESTRUIR_ESTRUCTURAS}
  /\ a_memoria' = Tail(a_memoria)
  /\ UNCHANGED <<estado, tabla_paginas, hilo, a_kernel, tablas, caida>>

Memoria ==
  \/ InicializarEstructuras \/ SinTabla \/ Desconocida
  \/ Atender(SUSPENDER, "suspendida") \/ Atender(DESTRUIR_ESTRUCTURAS, "destruida")

Kernel ==
  \/ \E p \in Procesos : PedirTabla(p) \/ PedirSuspension(p) \/ PedirDestruccion(p)
  \/ \E h \in Hilos : EnviarPalabra(h) \/ RecibirRespuesta(h)

Next == Kernel \/ Memoria

Spec == Init /\ [][Next]_vars
-----------------------------------------------------------------------------
(* What the kernel waits for is the confirmation of its own request: when  *)
(* it counts a process as suspended, the memory module has suspended it.   *)
SuspensionConfirmada ==
  \A p \in Procesos : estado[p] = "suspendido" =>
    /\ tabla_paginas[p] + 1 \in DOMAIN tablas
    /\ tablas[tabla_paginas[p] + 1] = "suspendida"
=============================================================================

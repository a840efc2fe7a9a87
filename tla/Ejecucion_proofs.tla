-------------------------- MODULE Ejecucion_proofs --------------------------
(***************************************************************************)
(* Proofs about module Ejecucion, for any number of consoles and any files *)
(* the parser reads to the end: what a process executes is its file, in    *)
(* order and to the EXIT; its pcb is at every moment in one place and is   *)
(* its own; and its bursts are what it has executed.                       *)
(***************************************************************************)
EXTENDS Ejecucion, Protocolo_proofs, FiniteSetTheorems

(* How much of its file a console has sent, and what is left of that on    *)
(* the socket is an end of it.                                             *)
LineasEnviadas(c) ==
  IF enviado[c] = 0 THEN 0
  ELSE IF enviado[c] > Len(archivo[c]) THEN Len(archivo[c]) ELSE enviado[c] - 1
Hechas(c) == Hasta(archivo[c], LineasEnviadas(c))
Cola(c) == IF enviado[c] = Len(archivo[c]) + 2 THEN <<FIN>> ELSE <<>>

(* What a console handler holds.                                           *)
Handlers ==
  [paso : {"tam", "instrucciones", "terminado"}, tam_proceso : Int,
   instrucciones : Seq(Instrucciones), pid_creado : Pids \union {Nadie}]

(* The types of the state, the pcbs and the words on sockets aside.        *)
Tipos ==
  /\ archivo \in [Consolas -> Archivos]
  /\ tam_pedido \in [Consolas -> Tamanios]
  /\ enviado \in [Consolas -> Nat]
  /\ \A c \in Consolas : enviado[c] <= Len(archivo[c]) + 2
  /\ avisada \in [Consolas -> BOOLEAN]
  /\ DOMAIN socket = Consolas
  /\ handler \in [Consolas -> Handlers]
  /\ estado \in [Pids -> {"inexistente", "new", "ready", "running", "bloqueado", "exit"}]
  /\ DOMAIN pcb = Pids
  /\ running \in Pids \union {Nadie}
  /\ hay_interrupciones \in BOOLEAN /\ atendiendo_interrupcion \in BOOLEAN
  /\ pid_en_ejecucion \in Pids \union {Nadie}
  /\ transcurrido \in Nat /\ contador_rafaga \in Nat
  /\ DOMAIN ejecutadas = Pids
  /\ consumido \in [Pids -> Nat]
  /\ desplazado \in [Pids -> BOOLEAN]

(* What the handler has read and what is on the socket is what the console *)
(* has sent: nothing at first, then the size, then the instructions, of    *)
(* which pend are still on the socket, until all of them have been read.   *)
SinEmpezar(c) ==
  /\ enviado[c] = 0 /\ handler[c].paso = "tam"
  /\ socket[c] = <<>> /\ handler[c].instrucciones = <<>>
ConTamanio(c) ==
  /\ enviado[c] # 0 /\ handler[c].paso = "tam"
  /\ socket[c] = <<tam_pedido[c]>> \o (Enviadas(Hechas(c)) \o Cola(c))
  /\ handler[c].instrucciones = <<>>
Recibiendo(c) ==
  /\ enviado[c] # 0 /\ handler[c].paso = "instrucciones"
  /\ handler[c].tam_proceso = tam_pedido[c]
  /\ \E pend \in Seq(Instrucciones) :
       /\ Hechas(c) = handler[c].instrucciones \o pend
       /\ socket[c] = Enviadas(pend) \o Cola(c)
Recibida(c) ==
  /\ enviado[c] = Len(archivo[c]) + 2 /\ handler[c].paso = "terminado"
  /\ socket[c] = <<>>
  /\ handler[c].tam_proceso = tam_pedido[c]
  /\ handler[c].instrucciones = Hechas(c)

Recepcion ==
  \A c \in Consolas : SinEmpezar(c) \/ ConTamanio(c) \/ Recibiendo(c) \/ Recibida(c)

(* The process of p is the one of console c.                               *)
Duenia(c, p) == handler[c].pid_creado = p

(* What can be in the list of processes and consoles.                      *)
Vigentes ==
  {r \in [pid : Pids, conexion_consola : Consolas] : Duenia(r.conexion_consola, r.pid)}
(* The list of processes and consoles is true, and a handler that has not  *)
(* written its relation yet has a process to write there.                  *)
Relaciones ==
  /\ relaciones \in Seq(Vigentes)
  /\ \A c \in sin_registrar : c \in Consolas /\ handler[c].pid_creado \in Pids
  /\ sem_sincro_ready \in Nat /\ caido \in BOOLEAN

(* A handler that has read everything has made a process, of its own; there*)
(* are as many as pids were given, and as many tables as admitted          *)
(* processes; only the console of a process that ended is told so.         *)
Procesos ==
  /\ \A c \in Consolas : handler[c].paso = "terminado" <=> handler[c].pid_creado # Nadie
  /\ pid_contador = Cardinality({c \in Consolas : handler[c].paso = "terminado"})
  /\ tablas_creadas = Cardinality({p \in Pids : estado[p] \notin {"inexistente", "new"}})
  /\ \A p \in Pids : estado[p] = "inexistente" <=> p > pid_contador
  /\ \A p \in Pids : estado[p] = "inexistente" =>
       \A c \in Consolas : ~Duenia(c, p)
  /\ \A p \in Pids : estado[p] # "inexistente" => \E c \in Consolas : Duenia(c, p)
  /\ \A p \in Pids : \A c, d \in Consolas : Duenia(c, p) /\ Duenia(d, p) => c = d
  /\ \A c \in Consolas, p \in Pids : Duenia(c, p) /\ avisada[c] => estado[p] = "exit"
  /\ \A c \in Consolas : avisada[c] => \E p \in Pids : Duenia(c, p)

(* The pcb x is of process p, has its program and size, and its pc is the  *)
(* number of instructions executed; the next one exists.                   *)
Intacto(x, p) ==
  /\ x \in Pcbs(Instrucciones)
  /\ x.id = p
  /\ x.pc \in Nat /\ x.pc < Len(x.instrucciones)
  /\ x.tabla_paginas = pcb[p].tabla_paginas
  /\ ejecutadas[p] = SubSeq(x.instrucciones, 1, x.pc)
  /\ \A c \in Consolas : Duenia(c, p) =>
       x.tam_proceso = tam_pedido[c] /\ x.instrucciones = handler[c].instrucciones

(* The pcbs in the lists of the kernel are whole, and what is left of their*)
(* bursts is the estimation less what was executed.                        *)
PcbsDelKernel ==
  \A p \in Pids :
    /\ estado[p] \in {"inexistente", "exit"} => pcb[p] = SinPcb
    /\ estado[p] \notin {"inexistente", "exit"} =>
         pcb[p] \in Pcbs(Instrucciones) /\ EsPcb(pcb[p])
    /\ estado[p] \in EnKernel =>
         /\ Intacto(pcb[p], p)
         /\ pcb[p].rafaga = pcb[p].estimacion_anterior - consumido[p]
    /\ estado[p] = "inexistente" => ejecutadas[p] = <<>> /\ consumido[p] = 0

(* What the CPU has counted of the burst of p: all of it, unless another   *)
(* process was executed in between.                                        *)
Medido(p, n) == n <= consumido[p] /\ (~desplazado[p] => n = consumido[p])

(* The pcb of the process in execution is in one place: nobody is in       *)
(* execution, or it is on its way to the CPU, in the CPU, on its way back  *)
(* to be blocked, on its way back because of an interrupt, or its end has  *)
(* been sent.                                                              *)
Libre == running = Nadie /\ dispatch_cpu = <<>> /\ dispatch_kernel = <<>> /\ en_cpu = SinPcb
EnViaje(x) ==
  /\ dispatch_cpu = MensajeEjecutar(x) /\ dispatch_kernel = <<>> /\ en_cpu = SinPcb
  /\ Intacto(x, running)
  /\ x.rafaga = x.estimacion_anterior - consumido[running]
Ejecutando(x) ==
  /\ dispatch_cpu = <<>> /\ dispatch_kernel = <<>> /\ en_cpu = x
  /\ Intacto(x, running)
  /\ x.rafaga = x.estimacion_anterior - (consumido[running] - transcurrido)
  /\ pid_en_ejecucion = running /\ ~atendiendo_interrupcion
  /\ Medido(running, contador_rafaga + transcurrido)
Bloqueandose(x) ==
  \E t \in Int, b \in Int :
    /\ dispatch_cpu = <<>> /\ dispatch_kernel = MensajeBloqueo(x, t, b) /\ en_cpu = SinPcb
    /\ Intacto(x, running)
    /\ pid_en_ejecucion = running /\ ~atendiendo_interrupcion
    /\ Medido(running, b)
Interrumpido(x) ==
  \E r \in Int :
    /\ dispatch_cpu = <<>> /\ dispatch_kernel = MensajeInterrupcion(x, r) /\ en_cpu = SinPcb
    /\ Intacto(x, running)
    /\ x.rafaga = x.estimacion_anterior - (consumido[running] - r)
    /\ pid_en_ejecucion = running /\ atendiendo_interrupcion
Saliendo ==
  /\ dispatch_cpu = <<>> /\ dispatch_kernel = MensajeExit /\ en_cpu = SinPcb
  /\ pid_en_ejecucion = running
  /\ \A c \in Consolas : Duenia(c, running) => ejecutadas[running] = handler[c].instrucciones

(* One place, and the states of the processes agree with it.               *)
Lugares ==
  /\ \A p \in Pids : estado[p] = "running" <=> p = running
  /\ \/ Libre
     \/ running \in Pids /\ Saliendo
     \/ /\ running \in Pids
        /\ \E x \in Pcbs(Instrucciones) :
             EnViaje(x) \/ Ejecutando(x) \/ Bloqueandose(x) \/ Interrumpido(x)

(* The processes the CPU is not measuring have been displaced, if they     *)
(* executed anything; the one it is measuring is measured well.            *)
Rafagas ==
  /\ \A q \in Pids : q # pid_en_ejecucion /\ consumido[q] > 0 => desplazado[q]
  /\ atendiendo_interrupcion =>
       pid_en_ejecucion \in Pids /\ Medido(pid_en_ejecucion, contador_rafaga)
  /\ \A q \in Pids :
       q = pid_en_ejecucion /\ ~atendiendo_interrupcion /\ en_cpu = SinPcb
         /\ dispatch_kernel = <<>> /\ estado[q] # "exit" => consumido[q] = 0

(* The inductive invariant.                                                *)
IndInv == Tipos /\ Recepcion /\ Procesos /\ Relaciones /\ PcbsDelKernel /\ Lugares /\ Rafagas

-----------------------------------------------------------------------------
(* A pcb is not the empty one.                                             *)
LEMMA PcbNoVacio ==
  ASSUME NEW x \in Pcbs(Instrucciones)
  PROVE  x # SinPcb /\ x.id # Nadie
<1>1. x.id \in Int
  BY DEF Pcbs
<1>2. SinPcb.id = Nadie
  BY DEF SinPcb
<1> QED BY <1>1, <1>2, NadieAssumption

(* A pid is a number, and not the absence of one.                          *)
LEMMA PidEsNumero == Pids \subseteq Int /\ Nadie \notin Pids
  <1>1. Cardinality(Consolas) \in Nat
    BY ConsolasAssumption, FS_CardinalityType
  <1> QED BY <1>1, NadieAssumption DEF Pids

(* The file of a console.                                                  *)
LEMMA ArchivoDe ==
  ASSUME Tipos, NEW c \in Consolas
  PROVE  /\ EsArchivo(archivo[c])
         /\ Len(archivo[c]) \in Nat \ {0}
         /\ DOMAIN archivo[c] = 1 .. Len(archivo[c])
         /\ \A k \in 1 .. Len(archivo[c]) : InstruccionesDe(archivo[c][k]) \in Seq(Instrucciones)
         /\ tam_pedido[c] \in Tamanios /\ tam_pedido[c] \in Int
         /\ enviado[c] \in Nat /\ enviado[c] <= Len(archivo[c]) + 2
         /\ handler[c] \in Handlers
<1>1. archivo[c] \in Archivos /\ tam_pedido[c] \in Tamanios
  BY DEF Tipos
<1>2. EsArchivo(archivo[c])
  BY <1>1, ArchivosAssumption
<1>3. archivo[c] \in Seq(Lineas)
  BY <1>2 DEF EsArchivo
<1>4. DOMAIN archivo[c] = 1 .. Len(archivo[c])
  BY <1>3
<1>5. tam_pedido[c] \in Int
  BY <1>1, TamaniosAssumption
<1>6. enviado[c] \in Nat /\ enviado[c] <= Len(archivo[c]) + 2 /\ handler[c] \in Handlers
  BY DEF Tipos
<1> QED BY <1>1, <1>2, <1>4, <1>5, <1>6, ArchivoTipo

(* What is on the socket is made of words.                                 *)
LEMMA HechasTipo ==
  ASSUME Tipos, NEW c \in Consolas
  PROVE  /\ LineasEnviadas(c) \in 0 .. Len(archivo[c])
         /\ Hechas(c) \in Seq(Instrucciones)
         /\ Enviadas(Hechas(c)) \in Seq(Int)
         /\ Cola(c) \in Seq(Int)
<1>1. LineasEnviadas(c) \in 0 .. Len(archivo[c])
  BY ArchivoDe DEF LineasEnviadas
<1>2. Hechas(c) \in Seq(Instrucciones)
  <2> DEFINE n == LineasEnviadas(c)
             a == archivo[c]
  <2>1. Len(a) \in Nat /\ \A k \in 1 .. Len(a) : InstruccionesDe(a[k]) \in Seq(Instrucciones)
    BY ArchivoDe
  <2>2. n \in Nat /\ n <= Len(a)
    BY <1>1, <2>1
  <2> HIDE DEF n, a
  <2>3. \A k \in 1 .. n : k \in 1 .. Len(a)
    BY <2>1, <2>2
  <2>4. Hasta(a, n) \in Seq(Instrucciones)
    BY <2>1, <2>2, <2>3, HastaTipo
  <2> QED BY <2>4 DEF Hechas, a, n
<1>3. Cola(c) \in Seq(Int)
  BY DEF Cola, FIN
<1> QED BY <1>1, <1>2, <1>3, EnviadasTipo

(* Before the console ends, nothing tells the end.                         *)
LEMMA ColaFin ==
  ASSUME NEW c \in Consolas
  PROVE  /\ enviado[c] # Len(archivo[c]) + 2 => Cola(c) = <<>>
         /\ enviado[c] = Len(archivo[c]) + 2 => Cola(c) = <<FIN>>
  BY DEF Cola

(* RecibirTam reads the size.                                              *)
LEMMA SocketTam ==
  ASSUME Tipos, Recepcion, NEW c \in Consolas, handler[c].paso = "tam", socket[c] # <<>>
  PROVE  /\ enviado[c] # 0 /\ Head(socket[c]) = tam_pedido[c]
         /\ Tail(socket[c]) = Enviadas(Hechas(c)) \o Cola(c)
         /\ handler[c].instrucciones = <<>>
<1>1. ConTamanio(c)
  BY DEF Recepcion, SinEmpezar, Recibiendo, Recibida
<1> DEFINE w == Enviadas(Hechas(c)) \o Cola(c)
<1>2. w \in Seq(Int) /\ tam_pedido[c] \in Int
  BY HechasTipo, ArchivoDe
<1>3. socket[c] = <<tam_pedido[c]>> \o w
  BY <1>1 DEF ConTamanio
<1> HIDE DEF w
<1>4. Head(socket[c]) = tam_pedido[c] /\ Tail(socket[c]) = w
  BY <1>2, <1>3
<1> QED BY <1>1, <1>4 DEF ConTamanio, w

(* What the handler has read and what is left to read.                     *)
LEMMA SocketPendiente ==
  ASSUME Recepcion, NEW c \in Consolas, handler[c].paso = "instrucciones"
  PROVE  /\ enviado[c] # 0 /\ handler[c].tam_proceso = tam_pedido[c]
         /\ \E pend \in Seq(Instrucciones) :
              /\ Hechas(c) = handler[c].instrucciones \o pend
              /\ socket[c] = Enviadas(pend) \o Cola(c)
  BY DEF Recepcion, SinEmpezar, ConTamanio, Recibiendo, Recibida

(* RecibirInstruccion reads the first of those.                            *)
LEMMA SocketInstruccion ==
  ASSUME Tipos, Recepcion, NEW c \in Consolas, handler[c].paso = "instrucciones",
         socket[c] # <<>>, ~EsFin(socket[c])
  PROVE  LET n == PalabrasDe(Head(socket[c]))
             ins == LeerInstruccion(SubSeq(socket[c], 1, n))
         IN  /\ ins \in Instrucciones
             /\ \E pend \in Seq(Instrucciones) :
                  /\ Hechas(c) = Append(handler[c].instrucciones, ins) \o pend
                  /\ Desde(socket[c], n + 1) = Enviadas(pend) \o Cola(c)
<1>1. PICK pend \in Seq(Instrucciones) : /\ Hechas(c) = handler[c].instrucciones \o pend
                                         /\ socket[c] = Enviadas(pend) \o Cola(c)
  BY SocketPendiente
<1>2. Cola(c) \in Seq(Int)
  BY HechasTipo
<1>3. pend # <<>>
  <2> SUFFICES ASSUME pend = <<>> PROVE FALSE
    OBVIOUS
  <2>1. socket[c] = Cola(c)
    BY <1>1, <1>2, EnviadasNada
  <2> QED BY <2>1 DEF Cola, EsFin
<1>4. /\ LeerInstruccion(SubSeq(socket[c], 1, PalabrasDe(Head(socket[c])))) = Head(pend)
      /\ Desde(socket[c], PalabrasDe(Head(socket[c])) + 1) = Enviadas(Tail(pend)) \o Cola(c)
  <2> DEFINE w == socket[c]
             cola == Cola(c)
  <2>1. w = Enviadas(pend) \o cola /\ cola \in Seq(Int)
    BY <1>1, <1>2
  <2> HIDE DEF w, cola
  <2>2. /\ LeerInstruccion(SubSeq(w, 1, PalabrasDe(Head(w)))) = Head(pend)
        /\ Desde(w, PalabrasDe(Head(w)) + 1) = Enviadas(Tail(pend)) \o cola
    BY <1>3, <2>1, PrimeraEnviada
  <2> QED BY <2>2 DEF w, cola
<1>5. Head(pend) \in Instrucciones /\ Tail(pend) \in Seq(Instrucciones)
      /\ pend = <<Head(pend)>> \o Tail(pend)
  BY <1>3
<1>6. Hechas(c) = Append(handler[c].instrucciones, Head(pend)) \o Tail(pend)
  <2> DEFINE h == handler[c].instrucciones
             i == Head(pend)
             r == Tail(pend)
  <2>1. h \in Seq(Instrucciones)
    BY ArchivoDe DEF Handlers
  <2>2. i \in Instrucciones /\ r \in Seq(Instrucciones) /\ Hechas(c) = h \o (<<i>> \o r)
    BY <1>1, <1>5
  <2> HIDE DEF h, i, r
  <2>3. <<i>> \in Seq(Instrucciones) /\ Append(h, i) = h \o <<i>>
    BY <2>1, <2>2
  <2>4. (h \o <<i>>) \o r = h \o (<<i>> \o r)
    BY <2>1, <2>2, <2>3, Asociativa
  <2> QED BY <2>2, <2>3, <2>4 DEF h, i, r
<1> QED BY <1>4, <1>5, <1>6

(* CrearProceso finds the end when there is nothing else to read.          *)
LEMMA SocketFin ==
  ASSUME Tipos, Recepcion, NEW c \in Consolas, handler[c].paso = "instrucciones",
         socket[c] # <<>>, EsFin(socket[c])
  PROVE  /\ enviado[c] = Len(archivo[c]) + 2
         /\ Tail(socket[c]) = <<>>
         /\ handler[c].tam_proceso = tam_pedido[c]
         /\ handler[c].instrucciones = Hechas(c)
<1>1. PICK pend \in Seq(Instrucciones) : /\ Hechas(c) = handler[c].instrucciones \o pend
                                         /\ socket[c] = Enviadas(pend) \o Cola(c)
  BY SocketPendiente
<1>2. Cola(c) \in Seq(Int)
  BY HechasTipo
<1>3. pend = <<>>
  <2> SUFFICES ASSUME pend # <<>> PROVE FALSE
    OBVIOUS
  <2> DEFINE w == socket[c]
             cola == Cola(c)
  <2>1. w = Enviadas(pend) \o cola /\ cola \in Seq(Int)
    BY <1>1, <1>2
  <2> HIDE DEF w, cola
  <2>2. Head(w) # FIN
    BY <2>1, PrimeraEnviada
  <2> QED BY <2>2 DEF w, EsFin
<1>4. socket[c] = Cola(c)
  BY <1>1, <1>2, <1>3, EnviadasNada
<1>5. enviado[c] = Len(archivo[c]) + 2 /\ socket[c] = <<FIN>>
  BY <1>4 DEF Cola
<1>6. handler[c].instrucciones \in Seq(Instrucciones)
  BY ArchivoDe DEF Handlers
<1>7. handler[c].instrucciones = Hechas(c)
  <2>1. handler[c].instrucciones \o <<>> = handler[c].instrucciones
    BY <1>6
  <2> QED BY <1>1, <1>3, <2>1
<1>8. Tail(<<FIN>>) = <<>>
  BY DEF FIN
<1> QED BY <1>5, <1>7, <1>8, SocketPendiente

(* A console that has a process has sent its file, and the handler has it. *)
LEMMA ProgramaEntero ==
  ASSUME Tipos, Recepcion, Procesos, NEW c \in Consolas, handler[c].pid_creado # Nadie
  PROVE  /\ enviado[c] = Len(archivo[c]) + 2
         /\ handler[c].tam_proceso = tam_pedido[c]
         /\ handler[c].instrucciones = Hasta(archivo[c], Len(archivo[c]))
         /\ handler[c].instrucciones \in Seq(Instrucciones)
         /\ TerminaEnExit(handler[c].instrucciones)
<1>1. handler[c].paso = "terminado"
  BY DEF Procesos
<1>2. Recibida(c)
  BY <1>1 DEF Recepcion, SinEmpezar, ConTamanio, Recibiendo
<1>3. Len(archivo[c]) \in Nat /\ EsArchivo(archivo[c])
  BY ArchivoDe
<1>4. LineasEnviadas(c) = Len(archivo[c])
  BY <1>2, <1>3 DEF Recibida, LineasEnviadas
<1>5. handler[c].instrucciones = Hasta(archivo[c], Len(archivo[c]))
  BY <1>2, <1>4 DEF Recibida, Hechas
<1> QED BY <1>2, <1>3, <1>5, ProgramaConExit DEF Recibida

-----------------------------------------------------------------------------
(* The process that is running, and its pcb: what the three parts of the   *)
(* program find when they take it.                                         *)

(* A process that exists has a console, whose program it executes.         *)
LEMMA ConConsola ==
  ASSUME IndInv, NEW p \in Pids, estado[p] # "inexistente"
  PROVE  \E c \in Consolas : /\ Duenia(c, p)
                             /\ \A d \in Consolas : Duenia(d, p) => d = c
                             /\ tam_pedido[c] \in Tamanios
                             /\ handler[c].instrucciones \in Seq(Instrucciones)
                             /\ TerminaEnExit(handler[c].instrucciones)
<1> USE DEF IndInv
<1>1. PICK c \in Consolas : Duenia(c, p)
  BY DEF Procesos
<1>2. \A d \in Consolas : Duenia(d, p) => d = c
  BY <1>1 DEF Procesos
<1>3. handler[c].pid_creado # Nadie
  BY <1>1, PidEsNumero DEF Duenia
<1> QED BY <1>1, <1>2, <1>3, ProgramaEntero, ArchivoDe

(* The pcb of the process that is running is well formed.                  *)
LEMMA IntactoTipo ==
  ASSUME IndInv, running \in Pids, NEW x, Intacto(x, running)
  PROVE  /\ x \in Pcbs(Instrucciones) /\ x # SinPcb
         /\ x.id = running
         /\ EsPcb(x)
         /\ x.instrucciones \in Seq(Instrucciones)
         /\ x.pc \in Nat /\ x.pc < Len(x.instrucciones)
         /\ TerminaEnExit(x.instrucciones)
<1> USE DEF IndInv
<1>1. estado[running] = "running"
  BY DEF Lugares
<1>2. PICK c \in Consolas : /\ Duenia(c, running)
                            /\ tam_pedido[c] \in Tamanios
                            /\ handler[c].instrucciones \in Seq(Instrucciones)
                            /\ TerminaEnExit(handler[c].instrucciones)
  BY <1>1, ConConsola
<1>3. x.tam_proceso = tam_pedido[c] /\ x.instrucciones = handler[c].instrucciones
  BY <1>2 DEF Intacto
<1>4. x.tabla_paginas \in 0 .. Cardinality(Consolas) - 1
  <2>1. EsPcb(pcb[running])
    BY <1>1 DEF PcbsDelKernel
  <2> QED BY <2>1 DEF Intacto, EsPcb
<1>5. /\ x \in Pcbs(Instrucciones) /\ x.id = running
      /\ x.pc \in Nat /\ x.pc < Len(x.instrucciones)
  BY DEF Intacto
<1>6. Len(x.instrucciones) \in Nat
  BY <1>2, <1>3
<1>7. x.pc \in 0 .. Len(x.instrucciones)
  BY <1>5, <1>6
<1>8. x.rafaga \in Int /\ x.estimacion_anterior \in Int
  BY <1>5 DEF Pcbs
<1>9. EsPcb(x)
  BY <1>2, <1>3, <1>4, <1>5, <1>7, <1>8 DEF EsPcb
<1> QED BY <1>2, <1>3, <1>5, <1>9, PcbNoVacio

(* There is at most one message on the way, and it is the one that is read.*)
LEMMA LugarDeDispatch ==
  ASSUME IndInv, dispatch_cpu # <<>>
  PROVE  /\ running \in Pids
         /\ \E x \in Pcbs(Instrucciones) :
              EnViaje(x) /\ LeerPcb(Tail(dispatch_cpu)) = x /\ TrasPcb(dispatch_cpu, 1) = <<>>
<1>1. running \in Pids
  BY DEF IndInv, Lugares, Libre
<1>2. PICK x \in Pcbs(Instrucciones) : EnViaje(x)
  BY DEF IndInv, Lugares, Libre, Saliendo, Ejecutando, Bloqueandose, Interrumpido
<1>3. dispatch_cpu = MensajeEjecutar(x)
  BY <1>2 DEF EnViaje
<1>4. LeerPcb(Tail(dispatch_cpu)) = x /\ TrasPcb(dispatch_cpu, 1) = <<>>
  BY <1>3, EjecutarLeido
<1> QED BY <1>1, <1>2, <1>4

(* The first words of the messages of the CPU tell them apart.             *)
LEMMA CabezaDeMensaje ==
  /\ \A x \in Pcbs(Instrucciones) :
       dispatch_cpu = MensajeEjecutar(x) => dispatch_cpu # <<>>
  /\ \A x \in Pcbs(Instrucciones), t \in Int, b \in Int :
       dispatch_kernel = MensajeBloqueo(x, t, b) => Head(dispatch_kernel) = PASAR_A_BLOQUEADO
  /\ \A x \in Pcbs(Instrucciones), r \in Int :
       dispatch_kernel = MensajeInterrupcion(x, r) => Head(dispatch_kernel) = PASAR_A_READY
  /\ dispatch_kernel = MensajeExit => Head(dispatch_kernel) = PASAR_A_EXIT
<1>1. ASSUME NEW x \in Pcbs(Instrucciones), dispatch_cpu = MensajeEjecutar(x)
      PROVE  dispatch_cpu # <<>>
  BY <1>1, EjecutarLeido
<1>2. ASSUME NEW x \in Pcbs(Instrucciones), NEW t \in Int, NEW b \in Int,
             dispatch_kernel = MensajeBloqueo(x, t, b)
      PROVE  Head(dispatch_kernel) = PASAR_A_BLOQUEADO
  <2>1. EsBloqueo(Instrucciones, dispatch_kernel, x, t, b)
    BY <1>2 DEF EsBloqueo
  <2>2. BloqueoEntero(Instrucciones, dispatch_kernel, x, b)
    BY <2>1, BloqueoLeido
  <2> QED BY <2>2 DEF BloqueoEntero
<1>3. ASSUME NEW x \in Pcbs(Instrucciones), NEW r \in Int,
             dispatch_kernel = MensajeInterrupcion(x, r)
      PROVE  Head(dispatch_kernel) = PASAR_A_READY
  BY <1>3, InterrupcionLeida
<1>4. dispatch_kernel = MensajeExit => Head(dispatch_kernel) = PASAR_A_EXIT
  BY DEF MensajeExit
<1> QED BY <1>1, <1>2, <1>3, <1>4

(* PASAR_A_BLOQUEADO brings the pcb, the time and the burst.               *)
LEMMA LugarDeBloqueo ==
  ASSUME IndInv, RecibeDeCpu(PASAR_A_BLOQUEADO)
  PROVE  /\ running \in Pids
         /\ \E x \in Pcbs(Instrucciones), t \in Int, b \in Int :
              /\ dispatch_kernel = MensajeBloqueo(x, t, b)
              /\ dispatch_cpu = <<>> /\ en_cpu = SinPcb
              /\ Intacto(x, running)
              /\ pid_en_ejecucion = running /\ ~atendiendo_interrupcion
              /\ Medido(running, b)
              /\ LeerPcb(Desde(dispatch_kernel, 4)) = x
              /\ dispatch_kernel[3] = b /\ TrasPcb(dispatch_kernel, 3) = <<>>
<1>1. dispatch_kernel # <<>> /\ Head(dispatch_kernel) = PASAR_A_BLOQUEADO
  BY DEF RecibeDeCpu
<1>2. PASAR_A_BLOQUEADO # PASAR_A_READY /\ PASAR_A_BLOQUEADO # PASAR_A_EXIT
  BY DEF PASAR_A_BLOQUEADO, PASAR_A_READY, PASAR_A_EXIT
<1>3. running \in Pids
  BY <1>1 DEF IndInv, Lugares, Libre
<1>4. PICK x \in Pcbs(Instrucciones) : Bloqueandose(x)
  <2>1. ~Libre /\ ~Saliendo
    BY <1>1, <1>2, CabezaDeMensaje DEF Libre, Saliendo
  <2>2. \A x \in Pcbs(Instrucciones) : ~EnViaje(x) /\ ~Ejecutando(x)
    BY <1>1 DEF EnViaje, Ejecutando
  <2>3. \A x \in Pcbs(Instrucciones) : ~Interrumpido(x)
    BY <1>1, <1>2, CabezaDeMensaje DEF Interrumpido
  <2> QED BY <2>1, <2>2, <2>3 DEF IndInv, Lugares
<1>5. PICK t \in Int, b \in Int :
        /\ dispatch_cpu = <<>> /\ dispatch_kernel = MensajeBloqueo(x, t, b) /\ en_cpu = SinPcb
        /\ Intacto(x, running)
        /\ pid_en_ejecucion = running /\ ~atendiendo_interrupcion
        /\ Medido(running, b)
  BY <1>4 DEF Bloqueandose
<1>6. /\ LeerPcb(Desde(dispatch_kernel, 4)) = x
      /\ dispatch_kernel[3] = b /\ TrasPcb(dispatch_kernel, 3) = <<>>
  <2>0. dispatch_kernel = MensajeBloqueo(x, t, b)
    BY <1>5
  <2>1. EsBloqueo(Instrucciones, dispatch_kernel, x, t, b)
    BY <2>0 DEF EsBloqueo
  <2>2. BloqueoEntero(Instrucciones, dispatch_kernel, x, b)
    BY <2>1, BloqueoLeido
  <2> QED BY <2>2 DEF BloqueoEntero
<1> QED BY <1>3, <1>5, <1>6

(* PASAR_A_READY brings the pcb and the time of the stretch.               *)
LEMMA LugarDeInterrupcion ==
  ASSUME IndInv, RecibeDeCpu(PASAR_A_READY)
  PROVE  /\ running \in Pids
         /\ \E x \in Pcbs(Instrucciones), r \in Int :
              /\ dispatch_kernel = MensajeInterrupcion(x, r)
              /\ dispatch_cpu = <<>> /\ en_cpu = SinPcb
              /\ Intacto(x, running)
              /\ x.rafaga = x.estimacion_anterior - (consumido[running] - r)
              /\ pid_en_ejecucion = running /\ atendiendo_interrupcion
              /\ LeerPcb(Desde(dispatch_kernel, 3)) = x
              /\ dispatch_kernel[2] = r /\ TrasPcb(dispatch_kernel, 2) = <<>>
<1>1. dispatch_kernel # <<>> /\ Head(dispatch_kernel) = PASAR_A_READY
  BY DEF RecibeDeCpu
<1>2. PASAR_A_READY # PASAR_A_BLOQUEADO /\ PASAR_A_READY # PASAR_A_EXIT
  BY DEF PASAR_A_BLOQUEADO, PASAR_A_READY, PASAR_A_EXIT
<1>3. running \in Pids
  BY <1>1 DEF IndInv, Lugares, Libre
<1>4. PICK x \in Pcbs(Instrucciones) : Interrumpido(x)
  <2>1. ~Libre /\ ~Saliendo
    BY <1>1, <1>2, CabezaDeMensaje DEF Libre, Saliendo
  <2>2. \A x \in Pcbs(Instrucciones) : ~EnViaje(x) /\ ~Ejecutando(x)
    BY <1>1 DEF EnViaje, Ejecutando
  <2>3. \A x \in Pcbs(Instrucciones) : ~Bloqueandose(x)
    BY <1>1, <1>2, CabezaDeMensaje DEF Bloqueandose
  <2> QED BY <2>1, <2>2, <2>3 DEF IndInv, Lugares
<1>5. PICK r \in Int :
        /\ dispatch_cpu = <<>> /\ dispatch_kernel = MensajeInterrupcion(x, r)
        /\ en_cpu = SinPcb
        /\ Intacto(x, running)
        /\ x.rafaga = x.estimacion_anterior - (consumido[running] - r)
        /\ pid_en_ejecucion = running /\ atendiendo_interrupcion
  BY <1>4 DEF Interrumpido
<1>6. /\ LeerPcb(Desde(dispatch_kernel, 3)) = x
      /\ dispatch_kernel[2] = r /\ TrasPcb(dispatch_kernel, 2) = <<>>
  BY <1>5, InterrupcionLeida
<1> QED BY <1>3, <1>5, <1>6

(* PASAR_A_EXIT brings nothing: the process is the one in running.         *)
LEMMA LugarDeExit ==
  ASSUME IndInv, RecibeDeCpu(PASAR_A_EXIT)
  PROVE  running \in Pids /\ Saliendo /\ Tail(dispatch_kernel) = <<>>
<1>1. dispatch_kernel # <<>> /\ Head(dispatch_kernel) = PASAR_A_EXIT
  BY DEF RecibeDeCpu
<1>2. PASAR_A_EXIT # PASAR_A_BLOQUEADO /\ PASAR_A_EXIT # PASAR_A_READY
  BY DEF PASAR_A_BLOQUEADO, PASAR_A_READY, PASAR_A_EXIT
<1>3. running \in Pids
  BY <1>1 DEF IndInv, Lugares, Libre
<1>4. Saliendo
  <2>1. ~Libre
    BY <1>1 DEF Libre
  <2>2. \A x \in Pcbs(Instrucciones) :
          ~EnViaje(x) /\ ~Ejecutando(x) /\ ~Bloqueandose(x) /\ ~Interrumpido(x)
    BY <1>1, <1>2, CabezaDeMensaje DEF EnViaje, Ejecutando, Bloqueandose, Interrumpido
  <2> QED BY <2>1, <2>2 DEF IndInv, Lugares
<1>5. Tail(MensajeExit) = <<>>
  BY DEF MensajeExit, PASAR_A_EXIT
<1> QED BY <1>3, <1>4, <1>5 DEF Saliendo

(* What the CPU executes is the pcb of the process that is running.        *)
LEMMA LugarDeCpu ==
  ASSUME IndInv, en_cpu # SinPcb
  PROVE  running \in Pids /\ Ejecutando(en_cpu) /\ en_cpu \in Pcbs(Instrucciones)
<1>1. running \in Pids
  BY DEF IndInv, Lugares, Libre
<1>2. PICK x \in Pcbs(Instrucciones) : Ejecutando(x)
  BY DEF IndInv, Lugares, Libre, Saliendo, EnViaje, Bloqueandose, Interrumpido
<1>3. en_cpu = x
  BY <1>2 DEF Ejecutando
<1> QED BY <1>1, <1>2, <1>3

(* A handler that has not finished finds a pid that nobody has.            *)
LEMMA PidLibre ==
  ASSUME IndInv, NEW c \in Consolas, handler[c].paso # "terminado"
  PROVE  /\ PidNuevo \in Pids /\ PidNuevo \in Int /\ PidNuevo # Nadie
         /\ estado[PidNuevo] = "inexistente"
         /\ pid_contador \in Nat
         /\ PidNuevo <= Cardinality(Consolas)
         /\ IsFiniteSet({d \in Consolas : handler[d].paso = "terminado"})
<1> USE DEF IndInv
<1> DEFINE T == {d \in Consolas : handler[d].paso = "terminado"}
<1>1. T \subseteq Consolas /\ T # Consolas
  OBVIOUS
<1>2. pid_contador = Cardinality(T)
  BY DEF Procesos
<1> HIDE DEF T
<1>3. IsFiniteSet(T) /\ Cardinality(T) <= Cardinality(Consolas)
      /\ Cardinality(T) \in Nat /\ Cardinality(Consolas) \in Nat
  BY <1>1, ConsolasAssumption, FS_Subset, FS_CardinalityType
<1>4. Cardinality(T) # Cardinality(Consolas)
  BY <1>1, ConsolasAssumption, FS_Subset
<1>5. pid_contador \in Nat /\ PidNuevo \in 1 .. Cardinality(Consolas)
  BY <1>2, <1>3, <1>4 DEF PidNuevo
<1>6. estado[PidNuevo] = "inexistente"
  BY <1>5 DEF Procesos, PidNuevo, Pids
<1> QED BY <1>3, <1>5, <1>6, NadieAssumption DEF Pids, T

(* An instruction of the cycle: it is the next of the program, and after it*)
(* the program goes on unless it was EXIT.                                 *)
LEMMA PasoDeCiclo ==
  ASSUME IndInv, EnCiclo
  PROVE  /\ running \in Pids /\ en_cpu.id = running /\ Ejecutando(en_cpu)
         /\ Actual \in Instrucciones
         /\ Actual.tipo = EXIT <=> en_cpu.pc + 1 = Len(en_cpu.instrucciones)
         /\ Append(ejecutadas[running], Actual)
              = SubSeq(en_cpu.instrucciones, 1, en_cpu.pc + 1)
         /\ Avanzado \in Pcbs(Instrucciones)
         /\ \A m \in Seq(Int \union Instrucciones) : dispatch_kernel \o m = m
<1>1. running \in Pids /\ Ejecutando(en_cpu)
  BY LugarDeCpu DEF EnCiclo
<1>2. Intacto(en_cpu, running) /\ dispatch_kernel = <<>>
  BY <1>1 DEF Ejecutando
<1> DEFINE s == en_cpu.instrucciones
           n == en_cpu.pc
<1>3. /\ en_cpu.id = running /\ s \in Seq(Instrucciones)
      /\ n \in Nat /\ n < Len(s) /\ TerminaEnExit(s)
      /\ en_cpu \in Pcbs(Instrucciones)
  BY <1>1, <1>2, IntactoTipo
<1>4. ejecutadas[running] = SubSeq(s, 1, n) /\ Actual = s[n + 1]
  BY <1>2 DEF Intacto, Actual
<1>5. Avanzado \in Pcbs(Instrucciones)
  BY <1>3 DEF Avanzado, Pcbs
<1> HIDE DEF s, n
<1>6. Len(s) \in Nat /\ n + 1 \in 1 .. Len(s)
  BY <1>3
<1>7. s[n + 1] \in Instrucciones
  BY <1>3, <1>6
<1>8. s[n + 1].tipo = EXIT <=> n + 1 = Len(s)
  BY <1>3, <1>6 DEF TerminaEnExit
<1>9. Append(SubSeq(s, 1, n), s[n + 1]) = SubSeq(s, 1, n + 1)
  <2>1. SubSeq(s, 1, n) \in Seq(Instrucciones) /\ Len(SubSeq(s, 1, n)) = n
    BY <1>3, <1>6
  <2>2. SubSeq(s, 1, n + 1) \in Seq(Instrucciones) /\ Len(SubSeq(s, 1, n + 1)) = n + 1
    BY <1>3, <1>6
  <2>3. \A k \in 1 .. n + 1 : Append(SubSeq(s, 1, n), s[n + 1])[k] = SubSeq(s, 1, n + 1)[k]
    BY <1>3, <1>6
  <2> QED BY <2>1, <2>2, <2>3, <1>7, SeqEqual
<1>10. \A m \in Seq(Int \union Instrucciones) : dispatch_kernel \o m = m
  BY <1>2
<1> QED BY <1>1, <1>3, <1>4, <1>5, <1>7, <1>8, <1>9, <1>10 DEF s, n

(* What EJECUTAR makes of the CPU.                                         *)
LEMMA EfectoRecibir ==
  ASSUME IndInv, Recibir
  PROVE  /\ running \in Pids
         /\ \E x \in Pcbs(Instrucciones) :
              /\ EnViaje(x) /\ x.id = running /\ en_cpu' = x
              /\ dispatch_cpu' = <<>>
              /\ pid_en_ejecucion' = running
              /\ contador_rafaga' = IF atendiendo_interrupcion /\ running = pid_en_ejecucion
                                      THEN contador_rafaga ELSE 0
              /\ desplazado' = [q \in Pids |->
                                  desplazado[q] \/ (q # running /\ consumido[q] > 0)]
<1>1. dispatch_cpu # <<>>
  BY DEF Recibir
<1>2. PICK x \in Pcbs(Instrucciones) :
        EnViaje(x) /\ LeerPcb(Tail(dispatch_cpu)) = x /\ TrasPcb(dispatch_cpu, 1) = <<>>
  BY <1>1, LugarDeDispatch
<1>3. running \in Pids /\ x.id = running
  BY <1>1, <1>2, LugarDeDispatch DEF EnViaje, Intacto
<1> QED BY <1>2, <1>3 DEF Recibir, ReiniciarContador

-----------------------------------------------------------------------------
(* The initial state.                                                      *)
LEMMA IndInvInit == Init => IndInv
<1> SUFFICES ASSUME Init PROVE IndInv
  OBVIOUS
<1> USE DEF Init
<1>0. Cardinality(Consolas) \in Nat
  BY ConsolasAssumption, FS_CardinalityType
<1>1. Tipos
  <2>1. \A c \in Consolas : handler[c] \in Handlers
    BY DEF Handlers
  <2>2. \A c \in Consolas : enviado[c] <= Len(archivo[c]) + 2
    <3>1. TAKE c \in Consolas
    <3>2. archivo[c] \in Seq(Lineas)
      BY ArchivosAssumption DEF EsArchivo
    <3> QED BY <3>2
  <2> QED BY <2>1, <2>2 DEF Tipos
<1>2. Recepcion
  BY DEF Recepcion, SinEmpezar
<1>3. Procesos
  <2>1. {c \in Consolas : handler[c].paso = "terminado"} = {}
    OBVIOUS
  <2>2. {p \in Pids : estado[p] \notin {"inexistente", "new"}} = {}
    OBVIOUS
  <2>3. Cardinality({}) = 0
    BY FS_EmptySet
  <2>4. \A p \in Pids : p > pid_contador
    BY <1>0 DEF Pids
  <2>5. \A c \in Consolas, p \in Pids : ~Duenia(c, p)
    BY PidEsNumero DEF Duenia
  <2> QED BY <2>1, <2>2, <2>3, <2>4, <2>5 DEF Procesos
<1>4. Relaciones
  <2>1. relaciones \in Seq(Vigentes)
    <3>1. relaciones = <<>>
      OBVIOUS
    <3> HIDE DEF Init
    <3>2. <<>> \in Seq(Vigentes)
      OBVIOUS
    <3> QED BY <3>1, <3>2
  <2>2. sin_registrar = {} /\ sem_sincro_ready = 0 /\ caido = FALSE
    OBVIOUS
  <2> HIDE DEF Init
  <2> QED BY <2>1, <2>2 DEF Relaciones
<1>5. PcbsDelKernel
  BY DEF PcbsDelKernel, EnKernel
<1>6. Lugares
  BY PidEsNumero DEF Lugares, Libre
<1>7. Rafagas
  BY PidEsNumero DEF Rafagas
<1> QED BY <1>1, <1>2, <1>3, <1>4, <1>5, <1>6, <1>7 DEF IndInv

(* The counters of the CPU and the kernel's tables keep their types.       *)
LEMMA PasoTipos ==
  ASSUME IndInv, Next
  PROVE  Tipos'
<1>0. Tipos /\ Recepcion /\ Procesos
  BY DEF IndInv
<1> USE DEF Tipos
<1>1. ASSUME NEW c \in Consolas, Consola(c) PROVE Tipos'
  <2>1. enviado[c] \in Nat /\ enviado[c] <= Len(archivo[c]) + 1 /\ Len(archivo[c]) \in Nat
    BY <1>0, <1>1, ArchivoDe
       DEF Consola, EnviarTamProceso, EnviarLineaDe, EnviarFin
  <2>2. /\ enviado' = [enviado EXCEPT ![c] = @ + 1]
        /\ DOMAIN socket' = DOMAIN socket
        /\ UNCHANGED <<archivo, tam_pedido, avisada, handler, kernel, canales, cpu, historia>>
    BY <1>1 DEF Consola, EnviarTamProceso, EnviarLineaDe, EnviarFin, Enviar
  <2>3. enviado' \in [Consolas -> Nat]
    BY <1>0, <2>1, <2>2
  <2>4. \A d \in Consolas : enviado'[d] <= Len(archivo'[d]) + 2
    BY <1>0, <2>1, <2>2
  <2> QED BY <1>0, <2>2, <2>3, <2>4 DEF kernel, canales, cpu, historia
<1>2. ASSUME NEW c \in Consolas, Handler(c) PROVE Tipos'
  <2>1. handler[c] \in Handlers
    BY <1>0
  <2>2. CASE RecibirTam(c)
    <3>1. Head(socket[c]) \in Int
      BY <1>0, <2>2, SocketTam, ArchivoDe DEF RecibirTam
    <3>2. handler' = [handler EXCEPT ![c] = [handler[c] EXCEPT !.paso = "instrucciones",
                                               !.tam_proceso = Head(socket[c])]]
      BY <2>2 DEF RecibirTam
    <3>3. handler'[c] \in Handlers
      BY <1>0, <2>1, <3>1, <3>2 DEF Handlers
    <3>4. handler' \in [Consolas -> Handlers]
      BY <1>0, <3>2, <3>3
    <3> QED BY <1>0, <2>2, <3>4 DEF RecibirTam, consola, kernel, canales, cpu, historia
  <2>3. CASE RecibirInstruccion(c)
    <3> DEFINE ins == LeerInstruccion(SubSeq(socket[c], 1, PalabrasDe(Head(socket[c]))))
    <3>1. ins \in Instrucciones
      BY <1>0, <2>3, SocketInstruccion DEF RecibirInstruccion
    <3>2. handler' = [handler EXCEPT ![c] = [handler[c] EXCEPT
                        !.instrucciones = Append(handler[c].instrucciones, ins)]]
      BY <2>3 DEF RecibirInstruccion
    <3> HIDE DEF ins
    <3>3. Append(handler[c].instrucciones, ins) \in Seq(Instrucciones)
      BY <2>1, <3>1 DEF Handlers
    <3>4. handler'[c] \in Handlers
      BY <1>0, <2>1, <3>2, <3>3 DEF Handlers
    <3>5. handler' \in [Consolas -> Handlers]
      BY <1>0, <3>2, <3>4
    <3>6. DOMAIN socket' = DOMAIN socket
      BY <2>3 DEF RecibirInstruccion
    <3>7. UNCHANGED <<consola, kernel, canales, cpu, historia>>
      BY <2>3 DEF RecibirInstruccion
    <3> QED BY <1>0, <3>5, <3>6, <3>7 DEF consola, kernel, canales, cpu, historia
  <2>4. CASE CrearProceso(c)
    <3>1. PidNuevo \in Pids
      BY <2>4, PidLibre DEF CrearProceso
    <3>2. handler' = [handler EXCEPT ![c] = [handler[c] EXCEPT !.paso = "terminado",
                                               !.pid_creado = PidNuevo]]
      BY <2>4 DEF CrearProceso
    <3>3. handler'[c] \in Handlers
      BY <1>0, <2>1, <3>1, <3>2 DEF Handlers
    <3>4. handler' \in [Consolas -> Handlers]
      BY <1>0, <3>2, <3>3
    <3> QED BY <1>0, <2>4, <3>1, <3>4 DEF CrearProceso, consola, canales, cpu, historia
  <2>5. CASE Registrar(c)
    BY <1>0, <2>5 DEF Registrar, consola, recepcion, canales, cpu, historia
  <2> QED BY <1>2, <2>2, <2>3, <2>4, <2>5 DEF Handler
<1>3. ASSUME NEW p \in Pids, Admitir(p) \/ Despachar(p) \/ Desbloquear(p) PROVE Tipos'
  BY <1>0, <1>3 DEF Admitir, Despachar, Desbloquear, consola, recepcion, cpu, historia
<1>4. CASE RecibirBloqueo
  BY <1>0, <1>4 DEF RecibirBloqueo, LiberarCpu, consola, recepcion, cpu
<1>5. CASE RecibirInterrumpido
  BY <1>0, <1>5 DEF RecibirInterrumpido, LiberarCpu, consola, recepcion, cpu, historia
<1>6. CASE RecibirExit
  <2>1. avisada' \in [Consolas -> BOOLEAN]
    BY <1>0, <1>6 DEF RecibirExit, AvisarConsola
  <2> QED BY <1>0, <1>6, <2>1 DEF RecibirExit, LiberarCpu, recepcion, cpu, historia
<1>7. CASE Interrumpir
  BY <1>0, <1>7 DEF Interrumpir, consola, recepcion, kernel, canales, historia
<1>8. CASE Recibir
  <2>1. /\ running \in Pids
        /\ pid_en_ejecucion' = running
        /\ contador_rafaga' \in {contador_rafaga, 0}
        /\ \E f \in [Pids -> BOOLEAN] : desplazado' = f
    <3>1. PICK x \in Pcbs(Instrucciones) :
            /\ pid_en_ejecucion' = running
            /\ contador_rafaga' = IF atendiendo_interrupcion /\ running = pid_en_ejecucion
                                    THEN contador_rafaga ELSE 0
            /\ desplazado' = [q \in Pids |->
                                desplazado[q] \/ (q # running /\ consumido[q] > 0)]
      BY <1>8, EfectoRecibir
    <3>2. [q \in Pids |-> desplazado[q] \/ (q # running /\ consumido[q] > 0)]
            \in [Pids -> BOOLEAN]
      BY <1>0
    <3>3. running \in Pids
      BY <1>8, EfectoRecibir
    <3> QED BY <3>1, <3>2, <3>3
  <2>2. /\ hay_interrupciones' = FALSE /\ atendiendo_interrupcion' = FALSE
        /\ transcurrido' = 0
        /\ UNCHANGED <<consola, recepcion, kernel, ejecutadas, consumido>>
    BY <1>8 DEF Recibir
  <2>3. desplazado' \in [Pids -> BOOLEAN]
    BY <2>1
  <2>4. contador_rafaga' \in Nat
    BY <1>0, <2>1
  <2> QED BY <1>0, <2>1, <2>2, <2>3, <2>4 DEF consola, recepcion, kernel
<1>9. ASSUME NEW d \in Duraciones, EjecutarInstruccion(d) PROVE Tipos'
  <2>1. d \in Nat
    BY DuracionesAssumption
  <2>2. en_cpu.id \in Pids
    BY <1>9, PasoDeCiclo DEF EjecutarInstruccion
  <2>3. consumido' \in [Pids -> Nat] /\ DOMAIN ejecutadas' = Pids
    BY <1>0, <1>9, <2>1, <2>2 DEF EjecutarInstruccion, Anotar
  <2>4. /\ transcurrido' \in Nat /\ contador_rafaga' \in Nat
        /\ atendiendo_interrupcion' \in BOOLEAN
        /\ UNCHANGED <<consola, recepcion, kernel, hay_interrupciones, pid_en_ejecucion,
                       desplazado>>
    <3>1. transcurrido + d \in Nat /\ contador_rafaga \in Nat
          /\ contador_rafaga + (transcurrido + d) \in Nat
      BY <1>0, <2>1
    <3>2. atendiendo_interrupcion \in BOOLEAN
      BY <1>0
    <3> DEFINE total == transcurrido + d
               suma == contador_rafaga + total
               m == MensajeInterrupcion(Avanzado, Tramo(total))
    <3> HIDE DEF Tipos
    <3>3. \/ /\ transcurrido' = total
             /\ UNCHANGED <<consola, recepcion, kernel, hay_interrupciones, pid_en_ejecucion,
                            atendiendo_interrupcion, contador_rafaga, desplazado>>
          \/ /\ transcurrido' = 0 /\ contador_rafaga' = suma
             /\ atendiendo_interrupcion' = TRUE
             /\ UNCHANGED <<consola, recepcion, kernel, hay_interrupciones, pid_en_ejecucion,
                            desplazado>>
      BY <1>9 DEF EjecutarInstruccion, Entregar
    <3>4. total \in Nat /\ suma \in Nat
      BY <3>1
    <3> HIDE DEF total, suma
    <3>5. transcurrido' \in Nat /\ contador_rafaga' \in Nat
      BY <3>1, <3>3, <3>4
    <3>6. atendiendo_interrupcion' \in BOOLEAN
      BY <3>2, <3>3, Zenon
    <3>7. UNCHANGED <<consola, recepcion, kernel, hay_interrupciones, pid_en_ejecucion,
                      desplazado>>
      BY <3>3, Zenon
    <3> QED BY <3>5, <3>6, <3>7
  <2> QED BY <1>0, <2>3, <2>4 DEF consola, recepcion, kernel
<1>10. CASE EjecutarIO
  BY <1>0, <1>10 DEF EjecutarIO, Entregar, Anotar, consola, recepcion, kernel
<1>11. CASE EjecutarExit
  BY <1>0, <1>11 DEF EjecutarExit, Entregar, Anotar, consola, recepcion, kernel
<1>12. CASE Terminado
  BY <1>0, <1>12 DEF Terminado, vars, consola, recepcion, kernel, canales, cpu, historia
<1> QED BY <1>1, <1>2, <1>3, <1>4, <1>5, <1>6, <1>7, <1>8, <1>9, <1>10, <1>11, <1>12
        DEF Next, Kernel, Planificar, Cpu

-----------------------------------------------------------------------------
(* A console and its handler: what was sent is what was read, what is on   *)
(* the socket, and nothing else.                                           *)
Etapa(c) == SinEmpezar(c) \/ ConTamanio(c) \/ Recibiendo(c) \/ Recibida(c)

(* A step about other consoles.                                            *)
LEMMA EtapaAjena ==
  ASSUME NEW c \in Consolas, Etapa(c),
         archivo'[c] = archivo[c], tam_pedido'[c] = tam_pedido[c], enviado'[c] = enviado[c],
         socket'[c] = socket[c], handler'[c] = handler[c]
  PROVE  Etapa(c)'
<1>1. Cola(c)' = Cola(c) /\ LineasEnviadas(c)' = LineasEnviadas(c)
  BY DEF Cola, LineasEnviadas
<1>2. Hechas(c)' = Hechas(c)
  BY <1>1 DEF Hechas
<1> QED BY <1>1, <1>2 DEF Etapa, SinEmpezar, ConTamanio, Recibiendo, Recibida

(* The console sends instructions more, or the end.                        *)
LEMMA EtapaCrece ==
  ASSUME Tipos, Recepcion, NEW c \in Consolas,
         enviado[c] # 0, enviado[c] # Len(archivo[c]) + 2, enviado'[c] # 0,
         NEW mas \in Seq(Instrucciones), Cola(c)' \in Seq(Int),
         NEW w, w = Enviadas(mas) \o Cola(c)', socket'[c] = socket[c] \o w,
         Hechas(c)' = Hechas(c) \o mas,
         tam_pedido'[c] = tam_pedido[c], handler'[c] = handler[c]
  PROVE  Etapa(c)'
<1> DEFINE cola == Cola(c)'
           x == Enviadas(mas)
<1>1. Cola(c) = <<>>
  BY DEF Cola
<1>2. x \in Seq(Int)
  BY EnviadasTipo
<1>3. cola \in Seq(Int) /\ w = x \o cola
  OBVIOUS
<1>4. ASSUME NEW s \in Seq(Instrucciones)
      PROVE  (Enviadas(s) \o Cola(c)) \o w = Enviadas(s \o mas) \o cola
  <2> DEFINE e == Enviadas(s)
  <2>1. e \in Seq(Int) /\ Enviadas(s \o mas) = e \o x
    BY <1>4, EnviadasTipo, EnviadasUnidas
  <2>2. e \o <<>> = e
    BY <2>1
  <2> HIDE DEF e, x, cola
  <2>3. (e \o x) \o cola = e \o (x \o cola)
    <3>1. TresListas(Int, e, x, cola)
      BY <1>2, <1>3, <2>1 DEF TresListas
    <3>2. SeAsocian(e, x, cola)
      BY <3>1, Asociadas
    <3> QED BY <3>2 DEF SeAsocian
  <2>4. (e \o Cola(c)) \o w = e \o (x \o cola)
    BY <1>1, <1>3, <2>2
  <2> QED BY <2>1, <2>3, <2>4 DEF e
<1>5. ConTamanio(c) \/ Recibiendo(c)
  BY DEF Recepcion, SinEmpezar, Recibida
<1>6. CASE ConTamanio(c)
  <2> DEFINE t == <<tam_pedido[c]>>
             v == Enviadas(Hechas(c)) \o Cola(c)
  <2>1. Hechas(c) \in Seq(Instrucciones) /\ v \in Seq(Int) /\ t \in Seq(Int)
    BY <1>6, HechasTipo, ArchivoDe
  <2>2. w \in Seq(Int)
    BY <1>2, <1>3
  <2>3. socket[c] = t \o v
    BY <1>6 DEF ConTamanio
  <2>4. v \o w = Enviadas(Hechas(c) \o mas) \o cola
    BY <1>4, <2>1
  <2> HIDE DEF t, v, cola
  <2>5. (t \o v) \o w = t \o (v \o w)
    <3>1. TresListas(Int, t, v, w)
      BY <2>1, <2>2 DEF TresListas
    <3>2. SeAsocian(t, v, w)
      BY <3>1, Asociadas
    <3> QED BY <3>2 DEF SeAsocian
  <2>6. socket'[c] = t \o (Enviadas(Hechas(c)') \o Cola(c)')
    BY <2>3, <2>4, <2>5 DEF cola
  <2> QED BY <1>6, <2>6 DEF Etapa, ConTamanio, t
<1>7. CASE Recibiendo(c)
  <2>1. PICK pend \in Seq(Instrucciones) : /\ Hechas(c) = handler[c].instrucciones \o pend
                                           /\ socket[c] = Enviadas(pend) \o Cola(c)
    BY <1>7 DEF Recibiendo
  <2>2. handler[c].instrucciones \in Seq(Instrucciones)
    BY ArchivoDe DEF Handlers
  <2> DEFINE h == handler[c].instrucciones
  <2> HIDE DEF h
  <2>3. (h \o pend) \o mas = h \o (pend \o mas)
    <3>1. TresListas(Instrucciones, h, pend, mas)
      BY <2>2 DEF TresListas, h
    <3>2. SeAsocian(h, pend, mas)
      BY <3>1, Asociadas
    <3> QED BY <3>2 DEF SeAsocian
  <2>4. Hechas(c)' = handler'[c].instrucciones \o (pend \o mas)
    BY <2>1, <2>3 DEF h
  <2>5. socket'[c] = Enviadas(pend \o mas) \o Cola(c)'
    BY <1>4, <2>1
  <2>6. pend \o mas \in Seq(Instrucciones)
    OBVIOUS
  <2> QED BY <1>7, <2>4, <2>5, <2>6 DEF Etapa, Recibiendo
<1> QED BY <1>5, <1>6, <1>7

(* The three sends of the console.                                         *)
LEMMA EtapaConsola ==
  ASSUME IndInv, NEW c \in Consolas, Consola(c)
  PROVE  Etapa(c)'
<1>0. Tipos /\ Recepcion
  BY DEF IndInv
<1> DEFINE a == archivo[c]
           n == enviado[c]
<1>1. /\ EsArchivo(a) /\ Len(a) \in Nat \ {0} /\ DOMAIN a = 1 .. Len(a)
      /\ \A k \in 1 .. Len(a) : InstruccionesDe(a[k]) \in Seq(Instrucciones)
      /\ tam_pedido[c] \in Int /\ n \in Nat
  BY <1>0, ArchivoDe
<1>2. enviado \in [Consolas -> Nat] /\ DOMAIN socket = Consolas
  BY <1>0 DEF Tipos
<1>3. ASSUME NEW w, Enviar(c, w)
      PROVE  /\ enviado'[c] = n + 1 /\ socket'[c] = socket[c] \o w
             /\ archivo' = archivo /\ tam_pedido' = tam_pedido /\ handler' = handler
  BY <1>2, <1>3 DEF Enviar
<1>4. CASE EnviarTamProceso(c)
  <2>1. n = 0 /\ Enviar(c, <<tam_pedido[c]>>)
    BY <1>4 DEF EnviarTamProceso
  <2>2. handler[c].paso = "tam" /\ handler[c].instrucciones = <<>> /\ socket[c] = <<>>
    <3>1. Len(archivo[c]) + 2 # 0
      BY <1>1
    <3> QED BY <1>0, <2>1, <3>1
            DEF Recepcion, SinEmpezar, ConTamanio, Recibiendo, Recibida
  <2>3. enviado'[c] = 1 /\ archivo' = archivo /\ tam_pedido' = tam_pedido /\ handler' = handler
        /\ socket'[c] = <<>> \o <<tam_pedido[c]>>
    BY <1>1, <1>3, <2>1, <2>2
  <2>4. LineasEnviadas(c)' = 0 /\ Cola(c)' = <<>>
    BY <1>1, <2>3 DEF LineasEnviadas, Cola
  <2>5. Hechas(c)' = <<>>
    BY <2>4, HastaNada DEF Hechas
  <2>6. socket'[c] = <<tam_pedido[c]>> /\ <<tam_pedido[c]>> \in Seq(Int)
    BY <1>1, <2>3
  <2>7. Enviadas(Hechas(c)') \o Cola(c)' = <<>>
    BY <2>4, <2>5, EnviadasNada
  <2>8. socket'[c] = <<tam_pedido[c]>> \o <<>>
    BY <2>6
  <2> QED BY <2>2, <2>3, <2>7, <2>8 DEF Etapa, ConTamanio
<1>5. CASE EnviarLineaDe(c)
  <2> DEFINE mas == InstruccionesDe(a[n])
  <2>1. n \in 1 .. Len(a) /\ Enviar(c, EnviarLinea(a[n]))
    BY <1>1, <1>5 DEF EnviarLineaDe
  <2>2. mas \in Seq(Instrucciones)
    BY <1>1, <2>1
  <2>3. EnviarLinea(a[n]) = Enviadas(mas)
    BY DEF EnviarLinea, Enviadas, EnviadaCadaUna
  <2>4. /\ enviado'[c] = n + 1 /\ socket'[c] = socket[c] \o Enviadas(mas)
        /\ archivo' = archivo /\ tam_pedido' = tam_pedido /\ handler' = handler
    BY <1>3, <2>1, <2>3
  <2>5. /\ LineasEnviadas(c) = n - 1 /\ LineasEnviadas(c)' = (n - 1) + 1
        /\ Cola(c)' = <<>>
    BY <1>1, <2>1, <2>4 DEF LineasEnviadas, Cola
  <2>6. Hechas(c)' = Hechas(c) \o mas
    <3> DEFINE m == n - 1
    <3>1. m \in Nat /\ m + 1 = n
      BY <2>1
    <3>2. \A k \in 1 .. m + 1 : InstruccionesDe(a[k]) \in Seq(Instrucciones)
      BY <1>1, <2>1, <3>1
    <3> HIDE DEF a, n, m
    <3>3. Hasta(a, m + 1) = Hasta(a, m) \o InstruccionesDe(a[m + 1])
      BY <3>1, <3>2, HastaMas
    <3> QED BY <2>4, <2>5, <3>1, <3>3 DEF Hechas, a, m
  <2>7. Enviadas(mas) \in Seq(Int)
    BY <2>2, EnviadasTipo
  <2> HIDE DEF mas
  <2>8. Enviadas(mas) = Enviadas(mas) \o Cola(c)'
    BY <2>5, <2>7
  <2>9. enviado[c] # 0 /\ enviado[c] # Len(archivo[c]) + 2 /\ enviado'[c] # 0
        /\ Cola(c)' \in Seq(Int)
    BY <1>1, <2>1, <2>4, <2>5
  <2> QED BY <1>0, <2>2, <2>4, <2>6, <2>8, <2>9, EtapaCrece
<1>6. CASE EnviarFin(c)
  <2>1. n = Len(a) + 1 /\ Enviar(c, <<FIN>>)
    BY <1>6 DEF EnviarFin
  <2>2. /\ enviado'[c] = n + 1 /\ socket'[c] = socket[c] \o <<FIN>>
        /\ archivo' = archivo /\ tam_pedido' = tam_pedido /\ handler' = handler
    BY <1>3, <2>1
  <2>3. /\ LineasEnviadas(c) = Len(a) /\ LineasEnviadas(c)' = Len(a)
        /\ Cola(c)' = <<FIN>>
    BY <1>1, <2>1, <2>2 DEF LineasEnviadas, Cola
  <2>4. Hechas(c) \in Seq(Instrucciones)
    BY <1>0, HechasTipo
  <2>5. Hechas(c)' = Hechas(c)
    BY <2>2, <2>3 DEF Hechas
  <2>6. Hechas(c)' = Hechas(c) \o <<>>
    BY <2>4, <2>5
  <2>7. <<FIN>> = Enviadas(<<>>) \o Cola(c)' /\ Cola(c)' \in Seq(Int)
    BY <2>3, EnviadasNada DEF FIN
  <2>8. enviado[c] # 0 /\ enviado[c] # Len(archivo[c]) + 2 /\ enviado'[c] # 0
    BY <1>1, <2>1, <2>2
  <2> DEFINE nada == <<>>
             fin == <<FIN>>
  <2>9. nada \in Seq(Instrucciones) /\ fin = Enviadas(nada) \o Cola(c)'
        /\ Hechas(c)' = Hechas(c) \o nada /\ socket'[c] = socket[c] \o fin
    BY <2>2, <2>6, <2>7
  <2> HIDE DEF nada, fin
  <2> QED BY <1>0, <2>2, <2>7, <2>8, <2>9, EtapaCrece
<1> QED BY <1>4, <1>5, <1>6 DEF Consola

(* The steps of the handler.                                               *)
LEMMA EtapaHandler ==
  ASSUME IndInv, NEW c \in Consolas, Handler(c)
  PROVE  Etapa(c)'
<1>0. Tipos /\ Recepcion
  BY DEF IndInv
<1>1. handler \in [Consolas -> Handlers] /\ DOMAIN socket = Consolas
  BY <1>0 DEF Tipos
<1>2. ASSUME UNCHANGED consola
      PROVE  /\ UNCHANGED <<archivo, tam_pedido, enviado>>
             /\ Hechas(c)' = Hechas(c) /\ Cola(c)' = Cola(c)
  BY <1>2 DEF consola, Hechas, LineasEnviadas, Cola
<1>3. CASE RecibirTam(c)
  <2>1. /\ enviado[c] # 0 /\ Head(socket[c]) = tam_pedido[c]
        /\ Tail(socket[c]) = Enviadas(Hechas(c)) \o Cola(c)
        /\ handler[c].instrucciones = <<>>
    BY <1>0, <1>3, SocketTam DEF RecibirTam
  <2>2. /\ handler'[c].paso = "instrucciones" /\ handler'[c].tam_proceso = tam_pedido[c]
        /\ handler'[c].instrucciones = <<>>
        /\ socket'[c] = Enviadas(Hechas(c)) \o Cola(c)
    BY <1>1, <1>3, <2>1 DEF RecibirTam, Handlers
  <2>3. Hechas(c) \in Seq(Instrucciones)
    BY <1>0, HechasTipo
  <2>4. Hechas(c) = <<>> \o Hechas(c)
    BY <2>3
  <2>5. UNCHANGED consola
    BY <1>3 DEF RecibirTam
  <2> QED BY <1>2, <2>1, <2>2, <2>3, <2>4, <2>5 DEF Etapa, Recibiendo
<1>4. CASE RecibirInstruccion(c)
  <2> DEFINE ins == LeerInstruccion(SubSeq(socket[c], 1, PalabrasDe(Head(socket[c]))))
  <2>1. PICK pend \in Seq(Instrucciones) :
          /\ Hechas(c) = Append(handler[c].instrucciones, ins) \o pend
          /\ Desde(socket[c], PalabrasDe(Head(socket[c])) + 1) = Enviadas(pend) \o Cola(c)
    BY <1>0, <1>4, SocketInstruccion DEF RecibirInstruccion
  <2>2. /\ handler'[c].paso = "instrucciones"
        /\ handler'[c].tam_proceso = handler[c].tam_proceso
        /\ handler'[c].instrucciones = Append(handler[c].instrucciones, ins)
        /\ socket'[c] = Desde(socket[c], PalabrasDe(Head(socket[c])) + 1)
    <3>1. /\ handler' = [handler EXCEPT ![c].instrucciones = Append(@, ins)]
          /\ socket' = [socket EXCEPT ![c] = Desde(@, PalabrasDe(Head(socket[c])) + 1)]
          /\ handler[c].paso = "instrucciones"
      BY <1>4 DEF RecibirInstruccion
    <3> HIDE DEF ins
    <3>2. handler[c] \in Handlers
      BY <1>1
    <3> QED BY <1>1, <3>1, <3>2 DEF Handlers
  <2>3. enviado[c] # 0 /\ handler[c].tam_proceso = tam_pedido[c]
    BY <1>0, <1>4, SocketPendiente DEF RecibirInstruccion
  <2>4. UNCHANGED consola
    BY <1>4 DEF RecibirInstruccion
  <2> HIDE DEF ins
  <2> QED BY <1>2, <2>1, <2>2, <2>3, <2>4 DEF Etapa, Recibiendo
<1>5. CASE CrearProceso(c)
  <2>1. /\ enviado[c] = Len(archivo[c]) + 2
        /\ Tail(socket[c]) = <<>>
        /\ handler[c].tam_proceso = tam_pedido[c]
        /\ handler[c].instrucciones = Hechas(c)
    BY <1>0, <1>5, SocketFin DEF CrearProceso
  <2>2. /\ handler'[c].paso = "terminado" /\ handler'[c].tam_proceso = tam_pedido[c]
        /\ handler'[c].instrucciones = Hechas(c)
        /\ socket'[c] = <<>>
    BY <1>1, <1>5, <2>1 DEF CrearProceso, Handlers
  <2>3. UNCHANGED consola
    BY <1>5 DEF CrearProceso
  <2> QED BY <1>2, <2>1, <2>2, <2>3 DEF Etapa, Recibida
<1>6. CASE Registrar(c)
  <2>1. UNCHANGED <<archivo, tam_pedido, enviado, socket, handler>>
    BY <1>6 DEF Registrar, consola, recepcion
  <2>2. Etapa(c)
    BY <1>0 DEF Recepcion, Etapa
  <2> QED BY <2>1, <2>2, EtapaAjena
<1> QED BY <1>3, <1>4, <1>5, <1>6 DEF Handler

(* What was sent is what was read and what is on the socket.               *)
LEMMA PasoRecepcion ==
  ASSUME IndInv, Next
  PROVE  Recepcion'
<1>0. Tipos /\ \A d \in Consolas : Etapa(d)
  BY DEF IndInv, Recepcion, Etapa
<1>1. SUFFICES \A d \in Consolas : Etapa(d)'
  BY DEF Recepcion, Etapa
<1>2. ASSUME NEW c \in Consolas, Consola(c) \/ Handler(c) PROVE \A d \in Consolas : Etapa(d)'
  <2>1. Etapa(c)'
    BY <1>2, EtapaConsola, EtapaHandler
  <2>2. ASSUME NEW d \in Consolas, d # c PROVE Etapa(d)'
    <3>1. archivo' = archivo /\ tam_pedido' = tam_pedido
      BY <1>2 DEF Consola, EnviarTamProceso, EnviarLineaDe, EnviarFin, Enviar, Handler,
                  RecibirTam, RecibirInstruccion, CrearProceso, Registrar, consola
    <3>2. enviado'[d] = enviado[d]
      BY <1>0, <1>2, <2>2 DEF Consola, EnviarTamProceso, EnviarLineaDe, EnviarFin, Enviar,
                  Handler, RecibirTam, RecibirInstruccion, CrearProceso, Registrar, consola,
                  Tipos
    <3>3. socket'[d] = socket[d]
      BY <1>0, <1>2, <2>2 DEF Consola, EnviarTamProceso, EnviarLineaDe, EnviarFin, Enviar,
                  Handler, RecibirTam, RecibirInstruccion, CrearProceso, Registrar,
                  recepcion, Tipos
    <3>4. handler'[d] = handler[d]
      BY <1>0, <1>2, <2>2 DEF Consola, EnviarTamProceso, EnviarLineaDe, EnviarFin, Enviar,
                  Handler, RecibirTam, RecibirInstruccion, CrearProceso, Registrar,
                  recepcion, Tipos
    <3> QED BY <1>0, <3>1, <3>2, <3>3, <3>4, EtapaAjena
  <2> QED BY <2>1, <2>2
<1>3. ASSUME UNCHANGED <<archivo, tam_pedido, enviado, socket, handler>>
      PROVE  \A d \in Consolas : Etapa(d)'
  BY <1>0, <1>3, EtapaAjena
<1>4. ASSUME \/ \E p \in Pids : Admitir(p) \/ Despachar(p) \/ Desbloquear(p)
             \/ RecibirBloqueo \/ RecibirInterrumpido \/ RecibirExit
             \/ Interrumpir \/ Cpu \/ Terminado
      PROVE  UNCHANGED <<archivo, tam_pedido, enviado, socket, handler>>
  BY <1>4 DEF Admitir, Despachar, Desbloquear, RecibirBloqueo, RecibirInterrumpido,
              RecibirExit, Interrumpir, Cpu, Recibir, EjecutarInstruccion, EjecutarIO,
              EjecutarExit, Entregar, Terminado, vars, consola, recepcion
<1> QED BY <1>2, <1>3, <1>4 DEF Next, Kernel, Planificar

-----------------------------------------------------------------------------
(* The pids, the consoles and the answers are as many.                     *)

(* A step that keeps who exists, who has a table and who has ended.        *)
LEMMA ProcesosIgual ==
  ASSUME Procesos,
         \A c \in Consolas : /\ handler'[c].paso = "terminado" <=> handler[c].paso = "terminado"
                             /\ handler'[c].pid_creado = handler[c].pid_creado,
         pid_contador' = pid_contador, tablas_creadas' = tablas_creadas,
         avisada' = avisada,
         \A p \in Pids :
           /\ estado'[p] = "inexistente" <=> estado[p] = "inexistente"
           /\ estado'[p] = "new" <=> estado[p] = "new"
           /\ estado[p] = "exit" => estado'[p] = "exit"
  PROVE  Procesos'
<1>1. {c \in Consolas : handler[c].paso = "terminado"}'
        = {c \in Consolas : handler[c].paso = "terminado"}
  OBVIOUS
<1>2. {p \in Pids : estado[p] \notin {"inexistente", "new"}}'
        = {p \in Pids : estado[p] \notin {"inexistente", "new"}}
  OBVIOUS
<1>3. \A c \in Consolas, p \in Pids : Duenia(c, p)' <=> Duenia(c, p)
  BY DEF Duenia
<1> QED BY <1>1, <1>2, <1>3 DEF Procesos

(* A process more.                                                         *)
LEMMA ProcesosCrear ==
  ASSUME IndInv, NEW c \in Consolas, CrearProceso(c)
  PROVE  Procesos'
<1>0. Tipos /\ Procesos
  BY DEF IndInv
<1>1. handler[c].paso = "instrucciones"
  BY DEF CrearProceso
<1> DEFINE T == {d \in Consolas : handler[d].paso = "terminado"}
<1>2. /\ PidNuevo \in Pids /\ PidNuevo \in Int /\ PidNuevo # Nadie
      /\ estado[PidNuevo] = "inexistente"
      /\ pid_contador \in Nat
      /\ IsFiniteSet(T)
  BY <1>1, PidLibre
<1>3. /\ handler'[c].paso = "terminado" /\ handler'[c].pid_creado = PidNuevo
      /\ \A d \in Consolas : d # c => handler'[d] = handler[d]
      /\ pid_contador' = PidNuevo /\ PidNuevo = pid_contador + 1
      /\ estado'[PidNuevo] = "new"
      /\ \A p \in Pids : p # PidNuevo => estado'[p] = estado[p]
      /\ UNCHANGED <<tablas_creadas, avisada>>
  BY <1>0, <1>2 DEF CrearProceso, Tipos, Handlers, consola, PidNuevo
<1>4. {d \in Consolas : handler[d].paso = "terminado"}' = T \union {c}
  BY <1>3
<1>5. c \notin T /\ pid_contador = Cardinality(T)
  BY <1>0, <1>1 DEF Procesos
<1>6. Cardinality(T \union {c}) = Cardinality(T) + 1
  BY <1>2, <1>5, FS_AddElement
<1>7. {p \in Pids : estado[p] \notin {"inexistente", "new"}}'
        = {p \in Pids : estado[p] \notin {"inexistente", "new"}}
  BY <1>2, <1>3
<1>8. \A p \in Pids : Duenia(c, p)' <=> p = PidNuevo
  BY <1>3 DEF Duenia
<1>9. \A d \in Consolas, p \in Pids : d # c => (Duenia(d, p)' <=> Duenia(d, p))
  BY <1>3 DEF Duenia
<1>10. \A d \in Consolas : ~Duenia(d, PidNuevo)
  BY <1>0, <1>2 DEF Procesos
<1>11. \A p \in Pids : ~Duenia(c, p)
  BY <1>0, <1>1, PidEsNumero DEF Procesos, Duenia
<1>12. ~avisada[c]
  BY <1>0, <1>11 DEF Procesos
<1> HIDE DEF T
<1>13. \A d \in Consolas : handler'[d].paso = "terminado" <=> handler'[d].pid_creado # Nadie
  BY <1>0, <1>2, <1>3 DEF Procesos
<1>14. pid_contador' = Cardinality({d \in Consolas : handler[d].paso = "terminado"}')
  BY <1>3, <1>4, <1>5, <1>6
<1>15. \A p \in Pids : estado'[p] = "inexistente" <=> p > pid_contador'
  <2>1. \A p \in Pids : p \in Int
    BY PidEsNumero
  <2> QED BY <1>0, <1>2, <1>3, <2>1 DEF Procesos
<1>16. \A p \in Pids : estado'[p] = "inexistente" => \A d \in Consolas : ~Duenia(d, p)'
  <2> SUFFICES ASSUME NEW p \in Pids, estado'[p] = "inexistente", NEW d \in Consolas
               PROVE  ~Duenia(d, p)'
    OBVIOUS
  <2>1. p # PidNuevo
    BY <1>3
  <2>2. estado[p] = "inexistente"
    BY <1>3, <2>1
  <2>3. ~Duenia(d, p)
    BY <1>0, <2>2, Zenon DEF Procesos
  <2> QED BY <1>8, <1>9, <2>1, <2>3, Zenon
<1>17. \A p \in Pids : estado'[p] # "inexistente" => \E d \in Consolas : Duenia(d, p)'
  <2> SUFFICES ASSUME NEW p \in Pids, estado'[p] # "inexistente"
               PROVE  \E d \in Consolas : Duenia(d, p)'
    OBVIOUS
  <2>1. CASE p = PidNuevo
    BY <1>8, <2>1, Zenon
  <2>2. CASE p # PidNuevo
    <3>1. estado[p] # "inexistente"
      BY <1>3, <2>2
    <3>2. PICK d \in Consolas : Duenia(d, p)
      BY <1>0, <3>1, Zenon DEF Procesos
    <3>3. d # c
      BY <1>11, <3>2
    <3> QED BY <1>9, <3>2, <3>3, Zenon
  <2> QED BY <2>1, <2>2
<1>18. \A p \in Pids : \A d, e \in Consolas : Duenia(d, p)' /\ Duenia(e, p)' => d = e
  BY <1>0, <1>8, <1>9, <1>10 DEF Procesos
<1>19. ASSUME NEW d \in Consolas, NEW p \in Pids, Duenia(d, p)', avisada'[d]
       PROVE  estado'[p] = "exit"
  <2>1. avisada' = avisada
    BY DEF CrearProceso, consola
  <2>2. avisada[d]
    BY <1>19, <2>1, Zenon
  <2>3. d # c
    BY <1>12, <2>2, Zenon
  <2>4. Duenia(d, p)
    BY <1>9, <1>19, <2>3
  <2>5. estado[p] = "exit"
    BY <1>0, <2>2, <2>4, Zenon DEF Procesos
  <2> QED BY <1>2, <1>3, <2>5
<1>20. ASSUME NEW d \in Consolas, avisada'[d] PROVE \E p \in Pids : Duenia(d, p)'
  <2>1. avisada[d]
    <3>1. avisada' = avisada
      BY DEF CrearProceso, consola
    <3>2. avisada'[d]
      BY <1>20, Zenon
    <3> QED BY <3>1, <3>2, Zenon
  <2>2. d # c
    BY <1>12, <2>1, Zenon
  <2>3. PICK p \in Pids : Duenia(d, p)
    BY <1>0, <2>1, Zenon DEF Procesos
  <2> QED BY <1>9, <2>2, <2>3
<1>21. tablas_creadas' = Cardinality({p \in Pids : estado[p] \notin {"inexistente", "new"}}')
  BY <1>0, <1>3, <1>7 DEF Procesos
<1> QED BY <1>13, <1>14, <1>15, <1>16, <1>17, <1>18, <1>19, <1>20, <1>21 DEF Procesos

(* A process that gets its table is one more that has it, and finds a      *)
(* number that memory has not given all its consoles yet.                  *)
LEMMA TablaLibre ==
  ASSUME IndInv, NEW p \in Pids, estado[p] = "new"
  PROVE  /\ tablas_creadas \in 0 .. Cardinality(Consolas) - 1
         /\ LET S == {q \in Pids : estado[q] \notin {"inexistente", "new"}}
            IN  Cardinality(S \union {p}) = tablas_creadas + 1
<1> DEFINE S == {q \in Pids : estado[q] \notin {"inexistente", "new"}}
           n == Cardinality(Consolas)
<1>1. n \in Nat
  BY ConsolasAssumption, FS_CardinalityType
<1>2. IsFiniteSet(Pids) /\ Cardinality(Pids) = n
  <2> HIDE DEF n
  <2>1. IsFiniteSet(1 .. n) /\ Cardinality(1 .. n) = n
    BY <1>1, FS_Interval
  <2> QED BY <2>1 DEF Pids, n
<1>3. S \subseteq Pids /\ p \notin S
  OBVIOUS
<1>4. tablas_creadas = Cardinality(S)
  BY DEF IndInv, Procesos
<1> HIDE DEF S, n
<1>5. /\ IsFiniteSet(S) /\ Cardinality(S) \in Nat /\ Cardinality(S) <= n
      /\ Cardinality(S) # n
  BY <1>2, <1>3, FS_Subset, FS_CardinalityType
<1>6. Cardinality(S \union {p}) = Cardinality(S) + 1
  BY <1>3, <1>5, FS_AddElement
<1> QED BY <1>1, <1>4, <1>5, <1>6 DEF S, n

(* The kernel's actions on the states of processes.                        *)
LEMMA PasoProcesos ==
  ASSUME IndInv, Next
  PROVE  Procesos'
<1>0. Tipos /\ Procesos
  BY DEF IndInv
<1>1. ASSUME NEW c \in Consolas, Consola(c) PROVE Procesos'
  BY <1>0, <1>1, ProcesosIgual
     DEF Consola, EnviarTamProceso, EnviarLineaDe, EnviarFin, Enviar, kernel
<1>2. ASSUME NEW c \in Consolas, RecibirTam(c) PROVE Procesos'
  <2>1. \A d \in Consolas : /\ handler'[d].paso = "terminado" <=> handler[d].paso = "terminado"
                            /\ handler'[d].pid_creado = handler[d].pid_creado
    BY <1>0, <1>2 DEF RecibirTam, Tipos, Handlers
  <2> QED BY <1>0, <1>2, <2>1, ProcesosIgual DEF RecibirTam, kernel, consola
<1>3. ASSUME NEW c \in Consolas, RecibirInstruccion(c) PROVE Procesos'
  <2>1. \A d \in Consolas : /\ handler'[d].paso = "terminado" <=> handler[d].paso = "terminado"
                            /\ handler'[d].pid_creado = handler[d].pid_creado
    BY <1>0, <1>3 DEF RecibirInstruccion, Tipos, Handlers
  <2> QED BY <1>0, <1>3, <2>1, ProcesosIgual DEF RecibirInstruccion, kernel, consola
<1>r. ASSUME NEW c \in Consolas, Registrar(c) PROVE Procesos'
  BY <1>0, <1>r, ProcesosIgual DEF Registrar, recepcion, consola
<1>4. ASSUME NEW p \in Pids, Admitir(p) PROVE Procesos'
  <2> DEFINE S == {q \in Pids : estado[q] \notin {"inexistente", "new"}}
  <2>1. /\ estado[p] = "new" /\ estado'[p] = "ready"
        /\ \A q \in Pids : q # p => estado'[q] = estado[q]
        /\ tablas_creadas' = tablas_creadas + 1
        /\ UNCHANGED <<handler, pid_contador, avisada>>
    BY <1>0, <1>4 DEF Admitir, Tipos, recepcion, consola
  <2>2. {q \in Pids : estado[q] \notin {"inexistente", "new"}}' = S \union {p}
    BY <2>1
  <2>3. Cardinality(S \union {p}) = tablas_creadas + 1
    BY <2>1, TablaLibre
  <2> HIDE DEF S
  <2>4. \A c \in Consolas, q \in Pids : Duenia(c, q)' <=> Duenia(c, q)
    BY <2>1 DEF Duenia
  <2>5. tablas_creadas' = Cardinality({q \in Pids : estado[q] \notin {"inexistente", "new"}}')
    BY <2>1, <2>2, <2>3
  <2> QED BY <1>0, <2>1, <2>4, <2>5 DEF Procesos
<1>5. ASSUME NEW p \in Pids, Despachar(p) \/ Desbloquear(p) PROVE Procesos'
  BY <1>0, <1>5, ProcesosIgual DEF Despachar, Desbloquear, Tipos, recepcion, consola
<1>6. ASSUME running \in Pids,
             \E e \in {"ready", "bloqueado"} : estado' = [estado EXCEPT ![running] = e],
             UNCHANGED <<handler, pid_contador, tablas_creadas, avisada>>
      PROVE  Procesos'
  <2>1. estado[running] = "running"
    BY <1>6 DEF IndInv, Lugares
  <2> QED BY <1>0, <1>6, <2>1, ProcesosIgual DEF Tipos
<1>7. CASE RecibirBloqueo
  <2>1. PICK x \in Pcbs(Instrucciones) : /\ running \in Pids /\ x.id = running
                                         /\ LeerPcb(Desde(dispatch_kernel, 4)) = x
    BY <1>7, LugarDeBloqueo DEF RecibirBloqueo, Intacto
  <2> QED BY <1>6, <1>7, <2>1 DEF RecibirBloqueo, consola, recepcion
<1>8. CASE RecibirInterrumpido
  <2>1. PICK x \in Pcbs(Instrucciones) : /\ running \in Pids /\ x.id = running
                                         /\ LeerPcb(Desde(dispatch_kernel, 3)) = x
    BY <1>8, LugarDeInterrupcion DEF RecibirInterrumpido, Intacto
  <2> QED BY <1>6, <1>8, <2>1 DEF RecibirInterrumpido, consola, recepcion
<1>9. CASE RecibirExit
  <2>1. running \in Pids
    BY <1>9, LugarDeExit DEF RecibirExit
  <2>2. estado[running] = "running"
    BY <2>1 DEF IndInv, Lugares
  <2>n. ASSUME avisada' = avisada PROVE Procesos'
    <3>1. estado' = [estado EXCEPT ![running] = "exit"]
          /\ UNCHANGED <<handler, pid_contador, tablas_creadas>>
      BY <1>9 DEF RecibirExit, recepcion
    <3>2. DOMAIN estado = Pids
      BY <1>0 DEF Tipos
    <3>3. \A p \in Pids :
            /\ estado'[p] = "inexistente" <=> estado[p] = "inexistente"
            /\ estado'[p] = "new" <=> estado[p] = "new"
            /\ estado[p] = "exit" => estado'[p] = "exit"
      BY <2>1, <2>2, <3>1, <3>2
    <3>4. /\ \A c \in Consolas :
               /\ handler'[c].paso = "terminado" <=> handler[c].paso = "terminado"
               /\ handler'[c].pid_creado = handler[c].pid_creado
          /\ pid_contador' = pid_contador /\ tablas_creadas' = tablas_creadas
      BY <3>1
    <3> QED BY <1>0, <2>n, <3>3, <3>4, ProcesosIgual
  <2> SUFFICES ASSUME avisada' # avisada PROVE Procesos'
    BY <2>n
  <2>3. PICK k \in DOMAIN relaciones :
          /\ relaciones[k].pid = running
          /\ avisada' = [avisada EXCEPT ![relaciones[k].conexion_consola] = TRUE]
    BY <1>9 DEF RecibirExit, AvisarConsola
  <2>4. PICK c \in Consolas : c = relaciones[k].conexion_consola /\ Duenia(c, running)
    <3>1. relaciones \in Seq(Vigentes) /\ k \in DOMAIN relaciones
      BY <2>3 DEF IndInv, Relaciones
    <3>2. relaciones[k] \in Vigentes
      BY <3>1
    <3>3. relaciones[k].conexion_consola \in Consolas /\ relaciones[k].pid = running
          /\ Duenia(relaciones[k].conexion_consola, relaciones[k].pid)
      BY <2>3, <3>2 DEF Vigentes
    <3>4. Duenia(relaciones[k].conexion_consola, running)
      BY <3>3
    <3> QED BY <3>3, <3>4, Zenon
  <2>5. /\ avisada' = [avisada EXCEPT ![c] = TRUE] /\ estado' = [estado EXCEPT ![running] = "exit"]
        /\ UNCHANGED <<handler, pid_contador, tablas_creadas>>
    BY <1>9, <2>3, <2>4 DEF RecibirExit, recepcion
  <2>6. \A d \in Consolas, p \in Pids : Duenia(d, p)' <=> Duenia(d, p)
    BY <2>5 DEF Duenia
  <2>7. {p \in Pids : estado[p] \notin {"inexistente", "new"}}'
          = {p \in Pids : estado[p] \notin {"inexistente", "new"}}
    BY <1>0, <2>1, <2>2, <2>5 DEF Tipos
  <2>8. \A d \in Consolas : d # c => avisada'[d] = avisada[d]
    BY <1>0, <2>5 DEF Tipos
  <2>9. \A d \in Consolas, p \in Pids : Duenia(d, p) /\ avisada'[d] => estado'[p] = "exit"
    <3>1. \A p \in Pids : Duenia(c, p) => p = running
      BY <2>4 DEF Duenia
    <3> QED BY <1>0, <2>1, <2>5, <2>8, <3>1 DEF Procesos, Tipos
  <2>10. ASSUME NEW d \in Consolas, avisada'[d] PROVE \E p \in Pids : Duenia(d, p)
    <3>1. CASE d = c
      BY <2>1, <2>4, <3>1
    <3>2. CASE d # c
      <4>1. avisada[d]
        BY <2>8, <2>10, <3>2, Zenon
      <4> QED BY <1>0, <4>1, Zenon DEF Procesos
    <3> QED BY <3>1, <3>2
  <2>11. \A p \in Pids : estado'[p] = "inexistente" <=> estado[p] = "inexistente"
    BY <1>0, <2>1, <2>2, <2>5 DEF Tipos
  <2>12. /\ \A d \in Consolas : handler'[d].paso = "terminado" <=> handler'[d].pid_creado # Nadie
         /\ pid_contador' = Cardinality({d \in Consolas : handler[d].paso = "terminado"}')
    BY <1>0, <2>5 DEF Procesos
  <2>13. tablas_creadas' = Cardinality({p \in Pids : estado[p] \notin {"inexistente", "new"}}')
    BY <1>0, <2>5, <2>7 DEF Procesos
  <2>14. \A p \in Pids : estado'[p] = "inexistente" <=> p > pid_contador'
    BY <1>0, <2>5, <2>11 DEF Procesos
  <2>15. /\ \A p \in Pids : estado'[p] = "inexistente" => \A d \in Consolas : ~Duenia(d, p)'
         /\ \A p \in Pids : estado'[p] # "inexistente" => \E d \in Consolas : Duenia(d, p)'
         /\ \A p \in Pids : \A d, e \in Consolas : Duenia(d, p)' /\ Duenia(e, p)' => d = e
    BY <1>0, <2>6, <2>11, Zenon DEF Procesos
  <2>16. /\ \A d \in Consolas, p \in Pids : Duenia(d, p)' /\ avisada'[d] => estado'[p] = "exit"
         /\ \A d \in Consolas : avisada'[d] => \E p \in Pids : Duenia(d, p)'
    BY <2>6, <2>9, <2>10, Zenon
  <2> QED BY <2>12, <2>13, <2>14, <2>15, <2>16, Zenon DEF Procesos, Pids
<1>10. CASE Interrumpir
  BY <1>0, <1>10, ProcesosIgual DEF Interrumpir, consola, recepcion, kernel
<1>11. CASE Cpu
  <2>1. UNCHANGED <<consola, recepcion, kernel>>
    BY <1>11 DEF Cpu, Recibir, EjecutarInstruccion, EjecutarIO, EjecutarExit, Entregar
  <2> QED BY <1>0, <2>1, ProcesosIgual DEF consola, recepcion, kernel
<1>12. CASE Terminado
  BY <1>0, <1>12, ProcesosIgual DEF Terminado, vars, consola, recepcion, kernel
<1> QED BY <1>1, <1>2, <1>3, <1>r, <1>4, <1>5, <1>7, <1>8, <1>9, <1>10, <1>11, <1>12,
           ProcesosCrear DEF Next, Handler, Kernel, Planificar

(* Taking an element out of a sequence leaves the others.                  *)
LEMMA Quitada ==
  ASSUME NEW S, NEW s \in Seq(S), NEW k \in 1 .. Len(s)
  PROVE  RemoveAt(s, k) \in Seq(S)
<1>1. SubSeq(s, 1, k - 1) \in Seq(S) /\ SubSeq(s, k + 1, Len(s)) \in Seq(S)
  OBVIOUS
<1> QED BY <1>1 DEF RemoveAt

(* The relation of a process with its console is never another.            *)
LEMMA PasoRelaciones ==
  ASSUME IndInv, Next
  PROVE  Relaciones'
<1>0. /\ Tipos /\ Procesos /\ relaciones \in Seq(Vigentes)
      /\ \A c \in sin_registrar : c \in Consolas /\ handler[c].pid_creado \in Pids
      /\ sem_sincro_ready \in Nat /\ caido \in BOOLEAN
  BY DEF IndInv, Relaciones
<1>1. ASSUME relaciones' \in Seq(Vigentes), sin_registrar' \subseteq sin_registrar,
             sem_sincro_ready' \in Nat, caido' \in BOOLEAN,
             \A c \in Consolas : handler'[c].pid_creado = handler[c].pid_creado
      PROVE  Relaciones'
  <2>1. Vigentes' = Vigentes
    BY <1>1 DEF Vigentes, Duenia
  <2>2. \A c \in sin_registrar' : c \in Consolas /\ handler'[c].pid_creado \in Pids
    BY <1>0, <1>1
  <2> QED BY <1>1, <2>1, <2>2 DEF Relaciones, Pids
<1>2. ASSUME NEW c \in Consolas, CrearProceso(c) PROVE Relaciones'
  <2>1. PidNuevo \in Pids /\ handler[c].pid_creado = Nadie
    BY <1>0, <1>2, PidLibre DEF CrearProceso, Procesos
  <2>2. /\ handler'[c].pid_creado = PidNuevo
        /\ \A d \in Consolas : d # c => handler'[d] = handler[d]
        /\ relaciones' = relaciones
        /\ sin_registrar' = sin_registrar \union {c}
        /\ UNCHANGED <<sem_sincro_ready, caido>>
    BY <1>0, <1>2 DEF CrearProceso, Tipos, Handlers
  <2>3. Vigentes \subseteq Vigentes'
    BY <2>1, <2>2, PidEsNumero DEF Vigentes, Duenia
  <2> DEFINE V == Vigentes
             W == Vigentes'
  <2>4. relaciones \in Seq(V) /\ V \subseteq W
    BY <1>0, <2>3
  <2>5. \A d \in sin_registrar' : d \in Consolas /\ handler'[d].pid_creado \in Pids
    BY <1>0, <2>1, <2>2
  <2> HIDE DEF V, W
  <2>6. relaciones' \in Seq(W)
    BY <2>2, <2>4
  <2> QED BY <1>0, <2>2, <2>5, <2>6 DEF Relaciones, W, Pids
<1>r. ASSUME NEW c \in Consolas, Registrar(c) PROVE Relaciones'
  <2> DEFINE r == [pid |-> handler[c].pid_creado, conexion_consola |-> c]
  <2>1. /\ c \in sin_registrar /\ sin_registrar' \subseteq sin_registrar
        /\ relaciones' = Append(relaciones, r)
        /\ sem_sincro_ready' = sem_sincro_ready + 1
        /\ UNCHANGED <<handler, caido>>
    BY <1>r DEF Registrar, recepcion
  <2>2. r \in Vigentes
    BY <1>0, <2>1 DEF Vigentes, Duenia
  <2>3. relaciones' \in Seq(Vigentes)
    BY <1>0, <2>1, <2>2
  <2> QED BY <1>0, <1>1, <2>1, <2>3
<1>3. CASE RecibirExit
  <2>1. \/ \E k \in DOMAIN relaciones : relaciones' = RemoveAt(relaciones, k)
        \/ relaciones' = relaciones
    BY <1>3 DEF RecibirExit, AvisarConsola
  <2>2. \A k \in DOMAIN relaciones : RemoveAt(relaciones, k) \in Seq(Vigentes)
    BY <1>0, Quitada
  <2>3. relaciones' \in Seq(Vigentes)
    BY <1>0, <2>1, <2>2
  <2>4. caido' \in BOOLEAN
    BY <1>0, <1>3 DEF RecibirExit, AvisarConsola
  <2>5. UNCHANGED <<handler, sin_registrar, sem_sincro_ready>>
    BY <1>3 DEF RecibirExit, recepcion
  <2> QED BY <1>0, <1>1, <2>3, <2>4, <2>5
<1>4. ASSUME UNCHANGED <<relaciones, registro>>,
             \A c \in Consolas : handler'[c].pid_creado = handler[c].pid_creado
      PROVE  Relaciones'
  BY <1>0, <1>1, <1>4 DEF registro
<1>5. ASSUME NEW c \in Consolas, Consola(c) PROVE Relaciones'
  BY <1>4, <1>5 DEF Consola, EnviarTamProceso, EnviarLineaDe, EnviarFin, Enviar, kernel
<1>6. ASSUME NEW c \in Consolas, RecibirTam(c) \/ RecibirInstruccion(c) PROVE Relaciones'
  <2>1. \A d \in Consolas : handler'[d].pid_creado = handler[d].pid_creado
    <3>1. CASE RecibirTam(c)
      BY <1>0, <3>1 DEF RecibirTam, Tipos, Handlers
    <3>2. CASE RecibirInstruccion(c)
      BY <1>0, <3>2 DEF RecibirInstruccion, Tipos, Handlers
    <3> QED BY <1>6, <3>1, <3>2
  <2>2. UNCHANGED <<relaciones, registro>>
    BY <1>6 DEF RecibirTam, RecibirInstruccion, kernel
  <2> QED BY <1>4, <2>1, <2>2
<1>7. ASSUME NEW p \in Pids, Admitir(p) PROVE Relaciones'
  <2>1. /\ sem_sincro_ready > 0 /\ sem_sincro_ready' = sem_sincro_ready - 1
        /\ UNCHANGED <<relaciones, handler, sin_registrar, caido>>
    BY <1>7 DEF Admitir, recepcion
  <2>2. sem_sincro_ready' \in Nat
    BY <1>0, <2>1
  <2> QED BY <1>0, <1>1, <2>1, <2>2
<1>8. ASSUME \/ \E p \in Pids : Despachar(p) \/ Desbloquear(p)
             \/ RecibirBloqueo \/ RecibirInterrumpido \/ Interrumpir \/ Cpu \/ Terminado
      PROVE  Relaciones'
  <2>1. UNCHANGED <<relaciones, registro, handler>>
    BY <1>8 DEF Despachar, Desbloquear, RecibirBloqueo, RecibirInterrumpido,
                Interrumpir, Cpu, Recibir, EjecutarInstruccion, EjecutarIO, EjecutarExit,
                Entregar, Terminado, vars, recepcion, kernel, registro
  <2> QED BY <1>4, <2>1
<1> QED BY <1>2, <1>r, <1>3, <1>5, <1>6, <1>7, <1>8 DEF Next, Handler, Kernel, Planificar

-----------------------------------------------------------------------------
(* The pcbs the kernel keeps.                                              *)

(* What a step may not touch of what a pcb is compared with.               *)
MismoPrograma ==
  /\ tam_pedido' = tam_pedido
  /\ \A c \in Consolas : handler[c].pid_creado # Nadie =>
       handler'[c].instrucciones = handler[c].instrucciones
(* What a step may not touch of whom a process belongs to.                 *)
MismaDuenia(p) == \A c \in Consolas : Duenia(c, p)' <=> Duenia(c, p)

(* Every step respects the programs of those who have a process, and only  *)
(* the creation of a process changes who it belongs to.                    *)
LEMMA PasoPrograma ==
  ASSUME IndInv, Next
  PROVE  /\ MismoPrograma
         /\ \A p \in Pids : estado[p] # "inexistente" => MismaDuenia(p)
         /\ (~ \E c \in Consolas : CrearProceso(c)) => \A p \in Pids : MismaDuenia(p)
<1>0. Tipos /\ Procesos
  BY DEF IndInv
<1>1. ASSUME UNCHANGED <<tam_pedido, handler>>
      PROVE  MismoPrograma /\ \A p \in Pids : MismaDuenia(p)
  BY <1>1 DEF MismoPrograma, MismaDuenia, Duenia
<1>2. ASSUME NEW c \in Consolas, RecibirTam(c) \/ RecibirInstruccion(c) \/ CrearProceso(c)
      PROVE  MismoPrograma
  <2>1. handler[c].paso # "terminado"
    BY <1>2 DEF RecibirTam, RecibirInstruccion, CrearProceso
  <2>2. handler[c].pid_creado = Nadie
    BY <1>0, <2>1 DEF Procesos
  <2>3. \A d \in Consolas : d # c => handler'[d] = handler[d]
    BY <1>0, <1>2 DEF RecibirTam, RecibirInstruccion, CrearProceso, Tipos
  <2>4. tam_pedido' = tam_pedido
    BY <1>2 DEF RecibirTam, RecibirInstruccion, CrearProceso, consola
  <2> QED BY <2>2, <2>3, <2>4 DEF MismoPrograma
<1>3. ASSUME NEW c \in Consolas, RecibirTam(c) \/ RecibirInstruccion(c)
      PROVE  \A p \in Pids : MismaDuenia(p)
  <2>1. \A d \in Consolas : handler'[d].pid_creado = handler[d].pid_creado
    <3>1. CASE RecibirTam(c)
      BY <1>0, <3>1 DEF RecibirTam, Tipos, Handlers
    <3>2. CASE RecibirInstruccion(c)
      BY <1>0, <3>2 DEF RecibirInstruccion, Tipos, Handlers
    <3> QED BY <1>3, <3>1, <3>2
  <2> QED BY <2>1 DEF MismaDuenia, Duenia
<1>4. ASSUME NEW c \in Consolas, CrearProceso(c)
      PROVE  \A p \in Pids : estado[p] # "inexistente" => MismaDuenia(p)
  <2>1. /\ PidNuevo \in Pids /\ estado[PidNuevo] = "inexistente"
        /\ handler[c].pid_creado = Nadie
    BY <1>0, <1>4, PidLibre DEF CrearProceso, Procesos
  <2>2. /\ handler'[c].pid_creado = PidNuevo
        /\ \A d \in Consolas : d # c => handler'[d] = handler[d]
    BY <1>0, <1>4 DEF CrearProceso, Tipos, Handlers
  <2> QED BY <2>1, <2>2, PidEsNumero DEF MismaDuenia, Duenia
<1>5. ASSUME NEW c \in Consolas, Consola(c) PROVE UNCHANGED <<tam_pedido, handler>>
  BY <1>5 DEF Consola, EnviarTamProceso, EnviarLineaDe, EnviarFin, Enviar
<1>r. ASSUME NEW c \in Consolas, Registrar(c) PROVE UNCHANGED <<tam_pedido, handler>>
  BY <1>r DEF Registrar, consola, recepcion
<1>6. ASSUME Kernel \/ Interrumpir \/ Cpu \/ Terminado
      PROVE  UNCHANGED <<tam_pedido, handler>>
  BY <1>6 DEF Kernel, Planificar, Admitir, Despachar, Desbloquear, RecibirBloqueo,
              RecibirInterrumpido, RecibirExit, Interrumpir, Cpu, Recibir, EjecutarInstruccion, EjecutarIO,
              EjecutarExit, Entregar, Terminado, vars, consola, recepcion
<1> QED BY <1>1, <1>2, <1>3, <1>4, <1>5, <1>r, <1>6 DEF Next, Handler

(* A pcb that is intact stays so if what it is compared with does.         *)
LEMMA IntactoIgual ==
  ASSUME MismoPrograma, NEW p \in Pids, MismaDuenia(p), NEW x, Intacto(x, p),
         pcb'[p].tabla_paginas = pcb[p].tabla_paginas, ejecutadas'[p] = ejecutadas[p]
  PROVE  Intacto(x, p)'
<1>1. ASSUME NEW c \in Consolas, Duenia(c, p)'
      PROVE  x.tam_proceso = tam_pedido'[c] /\ x.instrucciones = handler'[c].instrucciones
  <2>1. Duenia(c, p)
    BY <1>1 DEF MismaDuenia
  <2>2. handler[c].pid_creado # Nadie
    BY <2>1, PidEsNumero DEF Duenia
  <2> QED BY <2>1, <2>2 DEF Intacto, MismoPrograma
<1>2. /\ x \in Pcbs(Instrucciones) /\ x.id = p
      /\ x.pc \in Nat /\ x.pc < Len(x.instrucciones)
      /\ x.tabla_paginas = pcb'[p].tabla_paginas
      /\ ejecutadas'[p] = SubSeq(x.instrucciones, 1, x.pc)
  BY DEF Intacto
<1> QED BY <1>1, <1>2 DEF Intacto

(* The pcb of a process is where it should be.                             *)
PcbEnSuSitio(p) ==
  /\ estado[p] \in {"inexistente", "exit"} => pcb[p] = SinPcb
  /\ estado[p] \notin {"inexistente", "exit"} =>
       pcb[p] \in Pcbs(Instrucciones) /\ EsPcb(pcb[p])
  /\ estado[p] \in EnKernel =>
       /\ Intacto(pcb[p], p)
       /\ pcb[p].rafaga = pcb[p].estimacion_anterior - consumido[p]
  /\ estado[p] = "inexistente" => ejecutadas[p] = <<>> /\ consumido[p] = 0

(* A step about other processes.                                           *)
LEMMA PcbAjeno ==
  ASSUME MismoPrograma, NEW p \in Pids, estado[p] # "inexistente" => MismaDuenia(p),
         PcbEnSuSitio(p),
         estado'[p] = estado[p], pcb'[p] = pcb[p],
         estado[p] # "running" => ejecutadas'[p] = ejecutadas[p] /\ consumido'[p] = consumido[p]
  PROVE  PcbEnSuSitio(p)'
<1>1. PICK x : x = pcb[p]
  OBVIOUS
<1>2. PICK e : e = estado[p]
  OBVIOUS
<1>3. e \in EnKernel => Intacto(x, p)'
  <2> SUFFICES ASSUME e \in EnKernel PROVE Intacto(x, p)'
    OBVIOUS
  <2>1. Intacto(x, p)
    BY <1>1, <1>2 DEF PcbEnSuSitio
  <2>2. e # "inexistente" /\ e # "running"
    BY DEF EnKernel
  <2> QED BY <1>2, <2>1, <2>2, IntactoIgual
<1>4. Intacto(x, p)' => Intacto(pcb[p], p)'
  BY <1>1 DEF Intacto
<1>5. EsPcb(pcb[p]) => EsPcb(pcb[p])'
  BY DEF EsPcb
<1>6. EnKernel' = EnKernel /\ SinPcb' = SinPcb
  BY DEF EnKernel, SinPcb
<1> QED BY <1>2, <1>3, <1>4, <1>5, <1>6 DEF PcbEnSuSitio, EnKernel

(* A pcb with other numbers than those that identify it.                   *)
LEMMA IntactoCambiado ==
  ASSUME MismoPrograma, NEW p \in Pids, MismaDuenia(p), NEW x, Intacto(x, p),
         NEW y \in Pcbs(Instrucciones), y.id = x.id, y.tam_proceso = x.tam_proceso,
         y.pc = x.pc, y.instrucciones = x.instrucciones,
         y.tabla_paginas = pcb'[p].tabla_paginas, ejecutadas'[p] = ejecutadas[p]
  PROVE  Intacto(y, p)'
<1>1. ASSUME NEW c \in Consolas, Duenia(c, p)'
      PROVE  y.tam_proceso = tam_pedido'[c] /\ y.instrucciones = handler'[c].instrucciones
  <2>1. Duenia(c, p)
    BY <1>1 DEF MismaDuenia
  <2>2. handler[c].pid_creado # Nadie
    BY <2>1, PidEsNumero DEF Duenia
  <2> QED BY <2>1, <2>2 DEF Intacto, MismoPrograma
<1>2. /\ y.id = p
      /\ y.pc \in Nat /\ y.pc < Len(y.instrucciones)
      /\ ejecutadas'[p] = SubSeq(y.instrucciones, 1, y.pc)
  BY DEF Intacto
<1> QED BY <1>1, <1>2 DEF Intacto

(* The kernel gets a pcb back, or keeps one, with another estimate.        *)
LEMMA PcbDevuelto ==
  ASSUME MismoPrograma, NEW p \in Pids, MismaDuenia(p), NEW x, Intacto(x, p), EsPcb(x),
         NEW r \in Int, NEW e \in Int,
         pcb' = [pcb EXCEPT ![p] = [x EXCEPT !.rafaga = r, !.estimacion_anterior = e]],
         DOMAIN pcb = Pids, estado'[p] \in EnKernel,
         ejecutadas'[p] = ejecutadas[p], r = e - consumido'[p]
  PROVE  PcbEnSuSitio(p)'
<1> DEFINE y == [x EXCEPT !.rafaga = r, !.estimacion_anterior = e]
<1>1. x \in Pcbs(Instrucciones)
  BY DEF Intacto
<1>2. /\ y \in Pcbs(Instrucciones) /\ y.id = x.id /\ y.tam_proceso = x.tam_proceso
      /\ y.pc = x.pc /\ y.instrucciones = x.instrucciones /\ y.tabla_paginas = x.tabla_paginas
      /\ y.rafaga = r /\ y.estimacion_anterior = e
  BY <1>1 DEF Pcbs
<1>3. pcb'[p] = y
  OBVIOUS
<1> HIDE DEF y
<1>4. Intacto(y, p)'
  <2>1. y.tabla_paginas = pcb'[p].tabla_paginas
    BY <1>3
  <2> QED BY <1>2, <2>1, IntactoCambiado
<1>5. EsPcb(y)
  BY <1>2 DEF EsPcb
<1>6. Intacto(pcb[p], p)' /\ EsPcb(pcb[p])'
  BY <1>3, <1>4, <1>5 DEF Intacto, EsPcb
<1> QED BY <1>2, <1>3, <1>6 DEF PcbEnSuSitio, EnKernel

(* The new estimate is a number.                                           *)
LEMMA EstimacionTipo ==
  ASSUME NEW a \in Int, NEW b \in Int
  PROVE  Estimacion(a, b) \in Int
<1>1. ALFA \in Int /\ 10 - ALFA \in Int
  BY EstimacionAssumption
<1>2. ALFA * a \in Int /\ (10 - ALFA) * b \in Int
  BY <1>1
<1>3. ALFA * a + (10 - ALFA) * b \in Int
  BY <1>2
<1> QED BY <1>3 DEF Estimacion

(* The pcb of a process that is created.                                   *)
LEMMA PcbCreado ==
  ASSUME IndInv, Next, NEW c \in Consolas, CrearProceso(c)
  PROVE  \A p \in Pids : PcbEnSuSitio(p)'
<1>0. Tipos /\ Recepcion /\ Procesos /\ \A p \in Pids : PcbEnSuSitio(p)
  BY DEF IndInv, PcbsDelKernel, PcbEnSuSitio
<1>n. PICK n : n = PidNuevo
  OBVIOUS
<1>1. /\ handler[c].paso = "instrucciones" /\ socket[c] # <<>> /\ EsFin(socket[c])
      /\ estado' = [estado EXCEPT ![n] = "new"]
      /\ pcb' = [pcb EXCEPT ![n] = PcbNuevo(n, c)]
      /\ handler' = [handler EXCEPT ![c].paso = "terminado", ![c].pid_creado = n]
      /\ UNCHANGED <<tam_pedido, ejecutadas, consumido>>
  BY <1>n DEF CrearProceso, consola, historia
<1>2. n \in Pids /\ estado[n] = "inexistente" /\ n \in Int
      /\ n # Nadie
  BY <1>n, <1>1, PidLibre
<1>3. ASSUME NEW p \in Pids, p # n PROVE PcbEnSuSitio(p)'
  <2>1. MismoPrograma /\ (estado[p] # "inexistente" => MismaDuenia(p))
    BY PasoPrograma
  <2>2. estado'[p] = estado[p] /\ pcb'[p] = pcb[p] /\ ejecutadas'[p] = ejecutadas[p]
        /\ consumido'[p] = consumido[p]
    BY <1>0, <1>1, <1>2, <1>3 DEF Tipos
  <2> QED BY <1>0, <2>1, <2>2, PcbAjeno
<1>4. PcbEnSuSitio(n)'
  <2> DEFINE h == handler[c]
  <2>x. PICK x : x = PcbNuevo(n, c)
    OBVIOUS
  <2>1. /\ h.tam_proceso = tam_pedido[c] /\ h.instrucciones = Hasta(archivo[c], Len(archivo[c]))
        /\ tam_pedido[c] \in Tamanios /\ tam_pedido[c] \in Int
    <3>1. /\ enviado[c] = Len(archivo[c]) + 2
          /\ h.tam_proceso = tam_pedido[c] /\ h.instrucciones = Hechas(c)
      BY <1>0, <1>1, SocketFin
    <3>2. Len(archivo[c]) \in Nat /\ tam_pedido[c] \in Tamanios /\ tam_pedido[c] \in Int
      BY <1>0, ArchivoDe
    <3> QED BY <3>1, <3>2 DEF Hechas, LineasEnviadas
  <2>2. h.instrucciones \in Seq(Instrucciones) /\ TerminaEnExit(h.instrucciones)
    BY <1>0, <2>1, ArchivoDe, ProgramaConExit
  <2>3. Len(h.instrucciones) \in Nat /\ 0 < Len(h.instrucciones)
    BY <2>2 DEF TerminaEnExit
  <2>4. /\ x \in Pcbs(Instrucciones) /\ x.id = n /\ x.tam_proceso = tam_pedido[c]
        /\ x.pc = 0 /\ x.instrucciones = h.instrucciones /\ x.tabla_paginas = 0
        /\ x.rafaga = ESTIMACION_INICIAL /\ x.estimacion_anterior = ESTIMACION_INICIAL
    BY <1>2, <2>x, <2>1, <2>2, EstimacionAssumption DEF PcbNuevo, Pcbs
  <2>5. /\ handler'[c].pid_creado = n /\ handler'[c].instrucciones = h.instrucciones
        /\ \A d \in Consolas : d # c => handler'[d] = handler[d]
    BY <1>0, <1>1 DEF Tipos, Handlers
  <2>6. pcb'[n] = x /\ estado'[n] = "new"
    BY <1>0, <1>1, <1>2, <2>x DEF Tipos
  <2> HIDE DEF h
  <2>7. EsPcb(x)
    <3>1. Cardinality(Consolas) \in Nat
      BY ConsolasAssumption, FS_CardinalityType
    <3>2. 0 \in 0 .. Cardinality(Consolas) - 1
      BY <1>2, <3>1 DEF Pids
    <3> QED BY <1>2, <2>1, <2>3, <2>4, <3>2, EstimacionAssumption DEF EsPcb
  <2>8. ejecutadas'[n] = <<>> /\ consumido'[n] = 0
    BY <1>0, <1>1, <1>2 DEF PcbEnSuSitio
  <2>9. \A d \in Consolas : Duenia(d, n)' => d = c
    BY <1>0, <1>2, <2>5 DEF Procesos, Duenia
  <2>10. SubSeq(x.instrucciones, 1, x.pc) = <<>>
    BY <2>2, <2>4
  <2>11. Intacto(x, n)'
    <3>1. \A d \in Consolas : Duenia(d, n)' =>
            x.tam_proceso = tam_pedido'[d] /\ x.instrucciones = handler'[d].instrucciones
      BY <1>1, <2>4, <2>5, <2>9
    <3>2. x.pc \in Nat /\ x.pc < Len(x.instrucciones)
      BY <2>3, <2>4
    <3>3. x.tabla_paginas = pcb'[n].tabla_paginas
      BY <2>6
    <3>4. ejecutadas'[n] = SubSeq(x.instrucciones, 1, x.pc)
      BY <2>8, <2>10
    <3> QED BY <2>4, <3>1, <3>2, <3>3, <3>4 DEF Intacto
  <2> QED BY <2>4, <2>6, <2>7, <2>8, <2>11, EstimacionAssumption
          DEF PcbEnSuSitio, EnKernel
<1> QED BY <1>3, <1>4

(* The kernel's pcbs stay in their places.                                 *)
LEMMA PasoPcbs ==
  ASSUME IndInv, Next
  PROVE  PcbsDelKernel'
<1>0. Tipos /\ Procesos /\ \A p \in Pids : PcbEnSuSitio(p)
  BY DEF IndInv, PcbsDelKernel, PcbEnSuSitio
<1>1. SUFFICES \A p \in Pids : PcbEnSuSitio(p)'
  BY DEF PcbsDelKernel, PcbEnSuSitio
<1>2. MismoPrograma /\ \A p \in Pids : estado[p] # "inexistente" => MismaDuenia(p)
  BY PasoPrograma
<1>3. ASSUME NEW p \in Pids, estado'[p] = estado[p], pcb'[p] = pcb[p],
             estado[p] # "running" =>
               ejecutadas'[p] = ejecutadas[p] /\ consumido'[p] = consumido[p]
      PROVE  PcbEnSuSitio(p)'
  BY <1>0, <1>2, <1>3, PcbAjeno
<1>4. ASSUME NEW c \in Consolas, Consola(c) \/ RecibirTam(c) \/ RecibirInstruccion(c)
      PROVE  \A p \in Pids : PcbEnSuSitio(p)'
  <2>1. UNCHANGED <<kernel, historia>>
    BY <1>4 DEF Consola, EnviarTamProceso, EnviarLineaDe, EnviarFin, Enviar, RecibirTam,
                RecibirInstruccion
  <2> QED BY <1>3, <2>1 DEF kernel, historia
<1>r. ASSUME NEW c \in Consolas, Registrar(c) PROVE \A p \in Pids : PcbEnSuSitio(p)'
  BY <1>3, <1>r DEF Registrar, historia
<1>5. ASSUME NEW p \in Pids, Admitir(p) PROVE \A q \in Pids : PcbEnSuSitio(q)'
  <2>1. /\ estado[p] = "new" /\ estado'[p] = "ready"
        /\ pcb' = [pcb EXCEPT ![p].tabla_paginas = tablas_creadas]
        /\ UNCHANGED <<ejecutadas, consumido>>
        /\ \A q \in Pids : q # p => estado'[q] = estado[q] /\ pcb'[q] = pcb[q]
    BY <1>0, <1>5 DEF Admitir, Tipos, historia
  <2>2. ASSUME NEW q \in Pids, q # p PROVE PcbEnSuSitio(q)'
    BY <1>3, <2>1, <2>2
  <2>x. PICK x : x = pcb[p]
    OBVIOUS
  <2>3. /\ x \in Pcbs(Instrucciones) /\ EsPcb(x) /\ Intacto(x, p)
        /\ x.rafaga = x.estimacion_anterior - consumido[p]
    BY <1>0, <2>x, <2>1 DEF PcbEnSuSitio, EnKernel
  <2>4. tablas_creadas \in 0 .. Cardinality(Consolas) - 1 /\ tablas_creadas \in Int
    <3>1. tablas_creadas \in 0 .. Cardinality(Consolas) - 1
      BY <2>1, TablaLibre
    <3>2. Cardinality(Consolas) \in Nat
      BY ConsolasAssumption, FS_CardinalityType
    <3> QED BY <3>1, <3>2
  <2>y. PICK y : y = [x EXCEPT !.tabla_paginas = tablas_creadas]
    OBVIOUS
  <2>5. /\ y \in Pcbs(Instrucciones) /\ y.id = x.id /\ y.tam_proceso = x.tam_proceso
        /\ y.pc = x.pc /\ y.instrucciones = x.instrucciones
        /\ y.tabla_paginas = tablas_creadas
        /\ y.rafaga = x.rafaga /\ y.estimacion_anterior = x.estimacion_anterior
    BY <2>3, <2>4, <2>y DEF Pcbs
  <2>6. pcb'[p] = y
    BY <1>0, <2>1, <2>x, <2>y DEF Tipos
  <2>7. Intacto(y, p)'
    <3>1. MismaDuenia(p)
      BY <1>2, <2>1
    <3> QED BY <1>2, <2>1, <2>3, <2>5, <2>6, <3>1, IntactoCambiado
  <2>8. EsPcb(y)
    BY <2>3, <2>4, <2>5 DEF EsPcb
  <2>9. Intacto(pcb[p], p)' /\ EsPcb(pcb[p])'
    BY <2>6, <2>7, <2>8 DEF Intacto, EsPcb
  <2>10. PcbEnSuSitio(p)'
    BY <2>1, <2>3, <2>5, <2>6, <2>9 DEF PcbEnSuSitio, EnKernel
  <2> QED BY <2>2, <2>10
<1>6. ASSUME NEW p \in Pids, Despachar(p) PROVE \A q \in Pids : PcbEnSuSitio(q)'
  <2>1. /\ estado[p] = "ready" /\ estado'[p] = "running"
        /\ UNCHANGED <<pcb, ejecutadas, consumido>>
        /\ \A q \in Pids : q # p => estado'[q] = estado[q]
    BY <1>0, <1>6 DEF Despachar, Tipos, historia
  <2>2. ASSUME NEW q \in Pids, q # p PROVE PcbEnSuSitio(q)'
    BY <1>3, <2>1, <2>2
  <2>3. pcb[p] \in Pcbs(Instrucciones) /\ EsPcb(pcb[p])
    BY <1>0, <2>1 DEF PcbEnSuSitio
  <2>4. pcb'[p] \in Pcbs(Instrucciones) /\ EsPcb(pcb[p])'
    BY <2>1, <2>3 DEF EsPcb
  <2>5. PcbEnSuSitio(p)'
    BY <2>1, <2>4 DEF PcbEnSuSitio, EnKernel
  <2> QED BY <2>2, <2>5
<1>7. ASSUME NEW p \in Pids, Desbloquear(p) PROVE \A q \in Pids : PcbEnSuSitio(q)'
  <2>1. /\ estado[p] = "bloqueado" /\ estado'[p] = "ready"
        /\ UNCHANGED <<pcb, ejecutadas, consumido>>
        /\ \A q \in Pids : q # p => estado'[q] = estado[q]
    BY <1>0, <1>7 DEF Desbloquear, Tipos, historia
  <2>2. ASSUME NEW q \in Pids, q # p PROVE PcbEnSuSitio(q)'
    BY <1>3, <2>1, <2>2
  <2>x. PICK x : x = pcb[p]
    OBVIOUS
  <2>3. /\ x \in Pcbs(Instrucciones) /\ EsPcb(x) /\ Intacto(x, p)
        /\ x.rafaga = x.estimacion_anterior - consumido[p]
    BY <1>0, <2>x, <2>1 DEF PcbEnSuSitio, EnKernel
  <2>4. Intacto(x, p)'
    BY <1>2, <2>1, <2>3, IntactoIgual
  <2>5. Intacto(pcb[p], p)' /\ EsPcb(pcb[p])'
    BY <2>1, <2>x, <2>3, <2>4 DEF Intacto, EsPcb
  <2>6. PcbEnSuSitio(p)'
    BY <2>1, <2>x, <2>3, <2>5 DEF PcbEnSuSitio, EnKernel
  <2> QED BY <2>2, <2>6
<1>8. CASE RecibirBloqueo
  <2>1. PICK x \in Pcbs(Instrucciones), t \in Int, b \in Int :
          /\ running \in Pids /\ Intacto(x, running)
          /\ LeerPcb(Desde(dispatch_kernel, 4)) = x
          /\ dispatch_kernel[3] = b
    BY <1>8, LugarDeBloqueo DEF RecibirBloqueo
  <2>2. PICK p \in Pids : p = running
    BY <2>1
  <2>3. x.id = p /\ EsPcb(x) /\ x.estimacion_anterior \in Int
    BY <2>1, <2>2, IntactoTipo DEF Intacto, Pcbs
  <2>4. PICK e : e = Estimacion(b, x.estimacion_anterior)
    OBVIOUS
  <2>5. e \in Int
    BY <2>3, <2>4, EstimacionTipo
  <2>6. /\ pcb' = [pcb EXCEPT ![p] = [x EXCEPT !.rafaga = e, !.estimacion_anterior = e]]
        /\ estado' = [estado EXCEPT ![p] = "bloqueado"]
        /\ consumido' = [consumido EXCEPT ![p] = 0]
        /\ UNCHANGED ejecutadas
    BY <1>8, <2>1, <2>3, <2>4 DEF RecibirBloqueo
  <2>7. estado[p] = "running"
    BY <2>2 DEF IndInv, Lugares
  <2>8. ASSUME NEW q \in Pids, q # p PROVE PcbEnSuSitio(q)'
    BY <1>0, <1>3, <2>6, <2>8 DEF Tipos
  <2>9. PcbEnSuSitio(p)'
    <3>1. e = e - consumido'[p] /\ estado'[p] \in EnKernel /\ DOMAIN pcb = Pids
      BY <1>0, <2>5, <2>6 DEF Tipos, EnKernel
    <3>2. Intacto(x, p) /\ MismaDuenia(p)
      BY <1>2, <2>1, <2>2, <2>7
    <3> QED BY <1>2, <2>3, <2>5, <2>6, <3>1, <3>2, PcbDevuelto
  <2> QED BY <2>8, <2>9
<1>9. CASE RecibirInterrumpido
  <2>1. PICK x \in Pcbs(Instrucciones), r \in Int :
          /\ running \in Pids /\ Intacto(x, running)
          /\ LeerPcb(Desde(dispatch_kernel, 3)) = x
          /\ dispatch_kernel[2] = r
          /\ x.rafaga = x.estimacion_anterior - (consumido[running] - r)
    BY <1>9, LugarDeInterrupcion DEF RecibirInterrumpido
  <2>2. PICK p \in Pids : p = running
    BY <2>1
  <2>3. /\ x.id = p /\ EsPcb(x) /\ x.estimacion_anterior \in Int /\ x.rafaga \in Int
    BY <2>1, <2>2, IntactoTipo DEF Intacto, Pcbs
  <2>4. /\ pcb' = [pcb EXCEPT ![p] = [x EXCEPT !.rafaga = x.rafaga - r]]
        /\ estado' = [estado EXCEPT ![p] = "ready"]
        /\ UNCHANGED <<ejecutadas, consumido>>
    BY <1>9, <2>1, <2>3 DEF RecibirInterrumpido, historia
  <2>5. estado[p] = "running" /\ consumido[p] \in Nat
    BY <1>0, <2>2 DEF IndInv, Lugares, Tipos
  <2>6. ASSUME NEW q \in Pids, q # p PROVE PcbEnSuSitio(q)'
    BY <1>0, <1>3, <2>4, <2>6 DEF Tipos
  <2>7. PcbEnSuSitio(p)'
    <3>e. PICK e : e = x.estimacion_anterior
      OBVIOUS
    <3>n. PICK n : n = x.rafaga - r
      OBVIOUS
    <3>1. n = e - consumido'[p] /\ n \in Int /\ e \in Int
      BY <2>1, <2>2, <2>3, <2>4, <2>5, <3>e, <3>n
    <3>2. estado'[p] \in EnKernel /\ DOMAIN pcb = Pids /\ ejecutadas'[p] = ejecutadas[p]
      BY <1>0, <2>4 DEF Tipos, EnKernel
    <3>3. Intacto(x, p) /\ MismaDuenia(p)
      BY <1>2, <2>1, <2>2, <2>5
    <3>4. pcb' = [pcb EXCEPT ![p] = [x EXCEPT !.rafaga = n, !.estimacion_anterior = e]]
      <4>1. [x EXCEPT !.rafaga = n, !.estimacion_anterior = e] = [x EXCEPT !.rafaga = n]
        BY <3>e DEF Pcbs
      <4> QED BY <2>4, <3>n, <4>1
    <3> QED BY <1>2, <2>3, <3>1, <3>2, <3>3, <3>4, PcbDevuelto
  <2> QED BY <2>6, <2>7
<1>10. CASE RecibirExit
  <2>1. running \in Pids
    BY <1>10, LugarDeExit DEF RecibirExit
  <2>2. PICK p \in Pids : p = running
    BY <2>1
  <2>3. /\ estado' = [estado EXCEPT ![p] = "exit"]
        /\ pcb' = [pcb EXCEPT ![p] = SinPcb]
        /\ UNCHANGED <<ejecutadas, consumido>>
    BY <1>10, <2>2 DEF RecibirExit, historia
  <2>4. ASSUME NEW q \in Pids, q # p PROVE PcbEnSuSitio(q)'
    BY <1>0, <1>3, <2>3, <2>4 DEF Tipos
  <2>5. PcbEnSuSitio(p)'
    <3>1. estado'[p] = "exit" /\ pcb'[p] = SinPcb
      BY <1>0, <2>3 DEF Tipos
    <3> QED BY <3>1 DEF PcbEnSuSitio, EnKernel, SinPcb
  <2> QED BY <2>4, <2>5
<1>11. CASE Interrumpir \/ Recibir \/ Terminado
  <2>1. UNCHANGED <<estado, pcb, ejecutadas, consumido>>
    BY <1>11 DEF Interrumpir, Recibir, Terminado, vars, kernel, historia
  <2> QED BY <1>3, <2>1
<1>12. ASSUME \/ \E d \in Duraciones : EjecutarInstruccion(d)
              \/ EjecutarIO \/ EjecutarExit
       PROVE  \A p \in Pids : PcbEnSuSitio(p)'
  <2>1. EnCiclo /\ UNCHANGED <<estado, pcb>>
    BY <1>12 DEF EjecutarInstruccion, EjecutarIO, EjecutarExit, Entregar, kernel
  <2>2. running \in Pids /\ en_cpu.id = running
    BY <2>1, PasoDeCiclo
  <2>3. estado[running] = "running"
    BY <2>2 DEF IndInv, Lugares
  <2>4. \A p \in Pids : p # running =>
          ejecutadas'[p] = ejecutadas[p] /\ consumido'[p] = consumido[p]
    BY <1>0, <1>12, <2>2 DEF EjecutarInstruccion, EjecutarIO, EjecutarExit, Anotar, Tipos
  <2> QED BY <1>3, <2>1, <2>3, <2>4
<1> QED BY <1>4, <1>r, <1>5, <1>6, <1>7, <1>8, <1>9, <1>10, <1>11, <1>12, PcbCreado
        DEF Next, Handler, Kernel, Planificar, Cpu

-----------------------------------------------------------------------------
(* The pcb of the process that is running is in one place.                 *)

(* Who is running is the process that running names.                       *)
Corre == \A p \in Pids : estado[p] = "running" <=> p = running

(* Intact, of the process that is going to be running.                     *)
LEMMA IntactoCorriendo ==
  ASSUME NEW p, NEW x, Intacto(x, p)', running' = p
  PROVE  Intacto(x, running)'
  BY DEF Intacto, Duenia

(* A step that does not touch the CPU or its channels.                     *)
LEMMA LugarIgual ==
  ASSUME Lugares, MismoPrograma, running \in Pids => MismaDuenia(running),
         running' = running, canales' = canales, en_cpu' = en_cpu,
         pid_en_ejecucion' = pid_en_ejecucion,
         atendiendo_interrupcion' = atendiendo_interrupcion,
         transcurrido' = transcurrido, contador_rafaga' = contador_rafaga,
         historia' = historia,
         \A p \in Pids : estado'[p] = "running" <=> estado[p] = "running",
         \A p \in Pids : p = running => pcb'[p].tabla_paginas = pcb[p].tabla_paginas
  PROVE  Lugares'
<1>0. /\ dispatch_cpu' = dispatch_cpu /\ dispatch_kernel' = dispatch_kernel
      /\ ejecutadas' = ejecutadas /\ consumido' = consumido /\ desplazado' = desplazado
  BY DEF canales, historia
<1>1. Corre'
  BY DEF Lugares, Corre
<1>2. CASE Libre
  <2>1. Libre'
    BY <1>0, <1>2 DEF Libre, SinPcb
  <2> QED BY <1>1, <2>1 DEF Lugares, Corre
<1>3. CASE running \in Pids /\ Saliendo
  <2>1. PICK p \in Pids : p = running
    BY <1>3
  <2>2. \A c \in Consolas : Duenia(c, p)' => ejecutadas'[p] = handler'[c].instrucciones
    <3>1. TAKE c \in Consolas
    <3>2. HAVE Duenia(c, p)'
    <3>3. Duenia(c, p)
      BY <2>1, <3>2 DEF MismaDuenia, Duenia
    <3>4. handler[c].pid_creado # Nadie
      BY <3>3, PidEsNumero DEF Duenia
    <3> QED BY <1>0, <1>3, <2>1, <3>3, <3>4 DEF Saliendo, MismoPrograma
  <2>3. Saliendo'
    BY <1>0, <1>3, <2>1, <2>2 DEF Saliendo, Duenia, SinPcb, MensajeExit, PASAR_A_EXIT
  <2> QED BY <1>1, <1>3, <2>3 DEF Lugares, Corre
<1>4. CASE running \in Pids /\ \E x \in Pcbs(Instrucciones) :
             EnViaje(x) \/ Ejecutando(x) \/ Bloqueandose(x) \/ Interrumpido(x)
  <2>1. PICK p \in Pids : p = running
    BY <1>4
  <2>2. PICK x \in Pcbs(Instrucciones) :
          EnViaje(x) \/ Ejecutando(x) \/ Bloqueandose(x) \/ Interrumpido(x)
    BY <1>4
  <2>3. Intacto(x, p)
    BY <2>1, <2>2 DEF EnViaje, Ejecutando, Bloqueandose, Interrumpido
  <2>4. Intacto(x, running)'
    <3>1. MismaDuenia(p)
      BY <2>1 DEF MismaDuenia, Duenia
    <3>2. pcb'[p].tabla_paginas = pcb[p].tabla_paginas /\ ejecutadas'[p] = ejecutadas[p]
      BY <1>0, <2>1
    <3>3. Intacto(x, p)'
      BY <2>3, <3>1, <3>2, IntactoIgual
    <3> QED BY <2>1, <3>3, IntactoCorriendo
  <2>5. (EnViaje(x) => EnViaje(x)') /\ (Ejecutando(x) => Ejecutando(x)')
    BY <1>0, <2>4 DEF EnViaje, Ejecutando, Medido, SinPcb
  <2>6. Bloqueandose(x) => Bloqueandose(x)'
    BY <1>0, <2>4 DEF Bloqueandose, Medido, SinPcb
  <2>7. Interrumpido(x) => Interrumpido(x)'
    BY <1>0, <2>4 DEF Interrumpido, SinPcb
  <2>8. EnViaje(x)' \/ Ejecutando(x)' \/ Bloqueandose(x)' \/ Interrumpido(x)'
    BY <2>2, <2>5, <2>6, <2>7
  <2> QED BY <1>1, <1>4, <2>8 DEF Lugares, Corre
<1> QED BY <1>2, <1>3, <1>4 DEF Lugares

(* The kernel gets the pcb and frees the CPU.                              *)
LEMMA LugarLiberado ==
  ASSUME Lugares, running \in Pids, running' = Nadie, DOMAIN estado = Pids,
         NEW e \in {"ready", "bloqueado", "exit"}, estado' = [estado EXCEPT ![running] = e],
         dispatch_cpu' = <<>>, dispatch_kernel' = <<>>, en_cpu' = SinPcb
  PROVE  Lugares'
<1>1. Corre'
  BY PidEsNumero DEF Lugares, Corre
<1>2. Libre'
  BY DEF Libre, SinPcb
<1> QED BY <1>1, <1>2 DEF Lugares, Corre

(* What is executed of the process that is running, after an instruction   *)
(* that is not EXIT.                                                       *)
LEMMA IntactoAvanzado ==
  ASSUME IndInv, Next, EnCiclo, Actual.tipo # EXIT, Anotar, UNCHANGED <<pcb, running>>
  PROVE  \E y \in Pcbs(Instrucciones) :
           /\ y = Avanzado /\ Intacto(y, running)'
           /\ y.rafaga = en_cpu.rafaga /\ y.estimacion_anterior = en_cpu.estimacion_anterior
<1>1. /\ running \in Pids /\ en_cpu.id = running /\ Ejecutando(en_cpu)
      /\ (Actual.tipo = EXIT <=> en_cpu.pc + 1 = Len(en_cpu.instrucciones))
      /\ Append(ejecutadas[running], Actual) = SubSeq(en_cpu.instrucciones, 1, en_cpu.pc + 1)
      /\ Avanzado \in Pcbs(Instrucciones)
  BY PasoDeCiclo
<1>2. PICK p \in Pids : p = running
  BY <1>1
<1>x. PICK x : x = en_cpu
  OBVIOUS
<1>y. PICK y : y = Avanzado
  OBVIOUS
<1>3. /\ Intacto(x, p) /\ x \in Pcbs(Instrucciones) /\ x.pc \in Nat
      /\ x.pc < Len(x.instrucciones) /\ Len(x.instrucciones) \in Nat
  <2>1. Intacto(x, running)
    BY <1>1, <1>x DEF Ejecutando
  <2>2. x.instrucciones \in Seq(Instrucciones)
    BY <1>1, <2>1, IntactoTipo
  <2> QED BY <1>2, <2>1, <2>2 DEF Intacto
<1>4. /\ y \in Pcbs(Instrucciones) /\ y.id = x.id /\ y.tam_proceso = x.tam_proceso
      /\ y.pc = x.pc + 1 /\ y.instrucciones = x.instrucciones
      /\ y.tabla_paginas = x.tabla_paginas
      /\ y.rafaga = x.rafaga /\ y.estimacion_anterior = x.estimacion_anterior
  BY <1>1, <1>3, <1>x, <1>y DEF Avanzado, Pcbs
<1>5. ejecutadas'[p] = SubSeq(y.instrucciones, 1, y.pc)
  <2>1. DOMAIN ejecutadas = Pids
    BY DEF IndInv, Tipos
  <2>2. ejecutadas'[p] = Append(ejecutadas[p], Actual)
    BY <1>1, <1>2, <2>1 DEF Anotar
  <2> QED BY <1>1, <1>2, <1>x, <1>4, <2>2
<1>6. y.pc \in Nat /\ y.pc < Len(y.instrucciones)
  BY <1>1, <1>3, <1>4, <1>x
<1>7. Intacto(y, p)'
  <2>1. MismoPrograma /\ MismaDuenia(p)
    <3>1. estado[p] # "inexistente"
      BY <1>2 DEF IndInv, Lugares
    <3> QED BY <3>1, PasoPrograma
  <2>2. ASSUME NEW c \in Consolas, Duenia(c, p)'
        PROVE  y.tam_proceso = tam_pedido'[c] /\ y.instrucciones = handler'[c].instrucciones
    <3>1. Duenia(c, p)
      BY <2>1, <2>2 DEF MismaDuenia
    <3>2. handler[c].pid_creado # Nadie
      BY <3>1, PidEsNumero DEF Duenia
    <3> QED BY <1>3, <1>4, <2>1, <3>1, <3>2 DEF Intacto, MismoPrograma
  <2>3. y.id = p /\ y.tabla_paginas = pcb'[p].tabla_paginas
    BY <1>3, <1>4 DEF Intacto
  <2> QED BY <1>4, <1>5, <1>6, <2>2, <2>3 DEF Intacto
<1>8. Intacto(y, running)'
  BY <1>2, <1>7, IntactoCorriendo
<1> QED BY <1>4, <1>8, <1>x, <1>y

(* EJECUTAR puts in the CPU the pcb that was on the way, and the counter   *)
(* goes on from what is known of its burst.                                *)
LEMMA LugarRecibir ==
  ASSUME IndInv, Next, Recibir
  PROVE  Lugares'
<1>0. Tipos /\ Lugares /\ Rafagas
  BY DEF IndInv
<1>1. PICK x \in Pcbs(Instrucciones) :
        /\ EnViaje(x) /\ x.id = running /\ en_cpu' = x
        /\ dispatch_cpu' = <<>>
        /\ pid_en_ejecucion' = running
        /\ contador_rafaga' = IF atendiendo_interrupcion /\ running = pid_en_ejecucion
                                THEN contador_rafaga ELSE 0
        /\ desplazado' = [q \in Pids |-> desplazado[q] \/ (q # running /\ consumido[q] > 0)]
  BY EfectoRecibir
<1>2. /\ atendiendo_interrupcion' = FALSE /\ transcurrido' = 0
      /\ UNCHANGED <<consola, recepcion, kernel, dispatch_kernel, ejecutadas, consumido>>
  BY DEF Recibir
<1>3. PICK p \in Pids : p = running
  BY <1>1, EfectoRecibir
<1>4. /\ Intacto(x, p) /\ x.rafaga = x.estimacion_anterior - consumido[p]
      /\ dispatch_kernel = <<>> /\ en_cpu = SinPcb
  BY <1>1, <1>3 DEF EnViaje
<1>5. UNCHANGED <<running, estado, pcb, handler, tam_pedido>>
  BY <1>2 DEF kernel, recepcion, consola
<1>6. Intacto(x, running)'
  <2>1. MismoPrograma /\ MismaDuenia(p)
    BY <1>5 DEF MismoPrograma, MismaDuenia, Duenia
  <2>2. Intacto(x, p)'
    BY <1>2, <1>4, <1>5, <2>1, IntactoIgual
  <2> QED BY <1>3, <1>5, <2>2, IntactoCorriendo
<1>7. contador_rafaga' \in Nat /\ contador_rafaga' <= consumido[p]
      /\ (~desplazado[p] => contador_rafaga' = consumido[p])
  <2>1. consumido[p] \in Nat /\ contador_rafaga \in Nat
    BY <1>0 DEF Tipos
  <2>2. CASE atendiendo_interrupcion /\ p = pid_en_ejecucion
    BY <1>0, <1>1, <1>3, <2>1, <2>2 DEF Rafagas, Medido
  <2>3. CASE ~atendiendo_interrupcion /\ p = pid_en_ejecucion
    <3>1. estado[p] # "exit"
      BY <1>0, <1>3 DEF Lugares
    <3>2. consumido[p] = 0
      BY <1>0, <1>4, <2>3, <3>1 DEF Rafagas
    <3> QED BY <1>1, <1>3, <2>1, <2>3, <3>2
  <2>4. CASE p # pid_en_ejecucion
    <3>1. ~desplazado[p] => ~(consumido[p] > 0)
      BY <1>0, <2>4 DEF Rafagas
    <3>2. contador_rafaga' = 0
      BY <1>1, <1>3, <2>4
    <3> QED BY <2>1, <3>1, <3>2
  <2> QED BY <2>2, <2>3, <2>4
<1>8. desplazado'[p] <=> desplazado[p]
  <2>1. desplazado[p] \in BOOLEAN
    BY <1>0 DEF Tipos
  <2> QED BY <1>1, <1>3, <2>1
<1>9. Medido(running, contador_rafaga + transcurrido)'
  <2>1. contador_rafaga' + transcurrido' = contador_rafaga'
    <3>1. transcurrido' = 0
      BY <1>2
    <3>2. PICK n \in Nat : n = contador_rafaga'
      BY <1>7
    <3>3. n + 0 = n
      OBVIOUS
    <3> QED BY <3>1, <3>2, <3>3
  <2>2. consumido' = consumido /\ running' = p
    BY <1>2, <1>3, <1>5
  <2> QED BY <1>7, <1>8, <2>1, <2>2 DEF Medido
<1>10. x.rafaga = x.estimacion_anterior - (consumido'[running'] - transcurrido')
  <2>1. consumido[p] \in Nat
    BY <1>0 DEF Tipos
  <2> QED BY <1>2, <1>3, <1>4, <1>5, <2>1
<1>11. Ejecutando(x)'
  BY <1>1, <1>2, <1>4, <1>5, <1>6, <1>9, <1>10 DEF Ejecutando
<1>12. Corre'
  BY <1>0, <1>5 DEF Lugares, Corre
<1> QED BY <1>1, <1>3, <1>5, <1>11, <1>12 DEF Lugares, Corre

(* An instruction that is not I_O or EXIT leaves the pcb in the CPU, or    *)
(* takes it to the message of the interruption.                            *)
LEMMA LugarInstruccion ==
  ASSUME IndInv, Next, NEW d \in Duraciones, EjecutarInstruccion(d)
  PROVE  Lugares'
<1>0. Tipos /\ Lugares
  BY DEF IndInv
<1> DEFINE total == transcurrido + d
           mensaje(y) == MensajeInterrupcion(y, Tramo(total))
<1>1. /\ EnCiclo /\ Actual.tipo # EXIT /\ Anotar
      /\ consumido' = [consumido EXCEPT ![en_cpu.id] = @ + d]
      /\ UNCHANGED <<consola, recepcion, kernel, dispatch_cpu, pid_en_ejecucion, desplazado>>
      /\ \/ /\ en_cpu' = Avanzado /\ transcurrido' = total
            /\ UNCHANGED <<dispatch_kernel, atendiendo_interrupcion, contador_rafaga>>
         \/ /\ dispatch_kernel' = dispatch_kernel \o MensajeInterrupcion(Avanzado, total)
            /\ en_cpu' = SinPcb /\ atendiendo_interrupcion' = TRUE
  BY DEF EjecutarInstruccion, Entregar, canales, Tramo
<1>2. UNCHANGED <<running, estado, pcb>>
  BY <1>1 DEF kernel
<1>3. PICK y \in Pcbs(Instrucciones) :
        /\ y = Avanzado /\ Intacto(y, running)'
        /\ y.rafaga = en_cpu.rafaga /\ y.estimacion_anterior = en_cpu.estimacion_anterior
  BY <1>1, <1>2, IntactoAvanzado
<1>4. /\ running \in Pids /\ en_cpu.id = running /\ Ejecutando(en_cpu)
      /\ en_cpu \in Pcbs(Instrucciones)
  BY <1>1, PasoDeCiclo, LugarDeCpu DEF EnCiclo
<1>5. d \in Nat /\ transcurrido \in Nat /\ contador_rafaga \in Nat /\ consumido[running] \in Nat
  BY <1>0, <1>4, DuracionesAssumption DEF Tipos
<1>6. consumido'[running] = consumido[running] + d
  BY <1>0, <1>1, <1>4 DEF Tipos
<1>7. /\ dispatch_cpu = <<>> /\ dispatch_kernel = <<>>
      /\ en_cpu.rafaga = en_cpu.estimacion_anterior - (consumido[running] - transcurrido)
      /\ pid_en_ejecucion = running /\ ~atendiendo_interrupcion
      /\ contador_rafaga + transcurrido <= consumido[running]
      /\ ~desplazado[running] => contador_rafaga + transcurrido = consumido[running]
  BY <1>4 DEF Ejecutando, Medido
<1>8. total \in Nat /\ y.rafaga = y.estimacion_anterior - (consumido'[running] - total)
  <2>1. en_cpu.rafaga \in Int /\ en_cpu.estimacion_anterior \in Int
    BY <1>4 DEF Pcbs
  <2> QED BY <1>3, <1>5, <1>6, <1>7, <2>1
<1>9. Corre'
  BY <1>0, <1>2 DEF Lugares, Corre
<1>10. CASE en_cpu' = Avanzado /\ transcurrido' = total
            /\ UNCHANGED <<dispatch_kernel, atendiendo_interrupcion, contador_rafaga>>
  <2>1. Medido(running, contador_rafaga + transcurrido)'
    <3>1. contador_rafaga' + transcurrido' <= consumido'[running]
      BY <1>5, <1>6, <1>7, <1>10
    <3>2. ~desplazado[running] => contador_rafaga' + transcurrido' = consumido'[running]
      BY <1>5, <1>6, <1>7, <1>10
    <3> QED BY <1>1, <1>2, <3>1, <3>2 DEF Medido
  <2>2. y.rafaga = y.estimacion_anterior - (consumido'[running'] - transcurrido')
    BY <1>2, <1>8, <1>10
  <2>3. Ejecutando(y)'
    BY <1>1, <1>2, <1>3, <1>7, <1>10, <2>1, <2>2 DEF Ejecutando
  <2> QED BY <1>2, <1>4, <1>9, <2>3 DEF Lugares, Corre
<1>11. CASE /\ dispatch_kernel' = dispatch_kernel \o MensajeInterrupcion(Avanzado, total)
            /\ en_cpu' = SinPcb /\ atendiendo_interrupcion' = TRUE
  <2>r. PICK r : r = total
    OBVIOUS
  <2>1. dispatch_kernel' = MensajeInterrupcion(y, r)
    <3>1. MensajeInterrupcion(y, r) \in Seq(Int \union Instrucciones)
      <4>1. r \in Int
        BY <1>8, <2>r
      <4> QED BY <4>1, InterrupcionLeida
    <3>2. dispatch_kernel \o MensajeInterrupcion(y, r) = MensajeInterrupcion(y, r)
      BY <1>1, <3>1, PasoDeCiclo
    <3> QED BY <1>3, <1>11, <2>r, <3>2
  <2>2. y.rafaga = y.estimacion_anterior - (consumido'[running'] - r) /\ r \in Int
    BY <1>2, <1>8, <2>r
  <2>3. Interrumpido(y)'
    BY <1>1, <1>2, <1>3, <1>7, <1>11, <2>1, <2>2 DEF Interrumpido, SinPcb
  <2> QED BY <1>2, <1>4, <1>9, <2>3 DEF Lugares, Corre
<1> QED BY <1>1, <1>10, <1>11

(* I_O takes the pcb and the burst to the message.                         *)
LEMMA LugarIO ==
  ASSUME IndInv, Next, EjecutarIO
  PROVE  Lugares' /\ dispatch_kernel' # <<>>
<1>0. Tipos /\ Lugares
  BY DEF IndInv
<1>1. /\ EnCiclo /\ Actual.tipo # EXIT /\ Anotar
      /\ contador_rafaga' = contador_rafaga + transcurrido
      /\ dispatch_kernel'
           = dispatch_kernel \o MensajeBloqueo(Avanzado, Actual.params[1], contador_rafaga')
      /\ en_cpu' = SinPcb
      /\ UNCHANGED <<consola, recepcion, kernel, dispatch_cpu, pid_en_ejecucion, desplazado,
                     consumido, atendiendo_interrupcion>>
  BY DEF EjecutarIO, Entregar, I_O, EXIT
<1>2. UNCHANGED <<running, estado, pcb>>
  BY <1>1 DEF kernel
<1>3. PICK y \in Pcbs(Instrucciones) : y = Avanzado /\ Intacto(y, running)'
  BY <1>1, <1>2, IntactoAvanzado
<1>4. running \in Pids /\ Ejecutando(en_cpu) /\ Actual \in Instrucciones
  BY <1>1, PasoDeCiclo
<1>5. /\ dispatch_cpu = <<>> /\ dispatch_kernel = <<>>
      /\ pid_en_ejecucion = running /\ ~atendiendo_interrupcion
      /\ Medido(running, contador_rafaga + transcurrido)
  BY <1>4 DEF Ejecutando
<1>6. PICK t, b : t = Actual.params[1] /\ b = contador_rafaga + transcurrido
  OBVIOUS
<1>7. t \in Int /\ b \in Int
  <2>1. t \in Int
    <3>1. PICK i : i = Actual
      OBVIOUS
    <3>2. i.params[1] \in Int
      BY <1>4, <3>1 DEF Instrucciones, Instruccion
    <3> QED BY <1>6, <3>1, <3>2
  <2>2. transcurrido \in Nat /\ contador_rafaga \in Nat
    BY <1>0 DEF Tipos
  <2> QED BY <1>6, <2>1, <2>2
<1>8. dispatch_kernel' = MensajeBloqueo(y, t, b) /\ MensajeBloqueo(y, t, b) # <<>>
  <2>1. /\ MensajeBloqueo(y, t, b) \in Seq(Int \union Instrucciones)
        /\ MensajeBloqueo(y, t, b) # <<>>
    <3>1. EsBloqueo(Instrucciones, MensajeBloqueo(y, t, b), y, t, b)
      BY <1>7 DEF EsBloqueo
    <3>2. BloqueoEntero(Instrucciones, MensajeBloqueo(y, t, b), y, b)
      BY <3>1, BloqueoLeido
    <3> QED BY <3>2 DEF BloqueoEntero
  <2>2. dispatch_kernel \o MensajeBloqueo(y, t, b) = MensajeBloqueo(y, t, b)
    BY <1>1, <2>1, PasoDeCiclo
  <2> QED BY <1>1, <1>3, <1>6, <2>1, <2>2
<1>9. Medido(running, b)'
  BY <1>1, <1>2, <1>5, <1>6 DEF Medido
<1>10. Bloqueandose(y)'
  BY <1>1, <1>2, <1>3, <1>5, <1>7, <1>8, <1>9 DEF Bloqueandose, SinPcb
<1>11. Corre'
  BY <1>0, <1>2 DEF Lugares, Corre
<1> QED BY <1>2, <1>4, <1>8, <1>10, <1>11 DEF Lugares, Corre

(* EXIT is the last instruction: all has been executed.                    *)
LEMMA LugarExit ==
  ASSUME IndInv, Next, EjecutarExit
  PROVE  Lugares'
<1>0. Tipos /\ Lugares
  BY DEF IndInv
<1>1. /\ EnCiclo /\ Actual.tipo = EXIT /\ Anotar
      /\ dispatch_kernel' = dispatch_kernel \o MensajeExit /\ en_cpu' = SinPcb
      /\ UNCHANGED <<consola, recepcion, kernel, dispatch_cpu, pid_en_ejecucion>>
  BY DEF EjecutarExit, Entregar
<1>2. UNCHANGED <<running, estado, pcb, handler>>
  BY <1>1 DEF kernel, recepcion
<1>3. /\ running \in Pids /\ Ejecutando(en_cpu) /\ en_cpu.id = running
      /\ en_cpu.pc + 1 = Len(en_cpu.instrucciones)
      /\ Append(ejecutadas[running], Actual)
           = SubSeq(en_cpu.instrucciones, 1, en_cpu.pc + 1)
  BY <1>1, PasoDeCiclo
<1>4. /\ dispatch_cpu = <<>> /\ dispatch_kernel = <<>> /\ pid_en_ejecucion = running
      /\ Intacto(en_cpu, running)
  BY <1>3 DEF Ejecutando
<1>5. ejecutadas'[running] = en_cpu.instrucciones
  <2> DEFINE s == en_cpu.instrucciones
  <2>1. s \in Seq(Instrucciones)
    BY <1>3, <1>4, IntactoTipo
  <2>2. ejecutadas'[running] = Append(ejecutadas[running], Actual)
    BY <1>0, <1>1, <1>3 DEF Anotar, Tipos
  <2>3. ejecutadas'[running] = SubSeq(s, 1, Len(s))
    BY <1>3, <2>2
  <2> HIDE DEF s
  <2>4. SubSeq(s, 1, Len(s)) = s
    BY <2>1
  <2> QED BY <2>3, <2>4 DEF s
<1>6. \A c \in Consolas : Duenia(c, running)' => ejecutadas'[running'] = handler'[c].instrucciones
  BY <1>2, <1>4, <1>5 DEF Intacto, Duenia
<1>7. MensajeExit' = MensajeExit /\ dispatch_kernel \o MensajeExit = MensajeExit
  BY <1>4 DEF MensajeExit, PASAR_A_EXIT
<1>8. Saliendo'
  BY <1>1, <1>2, <1>4, <1>6, <1>7 DEF Saliendo, SinPcb
<1>9. Corre'
  BY <1>0, <1>2 DEF Lugares, Corre
<1> QED BY <1>2, <1>3, <1>8, <1>9 DEF Lugares, Corre

(* The dispatch of a process of ready: nothing else is on the way.         *)
LEMMA LugarDespachar ==
  ASSUME IndInv, Next, NEW p \in Pids, Despachar(p)
  PROVE  Lugares'
<1>0. Tipos /\ Lugares
  BY DEF IndInv
<1>1. /\ running = Nadie /\ estado[p] = "ready" /\ running' = p
      /\ estado' = [estado EXCEPT ![p] = "running"]
      /\ dispatch_cpu' = dispatch_cpu \o MensajeEjecutar(pcb[p])
      /\ UNCHANGED <<pcb, dispatch_kernel, en_cpu, ejecutadas, consumido>>
  BY DEF Despachar, cpu, historia
<1>2. Libre
  BY <1>0, <1>1, PidEsNumero DEF Lugares
<1>x. PICK x : x = pcb[p]
  OBVIOUS
<1>3. /\ x \in Pcbs(Instrucciones) /\ Intacto(x, p)
      /\ x.rafaga = x.estimacion_anterior - consumido[p]
  BY <1>1, <1>x DEF IndInv, PcbsDelKernel, EnKernel
<1>4. dispatch_cpu' = MensajeEjecutar(x)
  <2>1. MensajeEjecutar(x) \in Seq(Int \union Instrucciones)
    BY <1>3, EjecutarLeido
  <2>2. <<>> \o MensajeEjecutar(x) = MensajeEjecutar(x)
    BY <2>1
  <2> QED BY <1>1, <1>2, <1>x, <2>2 DEF Libre
<1>5. Intacto(x, running)'
  <2>1. MismoPrograma /\ MismaDuenia(p)
    BY <1>1, PasoPrograma
  <2>2. Intacto(x, p)'
    BY <1>1, <1>3, <2>1, IntactoIgual
  <2> QED BY <1>1, <2>2, IntactoCorriendo
<1>6. EnViaje(x)'
  BY <1>1, <1>2, <1>3, <1>4, <1>5 DEF EnViaje, Libre, SinPcb
<1>7. Corre'
  BY <1>0, <1>1, PidEsNumero DEF Lugares, Corre, Tipos
<1> QED BY <1>1, <1>3, <1>6, <1>7 DEF Lugares, Corre

(* The pcb of the process that is running goes from the kernel to the CPU  *)
(* and back, and is never in two places.                                   *)
LEMMA PasoLugares ==
  ASSUME IndInv, Next
  PROVE  Lugares'
<1>0. Tipos /\ Lugares
  BY DEF IndInv
<1>1. MismoPrograma /\ (running \in Pids => MismaDuenia(running))
  <2>1. running \in Pids => estado[running] # "inexistente"
    BY <1>0 DEF Lugares
  <2> QED BY <2>1, PasoPrograma
<1>2. ASSUME UNCHANGED <<running, canales, cpu, historia>>,
             \A p \in Pids : estado'[p] = "running" <=> estado[p] = "running",
             \A p \in Pids : estado[p] = "running" => pcb'[p] = pcb[p]
      PROVE  Lugares'
  <2>1. \A p \in Pids : p = running => pcb'[p].tabla_paginas = pcb[p].tabla_paginas
    BY <1>0, <1>2 DEF Lugares
  <2>2. /\ en_cpu' = en_cpu
        /\ pid_en_ejecucion' = pid_en_ejecucion
        /\ atendiendo_interrupcion' = atendiendo_interrupcion
        /\ transcurrido' = transcurrido /\ contador_rafaga' = contador_rafaga
    BY <1>2 DEF cpu
  <2>3. running' = running /\ canales' = canales /\ historia' = historia
    BY <1>2
  <2> QED BY <1>0, <1>1, <1>2, <2>1, <2>2, <2>3, LugarIgual
<1>3. ASSUME NEW c \in Consolas, Consola(c) \/ RecibirTam(c) \/ RecibirInstruccion(c)
      PROVE  Lugares'
  <2>1. UNCHANGED <<kernel, canales, cpu, historia>>
    BY <1>3 DEF Consola, EnviarTamProceso, EnviarLineaDe, EnviarFin, Enviar, RecibirTam,
                RecibirInstruccion
  <2> QED BY <1>2, <2>1 DEF kernel
<1>4. ASSUME NEW c \in Consolas, CrearProceso(c) PROVE Lugares'
  <2>1. PidNuevo \in Pids /\ estado[PidNuevo] = "inexistente"
    BY <1>4, PidLibre DEF CrearProceso
  <2>2. /\ estado' = [estado EXCEPT ![PidNuevo] = "new"]
        /\ pcb' = [pcb EXCEPT ![PidNuevo] = PcbNuevo(PidNuevo, c)]
        /\ UNCHANGED <<running, canales, cpu, historia>>
    BY <1>4 DEF CrearProceso
  <2> QED BY <1>0, <1>2, <2>1, <2>2 DEF Tipos
<1>r. ASSUME NEW c \in Consolas, Registrar(c) PROVE Lugares'
  BY <1>2, <1>r DEF Registrar
<1>5. ASSUME NEW p \in Pids, Admitir(p) \/ Desbloquear(p) PROVE Lugares'
  BY <1>0, <1>2, <1>5 DEF Admitir, Desbloquear, Tipos
<1>6. CASE RecibirBloqueo
  <2>1. PICK x \in Pcbs(Instrucciones) :
          /\ running \in Pids /\ x.id = running /\ dispatch_cpu = <<>> /\ en_cpu = SinPcb
          /\ LeerPcb(Desde(dispatch_kernel, 4)) = x /\ TrasPcb(dispatch_kernel, 3) = <<>>
    BY <1>6, LugarDeBloqueo DEF RecibirBloqueo, Intacto
  <2>2. /\ estado' = [estado EXCEPT ![running] = "bloqueado"] /\ running' = Nadie
        /\ dispatch_cpu' = <<>> /\ dispatch_kernel' = <<>> /\ en_cpu' = SinPcb
    BY <1>6, <2>1 DEF RecibirBloqueo, LiberarCpu, cpu
  <2> QED BY <1>0, <2>1, <2>2, LugarLiberado DEF Tipos
<1>7. CASE RecibirInterrumpido
  <2>1. PICK x \in Pcbs(Instrucciones) :
          /\ running \in Pids /\ x.id = running /\ dispatch_cpu = <<>> /\ en_cpu = SinPcb
          /\ LeerPcb(Desde(dispatch_kernel, 3)) = x /\ TrasPcb(dispatch_kernel, 2) = <<>>
    BY <1>7, LugarDeInterrupcion DEF RecibirInterrumpido, Intacto
  <2>2. /\ estado' = [estado EXCEPT ![running] = "ready"] /\ running' = Nadie
        /\ dispatch_cpu' = <<>> /\ dispatch_kernel' = <<>> /\ en_cpu' = SinPcb
    BY <1>7, <2>1 DEF RecibirInterrumpido, LiberarCpu, cpu
  <2> QED BY <1>0, <2>1, <2>2, LugarLiberado DEF Tipos
<1>8. CASE RecibirExit
  <2>1. running \in Pids /\ Saliendo /\ Tail(dispatch_kernel) = <<>>
    BY <1>8, LugarDeExit DEF RecibirExit
  <2>2. /\ estado' = [estado EXCEPT ![running] = "exit"] /\ running' = Nadie
        /\ dispatch_cpu' = <<>> /\ dispatch_kernel' = <<>> /\ en_cpu' = SinPcb
    BY <1>8, <2>1 DEF RecibirExit, LiberarCpu, cpu, Saliendo
  <2> QED BY <1>0, <2>1, <2>2, LugarLiberado DEF Tipos
<1>9. CASE Interrumpir
  <2>1. /\ UNCHANGED <<kernel, canales, historia>>
        /\ UNCHANGED <<en_cpu, pid_en_ejecucion, atendiendo_interrupcion, transcurrido,
                       contador_rafaga>>
    BY <1>9 DEF Interrumpir
  <2>2. UNCHANGED <<running, estado, pcb>>
    BY <2>1 DEF kernel
  <2> QED BY <1>0, <1>1, <2>1, <2>2, LugarIgual
<1>10. CASE Terminado
  BY <1>2, <1>10 DEF Terminado, vars, kernel
<1> QED BY <1>3, <1>4, <1>r, <1>5, <1>6, <1>7, <1>8, <1>9, <1>10, LugarDespachar,
           LugarRecibir, LugarInstruccion, LugarIO, LugarExit
        DEF Next, Handler, Kernel, Planificar, Cpu

-----------------------------------------------------------------------------
(* The bursts.                                                             *)

(* Steps that do not touch what they are measured with.                    *)
LEMMA RafagasIgual ==
  ASSUME Rafagas, UNCHANGED <<pid_en_ejecucion, consumido, desplazado, contador_rafaga,
                              atendiendo_interrupcion, en_cpu, dispatch_kernel>>,
         \A q \in Pids : estado[q] = "exit" => estado'[q] = "exit"
  PROVE  Rafagas'
<1>1. \A q \in Pids : \A n : Medido(q, n)' <=> Medido(q, n)
  BY DEF Medido
<1>2. SinPcb' = SinPcb
  BY DEF SinPcb
<1> QED BY <1>1, <1>2 DEF Rafagas, Medido

(* While an instruction is executed, only the process in execution is      *)
(* measured.                                                               *)
LEMMA RafagasEjecutar ==
  ASSUME IndInv, EnCiclo, UNCHANGED <<pid_en_ejecucion, desplazado>>,
         \A q \in Pids : q # running => consumido'[q] = consumido[q],
         atendiendo_interrupcion' => Medido(running, contador_rafaga)',
         ~atendiendo_interrupcion' => en_cpu' # SinPcb \/ dispatch_kernel' # <<>>,
         running' = running
  PROVE  Rafagas'
<1>1. running \in Pids /\ pid_en_ejecucion = running
  BY PasoDeCiclo DEF Ejecutando
<1>2. Rafagas
  BY DEF IndInv
<1>3. \A q \in Pids : q # pid_en_ejecucion' /\ consumido'[q] > 0 => desplazado'[q]
  <2> SUFFICES ASSUME NEW q \in Pids, q # pid_en_ejecucion', consumido'[q] > 0
               PROVE  desplazado'[q]
    OBVIOUS
  <2>1. q # running /\ consumido[q] > 0
    BY <1>1
  <2>2. desplazado[q]
    BY <1>1, <1>2, <2>1 DEF Rafagas
  <2>3. desplazado' = desplazado
    OBVIOUS
  <2> QED BY <2>2, <2>3, Zenon
<1>4. atendiendo_interrupcion' =>
        pid_en_ejecucion' \in Pids /\ Medido(pid_en_ejecucion, contador_rafaga)'
  BY <1>1 DEF Medido
<1>5. SinPcb' = SinPcb
  BY DEF SinPcb
<1> QED BY <1>3, <1>4, <1>5 DEF Rafagas

(* The counter of the CPU is the burst of the process it executed last,    *)
(* unless another came in between.                                         *)
LEMMA PasoRafagas ==
  ASSUME IndInv, Next
  PROVE  Rafagas'
<1>0. Tipos /\ Lugares /\ Rafagas
  BY DEF IndInv
<1>1. ASSUME NEW c \in Consolas, Consola(c) \/ RecibirTam(c) \/ RecibirInstruccion(c)
      PROVE  Rafagas'
  <2>1. UNCHANGED <<kernel, canales, cpu, historia>>
    BY <1>1 DEF Consola, EnviarTamProceso, EnviarLineaDe, EnviarFin, Enviar, RecibirTam,
                RecibirInstruccion
  <2> QED BY <1>0, <2>1, RafagasIgual DEF kernel, canales, cpu, historia
<1>2. ASSUME NEW c \in Consolas, CrearProceso(c) PROVE Rafagas'
  <2>1. PidNuevo \in Pids /\ estado[PidNuevo] = "inexistente"
    BY <1>2, PidLibre DEF CrearProceso
  <2>2. /\ estado' = [estado EXCEPT ![PidNuevo] = "new"]
        /\ UNCHANGED <<canales, cpu, historia>>
    BY <1>2 DEF CrearProceso
  <2>3. \A q \in Pids : estado[q] = "exit" => estado'[q] = "exit"
    BY <1>0, <2>1, <2>2 DEF Tipos
  <2> QED BY <1>0, <2>2, <2>3, RafagasIgual DEF canales, cpu, historia
<1>r. ASSUME NEW c \in Consolas, Registrar(c) PROVE Rafagas'
  BY <1>0, <1>r, RafagasIgual DEF Registrar, canales, cpu, historia
<1>3. ASSUME NEW p \in Pids, Admitir(p) \/ Despachar(p) \/ Desbloquear(p) PROVE Rafagas'
  <2>1. \A q \in Pids : estado[q] = "exit" => estado'[q] = "exit"
    BY <1>0, <1>3 DEF Admitir, Despachar, Desbloquear, Tipos
  <2>2. UNCHANGED <<dispatch_kernel, cpu, historia>>
    BY <1>3 DEF Admitir, Despachar, Desbloquear, canales
  <2> QED BY <1>0, <2>1, <2>2, RafagasIgual DEF cpu, historia
<1>4. CASE RecibirBloqueo
  <2>1. PICK x \in Pcbs(Instrucciones) :
          /\ running \in Pids /\ x.id = running
          /\ pid_en_ejecucion = running /\ ~atendiendo_interrupcion
          /\ LeerPcb(Desde(dispatch_kernel, 4)) = x
    BY <1>4, LugarDeBloqueo DEF RecibirBloqueo, Intacto
  <2>2. PICK p \in Pids : p = running
    BY <2>1
  <2>3. /\ consumido' = [consumido EXCEPT ![p] = 0]
        /\ desplazado' = [desplazado EXCEPT ![p] = FALSE]
        /\ UNCHANGED <<pid_en_ejecucion, atendiendo_interrupcion>>
    BY <1>4, <2>1, <2>2 DEF RecibirBloqueo, cpu
  <2>4. \A q \in Pids : q # pid_en_ejecucion' /\ consumido'[q] > 0 => desplazado'[q]
    <3> SUFFICES ASSUME NEW q \in Pids, q # pid_en_ejecucion', consumido'[q] > 0
                 PROVE  desplazado'[q]
      OBVIOUS
    <3>1. q # p
      BY <2>1, <2>2, <2>3
    <3>2. q # pid_en_ejecucion /\ consumido[q] > 0
      BY <1>0, <2>3, <3>1 DEF Tipos
    <3>3. desplazado[q]
      BY <1>0, <3>2 DEF Rafagas
    <3>4. desplazado'[q] = desplazado[q]
      BY <1>0, <2>3, <3>1 DEF Tipos
    <3> QED BY <3>3, <3>4, Zenon
  <2>5. consumido'[p] = 0 /\ pid_en_ejecucion' = p /\ ~atendiendo_interrupcion'
    BY <1>0, <2>1, <2>2, <2>3 DEF Tipos
  <2> QED BY <2>4, <2>5 DEF Rafagas
<1>5. CASE RecibirInterrumpido
  <2>1. atendiendo_interrupcion
    BY <1>5, LugarDeInterrupcion DEF RecibirInterrumpido
  <2>2. UNCHANGED <<pid_en_ejecucion, consumido, desplazado, contador_rafaga,
                    atendiendo_interrupcion>>
    BY <1>5 DEF RecibirInterrumpido, cpu, historia
  <2>3. Medido(pid_en_ejecucion, contador_rafaga)' <=> Medido(pid_en_ejecucion, contador_rafaga)
    BY <2>2 DEF Medido
  <2> QED BY <1>0, <2>1, <2>2, <2>3 DEF Rafagas
<1>6. CASE RecibirExit
  <2>1. running \in Pids /\ pid_en_ejecucion = running
    BY <1>6, LugarDeExit DEF RecibirExit, Saliendo
  <2>2. PICK p \in Pids : p = running
    BY <2>1
  <2>3. /\ estado' = [estado EXCEPT ![p] = "exit"]
        /\ UNCHANGED <<pid_en_ejecucion, consumido, desplazado, contador_rafaga,
                       atendiendo_interrupcion>>
    BY <1>6, <2>2 DEF RecibirExit, cpu, historia
  <2>4. estado'[p] = "exit"
    BY <1>0, <2>3 DEF Tipos
  <2>5. Medido(pid_en_ejecucion, contador_rafaga)' <=> Medido(pid_en_ejecucion, contador_rafaga)
    BY <2>3 DEF Medido
  <2> QED BY <1>0, <2>1, <2>2, <2>3, <2>4, <2>5 DEF Rafagas
<1>7. CASE Recibir
  <2>1. PICK x \in Pcbs(Instrucciones) :
          /\ en_cpu' = x /\ pid_en_ejecucion' = running
          /\ desplazado' = [q \in Pids |-> desplazado[q] \/ (q # running /\ consumido[q] > 0)]
    BY <1>7, EfectoRecibir
  <2>2. ~atendiendo_interrupcion' /\ consumido' = consumido
    BY <1>7 DEF Recibir
  <2>3. en_cpu' # SinPcb
    BY <2>1, PcbNoVacio
  <2>4. \A q \in Pids : q # pid_en_ejecucion' /\ consumido'[q] > 0 => desplazado'[q]
    BY <2>1, <2>2
  <2>5. SinPcb' = SinPcb
    BY DEF SinPcb
  <2> QED BY <2>2, <2>3, <2>4, <2>5 DEF Rafagas
<1>8. ASSUME NEW d \in Duraciones, EjecutarInstruccion(d) PROVE Rafagas'
  <2> DEFINE total == transcurrido + d
  <2>1. /\ EnCiclo
        /\ consumido' = [consumido EXCEPT ![en_cpu.id] = @ + d]
        /\ UNCHANGED <<kernel, pid_en_ejecucion, desplazado>>
        /\ \/ /\ en_cpu' = Avanzado
              /\ UNCHANGED <<atendiendo_interrupcion, contador_rafaga>>
           \/ contador_rafaga' = contador_rafaga + total /\ atendiendo_interrupcion' = TRUE
    BY <1>8 DEF EjecutarInstruccion, Entregar
  <2>2. /\ running \in Pids /\ en_cpu.id = running /\ Ejecutando(en_cpu)
        /\ Avanzado \in Pcbs(Instrucciones)
    BY <2>1, PasoDeCiclo
  <2>3. /\ Medido(running, contador_rafaga + transcurrido) /\ ~atendiendo_interrupcion
        /\ running' = running
    BY <2>1, <2>2 DEF Ejecutando, kernel
  <2>4. \A q \in Pids : q # running => consumido'[q] = consumido[q]
    BY <1>0, <2>1, <2>2 DEF Tipos
  <2>5. atendiendo_interrupcion' => Medido(running, contador_rafaga)'
    <3> SUFFICES ASSUME atendiendo_interrupcion' PROVE Medido(running, contador_rafaga)'
      OBVIOUS
    <3>1. contador_rafaga' = contador_rafaga + total
      BY <2>1, <2>3
    <3>2. consumido'[running] = consumido[running] + d
      BY <1>0, <2>1, <2>2 DEF Tipos
    <3>3. d \in Nat /\ transcurrido \in Nat /\ contador_rafaga \in Nat
          /\ consumido[running] \in Nat
      BY <1>0, <2>2, DuracionesAssumption DEF Tipos
    <3>4. contador_rafaga' <= consumido'[running]
          /\ (~desplazado[running] => contador_rafaga' = consumido'[running])
      BY <2>3, <3>1, <3>2, <3>3 DEF Medido
    <3> QED BY <2>1, <2>3, <3>4 DEF Medido
  <2>6. ~atendiendo_interrupcion' => en_cpu' # SinPcb \/ dispatch_kernel' # <<>>
    BY <2>1, <2>2, PcbNoVacio
  <2> QED BY <2>1, <2>3, <2>4, <2>5, <2>6, RafagasEjecutar
<1>9. CASE EjecutarIO
  <2>1. /\ EnCiclo
        /\ UNCHANGED <<kernel, pid_en_ejecucion, desplazado, consumido,
                       atendiendo_interrupcion>>
    BY <1>9 DEF EjecutarIO, Entregar
  <2>2. /\ ~atendiendo_interrupcion /\ running' = running
    BY <2>1, PasoDeCiclo DEF Ejecutando, kernel
  <2>3. dispatch_kernel' # <<>>
    BY <1>9, LugarIO
  <2> QED BY <2>1, <2>2, <2>3, RafagasEjecutar
<1>10. CASE EjecutarExit
  <2>1. /\ EnCiclo /\ dispatch_kernel' = dispatch_kernel \o MensajeExit
        /\ UNCHANGED <<kernel, pid_en_ejecucion, desplazado, consumido,
                       atendiendo_interrupcion>>
    BY <1>10 DEF EjecutarExit, Entregar
  <2>2. /\ ~atendiendo_interrupcion /\ running' = running /\ dispatch_kernel = <<>>
    BY <2>1, PasoDeCiclo DEF Ejecutando, kernel
  <2>3. dispatch_kernel' # <<>>
    BY <2>1, <2>2 DEF MensajeExit, PASAR_A_EXIT
  <2> QED BY <2>1, <2>2, <2>3, RafagasEjecutar
<1>11. CASE Interrumpir \/ Terminado
  BY <1>0, <1>11, RafagasIgual DEF Interrumpir, Terminado, vars, kernel, canales, cpu, historia
<1> QED BY <1>1, <1>2, <1>r, <1>3, <1>4, <1>5, <1>6, <1>7, <1>8, <1>9, <1>10, <1>11
        DEF Next, Handler, Kernel, Planificar, Cpu

(* A step of something else.                                               *)
LEMMA Tartamudeo ==
  ASSUME IndInv, UNCHANGED vars
  PROVE  IndInv'
<1>0. /\ UNCHANGED <<archivo, tam_pedido, enviado, avisada, socket, handler>>
      /\ UNCHANGED <<pid_contador, relaciones, estado, pcb, tablas_creadas, running>>
      /\ UNCHANGED <<sin_registrar, sem_sincro_ready, caido>>
      /\ UNCHANGED <<dispatch_cpu, dispatch_kernel, hay_interrupciones, en_cpu,
                     pid_en_ejecucion, atendiendo_interrupcion, transcurrido,
                     contador_rafaga, ejecutadas, consumido, desplazado>>
  BY DEF vars, consola, recepcion, kernel, registro, canales, cpu, historia
<1>1. Tipos'
  BY <1>0 DEF IndInv, Tipos
<1>2. Recepcion'
  BY <1>0, EtapaAjena DEF IndInv, Recepcion, Etapa
<1>3. Procesos'
  BY <1>0, ProcesosIgual DEF IndInv
<1>4. Relaciones'
  <2>1. Vigentes' = Vigentes
    BY <1>0 DEF Vigentes, Duenia
  <2> QED BY <1>0, <2>1 DEF IndInv, Relaciones, Pids
<1>5. MismoPrograma /\ \A p \in Pids : MismaDuenia(p)
  BY <1>0 DEF MismoPrograma, MismaDuenia, Duenia
<1>6. PcbsDelKernel'
  <2>1. \A p \in Pids : PcbEnSuSitio(p)'
    BY <1>0, <1>5, PcbAjeno DEF IndInv, PcbsDelKernel, PcbEnSuSitio
  <2> QED BY <2>1 DEF PcbsDelKernel, PcbEnSuSitio
<1>7. Lugares'
  BY <1>0, <1>5, LugarIgual DEF IndInv, canales, historia
<1>8. Rafagas'
  BY <1>0, RafagasIgual DEF IndInv
<1> QED BY <1>1, <1>2, <1>3, <1>4, <1>6, <1>7, <1>8 DEF IndInv

(* In every state a process and its pcb are where the code says, and what  *)
(* has been executed is a beginning of its file.                           *)
THEOREM Inductiva == Spec => []IndInv
<1>1. IndInv /\ Next => IndInv'
  BY PasoTipos, PasoRecepcion, PasoProcesos, PasoRelaciones, PasoPcbs, PasoLugares, PasoRafagas
     DEF IndInv
<1>2. IndInv /\ UNCHANGED vars => IndInv'
  BY Tartamudeo
<1> QED BY <1>1, <1>2, IndInvInit, PTL DEF Spec

-----------------------------------------------------------------------------
(* What the runs check, for every value of the constants.                  *)

(* TypeOK: every pcb, in the kernel or in the CPU, is one of a process     *)
(* that memory has given a table of its own range.                         *)
THEOREM TiposEjecucion == Spec => []TypeOK
<1>1. IndInv => TypeOK
  <2> SUFFICES ASSUME IndInv PROVE TypeOK
    OBVIOUS
  <2> USE DEF IndInv
  <2>1. \A c \in Consolas : enviado[c] \in 0 .. Len(archivo[c]) + 2
    BY ArchivoDe
  <2>2. pid_contador \in 0 .. Cardinality(Consolas)
    <3> DEFINE T == {c \in Consolas : handler[c].paso = "terminado"}
    <3>1. T \subseteq Consolas /\ pid_contador = Cardinality(T)
      BY DEF Procesos
    <3> HIDE DEF T
    <3>2. Cardinality(T) \in Nat /\ Cardinality(Consolas) \in Nat
          /\ Cardinality(T) <= Cardinality(Consolas)
      BY <3>1, ConsolasAssumption, FS_Subset, FS_CardinalityType
    <3> QED BY <3>1, <3>2
  <2>3. \A p \in Pids : pcb[p] = SinPcb \/ EsPcb(pcb[p])
    BY DEF PcbsDelKernel
  <2>4. \A p \in Pids : (pcb[p] = SinPcb) = (estado[p] \in {"inexistente", "exit"})
    BY PcbNoVacio DEF PcbsDelKernel
  <2>5. en_cpu = SinPcb \/ EsPcb(en_cpu)
    <3> SUFFICES ASSUME en_cpu # SinPcb PROVE EsPcb(en_cpu)
      OBVIOUS
    <3>1. running \in Pids /\ Intacto(en_cpu, running)
      BY LugarDeCpu DEF Ejecutando
    <3> QED BY <3>1, IntactoTipo
  <2>6. sin_registrar \subseteq Consolas /\ sem_sincro_ready \in Nat /\ caido \in BOOLEAN
    BY DEF Relaciones
  <2> QED BY <2>1, <2>2, <2>3, <2>4, <2>5, <2>6 DEF TypeOK, Tipos
<1> QED BY <1>1, Inductiva, PTL

(* FetchEnRango: what is in the CPU has an instruction to execute.         *)
THEOREM FetchSiempreEnRango == Spec => []FetchEnRango
<1>1. IndInv => FetchEnRango
  BY LugarDeCpu, IntactoTipo DEF FetchEnRango, Ejecutando
<1> QED BY <1>1, Inductiva, PTL

(* RafagaDescontada: the estimate ready is sorted by has been lowered by   *)
(* all that the process has executed since it last blocked.                *)
THEOREM RafagaSiempreDescontada == Spec => []RafagaDescontada
<1>1. IndInv => RafagaDescontada
  BY DEF IndInv, PcbsDelKernel, RafagaDescontada
<1> QED BY <1>1, Inductiva, PTL

(* RafagaInformada: the burst in the message is what was executed, or less *)
(* if another process was executed in the middle of it.                    *)
THEOREM RafagaBienInformada == Spec => []RafagaInformada
<1>1. IndInv => RafagaInformada
  <2> SUFFICES ASSUME IndInv, RecibeDeCpu(PASAR_A_BLOQUEADO)
               PROVE  LET p == LeerPcb(Desde(dispatch_kernel, 4)).id
                      IN  /\ dispatch_kernel[3] <= consumido[p]
                          /\ ~desplazado[p] => dispatch_kernel[3] = consumido[p]
    BY DEF RafagaInformada
  <2>1. PICK x \in Pcbs(Instrucciones), b \in Int :
          /\ Intacto(x, running) /\ Medido(running, b)
          /\ LeerPcb(Desde(dispatch_kernel, 4)) = x /\ dispatch_kernel[3] = b
    BY LugarDeBloqueo
  <2>2. x.id = running
    BY <2>1 DEF Intacto
  <2> QED BY <2>1, <2>2 DEF Medido
<1> QED BY <1>1, Inductiva, PTL

(* The console of a process is the one whose handler created it.           *)
LEMMA ConsolaUnica ==
  ASSUME IndInv, NEW p \in Pids, estado[p] # "inexistente"
  PROVE  ConsolaDe(p) \in Consolas /\ Duenia(ConsolaDe(p), p)
<1>1. \E c \in Consolas : handler[c].pid_creado = p
  BY ConConsola DEF Duenia
<1> QED BY <1>1 DEF ConsolaDe, Duenia

(* Where a pcb is while its process is running.                            *)
LEMMA PcbCorriendo ==
  ASSUME IndInv, NEW p \in Pids, estado[p] = "running", ~RecibeDeCpu(PASAR_A_EXIT)
  PROVE  PcbDe(p) \in Pcbs(Instrucciones) /\ Intacto(PcbDe(p), p)
<1>1. p = running /\ running \in Pids /\ estado[p] \notin EnKernel
  BY DEF IndInv, Lugares, EnKernel
<1>2. ~Libre /\ ~Saliendo
  <2>1. ~Libre
    BY <1>1, PidEsNumero DEF Libre
  <2>2. ASSUME Saliendo PROVE FALSE
    <3>1. dispatch_kernel = MensajeExit /\ MensajeExit # <<>> /\ Head(MensajeExit) = PASAR_A_EXIT
      BY <2>2 DEF Saliendo, MensajeExit, PASAR_A_EXIT
    <3> QED BY <3>1 DEF RecibeDeCpu
  <2> QED BY <2>1, <2>2
<1>3. PICK x \in Pcbs(Instrucciones) :
        EnViaje(x) \/ Ejecutando(x) \/ Bloqueandose(x) \/ Interrumpido(x)
  BY <1>2 DEF IndInv, Lugares
<1>4. Intacto(x, p)
  BY <1>1, <1>3 DEF EnViaje, Ejecutando, Bloqueandose, Interrumpido
<1>5. PcbDe(p) = x
  <2>1. CASE Ejecutando(x)
    BY <1>1, <2>1, PcbNoVacio DEF PcbDe, Ejecutando
  <2>2. CASE EnViaje(x)
    <3>1. en_cpu = SinPcb /\ dispatch_cpu # <<>> /\ LeerPcb(Tail(dispatch_cpu)) = x
      BY <2>2, EjecutarLeido DEF EnViaje
    <3> QED BY <1>1, <3>1 DEF PcbDe, EnMensaje
  <2>3. CASE Bloqueandose(x)
    <3>1. PICK t \in Int, b \in Int : dispatch_kernel = MensajeBloqueo(x, t, b)
      BY <2>3 DEF Bloqueandose
    <3>2. en_cpu = SinPcb /\ dispatch_cpu = <<>>
      BY <2>3 DEF Bloqueandose
    <3>3. EsBloqueo(Instrucciones, dispatch_kernel, x, t, b)
      BY <3>1 DEF EsBloqueo
    <3>4. BloqueoEntero(Instrucciones, dispatch_kernel, x, b)
      BY <3>3, BloqueoLeido
    <3>5. RecibeDeCpu(PASAR_A_BLOQUEADO) /\ LeerPcb(Desde(dispatch_kernel, 4)) = x
      BY <3>4 DEF BloqueoEntero, RecibeDeCpu
    <3> QED BY <1>1, <3>2, <3>5 DEF PcbDe, EnMensaje
  <2>4. CASE Interrumpido(x)
    <3>1. PICK r \in Int : dispatch_kernel = MensajeInterrupcion(x, r)
      BY <2>4 DEF Interrumpido
    <3>2. en_cpu = SinPcb /\ dispatch_cpu = <<>>
      BY <2>4 DEF Interrumpido
    <3>3. /\ dispatch_kernel # <<>> /\ Head(dispatch_kernel) = PASAR_A_READY
          /\ LeerPcb(Desde(dispatch_kernel, 3)) = x
      BY <3>1, InterrupcionLeida
    <3>4. RecibeDeCpu(PASAR_A_READY) /\ ~RecibeDeCpu(PASAR_A_BLOQUEADO)
      BY <3>3 DEF RecibeDeCpu, PASAR_A_READY, PASAR_A_BLOQUEADO
    <3> QED BY <1>1, <3>2, <3>3, <3>4 DEF PcbDe, EnMensaje
  <2> QED BY <1>3, <2>1, <2>2, <2>3, <2>4
<1> QED BY <1>4, <1>5

(* PcbConservado: from the kernel to the CPU and back, a pcb stays that of *)
(* its process, and says how far its program has gone.                     *)
THEOREM PcbSiempreConservado == Spec => []PcbConservado
<1>1. IndInv => PcbConservado
  <2> SUFFICES ASSUME IndInv, NEW p \in Pids,
                      \/ estado[p] \in EnKernel
                      \/ estado[p] = "running" /\ ~RecibeDeCpu(PASAR_A_EXIT)
               PROVE  LET x == PcbDe(p)
                          c == ConsolaDe(p)
                      IN  /\ x.id = p
                          /\ x.tam_proceso = tam_pedido[c]
                          /\ x.instrucciones = handler[c].instrucciones
                          /\ x.tabla_paginas = pcb[p].tabla_paginas
                          /\ ejecutadas[p] = SubSeq(x.instrucciones, 1, x.pc)
    BY DEF PcbConservado
  <2>1. Intacto(PcbDe(p), p)
    <3>1. CASE estado[p] \in EnKernel
      BY <3>1 DEF IndInv, PcbsDelKernel, PcbDe
    <3> QED BY <3>1, PcbCorriendo
  <2>2. ConsolaDe(p) \in Consolas /\ Duenia(ConsolaDe(p), p)
    BY ConsolaUnica DEF EnKernel
  <2> QED BY <2>1, <2>2 DEF Intacto
<1> QED BY <1>1, Inductiva, PTL

-----------------------------------------------------------------------------
(* Every console executes its file, and only then is told.                 *)

(* What a line asks for is what it is sent as, however it is written: the  *)
(* NO_OP of n is n of them.                                                *)
LEMMA LineaPedida ==
  ASSUME NEW linea \in Lineas
  PROVE  Pedidas(linea) = InstruccionesDe(linea)
<1> USE DEF NO_OP, I_O, READ, WRITE, COPY, EXIT
<1> DEFINE n == linea.numeros
<1>1. linea.palabra \in {"NO_OP", "I/O", "READ"} => Len(n) = 1 /\ n[1] \in Int
  <2> SUFFICES ASSUME linea.palabra \in {"NO_OP", "I/O", "READ"}
               PROVE  Len(n) = 1 /\ n[1] \in Int
    OBVIOUS
  <2>1. n \in [1 .. 1 -> Int]
    BY DEF Lineas
  <2> QED BY <2>1
<1>2. linea.palabra \in {"WRITE", "COPY"} => Len(n) = 2
  <2> SUFFICES ASSUME linea.palabra \in {"WRITE", "COPY"} PROVE Len(n) = 2
    OBVIOUS
  <2>1. n \in [1 .. 2 -> Int]
    BY DEF Lineas
  <2> QED BY <2>1
<1>3. linea.palabra = "EXIT" => Len(n) = 0
  BY DEF Lineas
<1>4. CASE linea.palabra = "NO_OP"
  <2> DEFINE veces == IF n[1] > 1 THEN n[1] ELSE 1
             x == Instruccion(NO_OP, 0, 0)
             m == Repetidas(n[1])
  <2>1. m \in Nat /\ veces = m + 1
    BY <1>1, <1>4 DEF Repetidas
  <2>2. TipoDe(linea.palabra) = NO_OP
    BY <1>4 DEF TipoDe
  <2>3. Pedidas(linea) = [j \in 1 .. veces |-> x]
    <3>1. Len(n) = 1
      BY <1>1, <1>4
    <3> QED BY <1>4, <2>2, <3>1 DEF Pedidas
  <2>4. InstruccionesDe(linea) = [k \in 1 .. m |-> x] \o <<x>>
    <3> DEFINE tipo == TipoDe(linea.palabra)
               s == [k \in 1 .. m |-> x] \o <<x>>
    <3>1. InstruccionesDe(linea)
            = CASE tipo = NO_OP -> s
                [] tipo \in {I_O, READ} -> <<Instruccion(tipo, n[1], 0)>>
                [] tipo \in {WRITE, COPY} -> <<Instruccion(tipo, n[1], n[2])>>
                [] tipo = EXIT -> <<Instruccion(EXIT, 0, 0)>>
      BY DEF InstruccionesDe
    <3> HIDE DEF s, tipo
    <3>2. InstruccionesDe(linea) = s
      BY <2>2, <3>1 DEF tipo
    <3> QED BY <3>2 DEF s
  <2> HIDE DEF veces, x, m
  <2>5. [k \in 1 .. m |-> x] \o <<x>> = [j \in 1 .. m + 1 |-> x]
    BY <2>1
  <2> QED BY <2>1, <2>3, <2>4, <2>5
<1>5. CASE linea.palabra \in {"I/O", "READ"}
  <2>1. PICK tipo \in {I_O, READ} : TipoDe(linea.palabra) = tipo
    BY <1>5 DEF TipoDe
  <2>2. Len(n) = 1
    BY <1>1, <1>5
  <2>3. InstruccionesDe(linea) = <<Instruccion(tipo, n[1], 0)>>
    BY <2>1 DEF InstruccionesDe
  <2>4. Pedidas(linea) = [j \in 1 .. 1 |-> Instruccion(tipo, n[1], 0)]
    BY <1>5, <2>1, <2>2 DEF Pedidas
  <2> QED BY <2>3, <2>4
<1>6. CASE linea.palabra \in {"WRITE", "COPY"}
  <2>1. PICK tipo \in {WRITE, COPY} : TipoDe(linea.palabra) = tipo
    BY <1>6 DEF TipoDe
  <2>2. Len(n) = 2
    BY <1>2, <1>6
  <2>3. InstruccionesDe(linea) = <<Instruccion(tipo, n[1], n[2])>>
    BY <2>1 DEF InstruccionesDe
  <2>4. Pedidas(linea) = [j \in 1 .. 1 |-> Instruccion(tipo, n[1], n[2])]
    BY <1>6, <2>1, <2>2 DEF Pedidas
  <2> QED BY <2>3, <2>4
<1>7. CASE linea.palabra = "EXIT"
  <2>1. TipoDe(linea.palabra) = EXIT
    BY <1>7 DEF TipoDe
  <2>2. Len(n) = 0
    BY <1>3, <1>7
  <2>3. InstruccionesDe(linea) = <<Instruccion(EXIT, 0, 0)>>
    BY <2>1 DEF InstruccionesDe
  <2>4. Pedidas(linea) = [j \in 1 .. 1 |-> Instruccion(EXIT, 0, 0)]
    BY <1>7, <2>1, <2>2 DEF Pedidas
  <2> QED BY <2>3, <2>4
<1>8. linea.palabra \in {"NO_OP", "I/O", "READ", "WRITE", "COPY", "EXIT"}
  BY DEF Lineas
<1> QED BY <1>4, <1>5, <1>6, <1>7, <1>8

(* What a file says is what its lines are sent as, one after the other.    *)
LEMMA Escrita ==
  ASSUME IndInv, NEW c \in Consolas
  PROVE  Escritas[c] = Hasta(archivo[c], Len(archivo[c]))
<1> DEFINE a == archivo[c]
<1>1. EsArchivo(a) /\ DOMAIN a = 1 .. Len(a)
  BY ArchivoDe DEF IndInv
<1>2. \A k \in 1 .. Len(a) : a[k] \in Lineas
  BY <1>1 DEF EsArchivo
<1>3. [k \in DOMAIN a |-> Pedidas(a[k])] = DeCadaLinea(a, Len(a))
  BY <1>1, <1>2, LineaPedida DEF DeCadaLinea
<1>4. Escritas[c] = FlattenSeq([k \in DOMAIN a |-> Pedidas(a[k])])
  BY DEF Escritas
<1> QED BY <1>3, <1>4 DEF Hasta

(* The program of a console is its handler's, once it has a process.       *)
LEMMA EscritaLeida ==
  ASSUME IndInv, NEW c \in Consolas, handler[c].pid_creado # Nadie
  PROVE  Escritas[c] = handler[c].instrucciones
BY Escrita, ProgramaEntero DEF IndInv

(* The files do not change.                                                *)
LEMMA ArchivosQuedan ==
  ASSUME [Next]_vars
  PROVE  archivo' = archivo /\ Escritas' = Escritas
<1>1. archivo' = archivo
  BY DEF Next, Consola, EnviarTamProceso, EnviarLineaDe, EnviarFin, Enviar, Handler, RecibirTam,
         RecibirInstruccion, CrearProceso, Registrar, Kernel, Planificar, Admitir, Despachar,
         Desbloquear,
         RecibirBloqueo, RecibirInterrumpido, RecibirExit, Interrumpir, Cpu, Recibir,
         EjecutarInstruccion, EjecutarIO, EjecutarExit, Entregar, Terminado, vars, consola
<1> QED BY <1>1 DEF Escritas

(* A console whose process executes has not been told.                     *)
LEMMA DueniaDeLaQueCorre ==
  ASSUME IndInv, running \in Pids
  PROVE  \E c \in Consolas :
           /\ Duenia(c, running) /\ handler[c].pid_creado = running
           /\ EjecutadasPor[c] = ejecutadas[running]
           /\ Escritas[c] = handler[c].instrucciones
           /\ ~avisada[c]
           /\ \A d \in Consolas : d # c => handler[d].pid_creado # running
<1>1. estado[running] = "running"
  BY DEF IndInv, Lugares
<1>2. PICK c \in Consolas : Duenia(c, running) /\ \A d \in Consolas : Duenia(d, running) => d = c
  BY <1>1, ConConsola
<1>3. handler[c].pid_creado = running /\ running # Nadie
  BY <1>2, PidEsNumero DEF Duenia
<1>4. EjecutadasPor[c] = ejecutadas[running]
  BY <1>3 DEF EjecutadasPor
<1>5. Escritas[c] = handler[c].instrucciones
  BY <1>3, EscritaLeida
<1>6. ~avisada[c]
  <2> SUFFICES ASSUME avisada[c] PROVE FALSE
    OBVIOUS
  <2>1. estado[running] = "exit"
    BY <1>2, Zenon DEF IndInv, Procesos
  <2> QED BY <1>1, <2>1
<1> QED BY <1>2, <1>3, <1>4, <1>5, <1>6 DEF Duenia

(* An instruction of the CPU is the next of the file of one console.       *)
LEMMA EjecutarImplementa ==
  ASSUME IndInv, Next, EnCiclo, Anotar, UNCHANGED <<handler, avisada>>
  PROVE  \E c \in Consolas : Programa!Ejecutar(c)
<1>1. /\ running \in Pids /\ en_cpu.id = running /\ Ejecutando(en_cpu)
  BY PasoDeCiclo
<1>2. PICK c \in Consolas :
        /\ Duenia(c, running) /\ handler[c].pid_creado = running
        /\ EjecutadasPor[c] = ejecutadas[running]
        /\ Escritas[c] = handler[c].instrucciones
        /\ ~avisada[c]
        /\ \A d \in Consolas : d # c => handler[d].pid_creado # running
  BY <1>1, DueniaDeLaQueCorre
<1> DEFINE s == en_cpu.instrucciones
           n == en_cpu.pc
<1>3. Intacto(en_cpu, running)
  BY <1>1 DEF Ejecutando
<1>4. /\ s \in Seq(Instrucciones) /\ n \in Nat /\ n < Len(s)
  BY <1>1, <1>3, IntactoTipo
<1>5. s = handler[c].instrucciones /\ ejecutadas[running] = SubSeq(s, 1, n)
  BY <1>2, <1>3 DEF Intacto
<1>6. Actual = s[n + 1]
  BY DEF Actual
<1> HIDE DEF s, n
<1>7. Len(SubSeq(s, 1, n)) = n
  BY <1>4
<1>8. Len(EjecutadasPor[c]) < Len(Escritas[c]) /\ Escritas[c][Len(EjecutadasPor[c]) + 1] = Actual
  BY <1>2, <1>4, <1>5, <1>6, <1>7
<1>9. EjecutadasPor' = [EjecutadasPor EXCEPT ![c] = Append(@, Actual)]
  <2>1. DOMAIN ejecutadas = Pids
    BY DEF IndInv, Tipos
  <2>2. \A p : p # running => ejecutadas'[p] = ejecutadas[p]
    BY <1>1, <2>1 DEF Anotar
  <2>3. ejecutadas'[running] = Append(ejecutadas[running], Actual)
    BY <1>1, <2>1 DEF Anotar
  <2>4. running # Nadie
    BY <1>1, PidEsNumero
  <2>5. \A d \in Consolas : EjecutadasPor'[d]
          = IF d = c THEN Append(EjecutadasPor[c], Actual) ELSE EjecutadasPor[d]
    BY <1>2, <2>2, <2>3, <2>4 DEF EjecutadasPor
  <2>6. /\ EjecutadasPor' = [d \in Consolas |->
              IF handler'[d].pid_creado = Nadie THEN <<>>
              ELSE ejecutadas'[handler'[d].pid_creado]]
        /\ DOMAIN EjecutadasPor = Consolas
    BY DEF EjecutadasPor
  <2> QED BY <2>5, <2>6
<1>10. Escritas' = Escritas
  BY ArchivosQuedan
<1>11. Programa!Ejecutar(c)
  BY <1>2, <1>8, <1>9, <1>10 DEF Programa!Ejecutar
<1> QED BY <1>11

(* The kernel tells a console when its file has been executed.             *)
LEMMA AvisarImplementa ==
  ASSUME IndInv, Next, RecibirExit, avisada' # avisada
  PROVE  \E c \in Consolas : Programa!Avisar(c)
<1>1. running \in Pids /\ Saliendo
  BY LugarDeExit DEF RecibirExit
<1>2. PICK c \in Consolas :
        /\ Duenia(c, running)
        /\ EjecutadasPor[c] = ejecutadas[running]
        /\ Escritas[c] = handler[c].instrucciones
        /\ ~avisada[c]
        /\ \A d \in Consolas : d # c => handler[d].pid_creado # running
  BY <1>1, DueniaDeLaQueCorre
<1>3. EjecutadasPor[c] = Escritas[c]
  BY <1>1, <1>2 DEF Saliendo
<1>4. avisada' = [avisada EXCEPT ![c] = TRUE]
  <2>1. PICK k \in DOMAIN relaciones :
          /\ relaciones[k].pid = running
          /\ avisada' = [avisada EXCEPT ![relaciones[k].conexion_consola] = TRUE]
    BY DEF RecibirExit, AvisarConsola
  <2>2. relaciones \in Seq(Vigentes)
    BY DEF IndInv, Relaciones
  <2>3. relaciones[k] \in Vigentes
    BY <2>2
  <2>4. relaciones[k].conexion_consola \in Consolas
        /\ handler[relaciones[k].conexion_consola].pid_creado = running
    BY <2>1, <2>3 DEF Vigentes, Duenia
  <2>5. relaciones[k].conexion_consola = c
    BY <1>2, <2>4
  <2> QED BY <2>1, <2>5
<1>5. EjecutadasPor' = EjecutadasPor
  BY DEF RecibirExit, EjecutadasPor, recepcion, historia
<1>6. Escritas' = Escritas
  BY ArchivosQuedan
<1>7. Programa!Avisar(c)
  BY <1>2, <1>3, <1>4, <1>5, <1>6 DEF Programa!Avisar
<1> QED BY <1>7

(* A step that neither executes nor tells is nothing for the consoles.     *)
LEMMA NadaParaConsolas ==
  ASSUME [Next]_vars, avisada' = avisada, EjecutadasPor' = EjecutadasPor
  PROVE  UNCHANGED Programa!vars
  BY ArchivosQuedan DEF Programa!vars

(* A process that is created has executed nothing.                         *)
LEMMA CrearImplementa ==
  ASSUME IndInv, Next, NEW c \in Consolas, CrearProceso(c)
  PROVE  UNCHANGED Programa!vars
<1>n. PICK n : n = PidNuevo
  OBVIOUS
<1>1. /\ n \in Pids /\ n # Nadie /\ ejecutadas[n] = <<>>
  <2>1. n \in Pids /\ n # Nadie /\ estado[n] = "inexistente"
    BY <1>n, PidLibre DEF CrearProceso
  <2> QED BY <2>1 DEF IndInv, PcbsDelKernel
<1>2. handler[c].pid_creado = Nadie
  BY DEF CrearProceso, IndInv, Procesos
<1>3. /\ handler'[c].pid_creado = n
      /\ \A d \in Consolas : d # c => handler'[d] = handler[d]
      /\ UNCHANGED <<avisada, ejecutadas>>
  BY <1>n DEF CrearProceso, IndInv, Tipos, Handlers, consola, historia
<1>4. \A d \in Consolas :
        (IF handler'[d].pid_creado = Nadie THEN <<>> ELSE ejecutadas'[handler'[d].pid_creado])
          = (IF handler[d].pid_creado = Nadie THEN <<>> ELSE ejecutadas[handler[d].pid_creado])
  BY <1>1, <1>2, <1>3
<1>5. EjecutadasPor' = EjecutadasPor
  BY <1>4 DEF EjecutadasPor
<1> QED BY <1>3, <1>5, NadaParaConsolas

(* ImplementaPrograma: the file of every console is executed from its      *)
(* first instruction to its last, each as often as it is written, and the  *)
(* console is told when the last has been executed and not before.         *)
THEOREM ProgramaImplementado == Spec => ImplementaPrograma
<1>1. Init => Programa!Init
  <2> SUFFICES ASSUME Init PROVE Programa!Init
    OBVIOUS
  <2>1. \A c \in Consolas : handler[c].pid_creado = Nadie
    BY DEF Init
  <2>2. EjecutadasPor = [c \in Consolas |-> <<>>]
    BY <2>1 DEF EjecutadasPor
  <2> QED BY <2>2 DEF Init, Programa!Init
<1>2. IndInv /\ [Next]_vars => [Programa!Next]_(Programa!vars)
  <2> SUFFICES ASSUME IndInv, [Next]_vars PROVE Programa!Next \/ UNCHANGED Programa!vars
    OBVIOUS
  <2>1. ASSUME UNCHANGED <<handler, avisada, ejecutadas>> PROVE UNCHANGED Programa!vars
    <3>1. EjecutadasPor' = EjecutadasPor
      BY <2>1 DEF EjecutadasPor
    <3> QED BY <2>1, <3>1, NadaParaConsolas
  <2>2. CASE UNCHANGED vars
    BY <2>1, <2>2 DEF vars, consola, recepcion, historia
  <2> SUFFICES ASSUME Next PROVE Programa!Next \/ UNCHANGED Programa!vars
    BY <2>2
  <2>3. ASSUME NEW c \in Consolas, RecibirTam(c) \/ RecibirInstruccion(c)
        PROVE  UNCHANGED Programa!vars
    <3>1. \A d \in Consolas : handler'[d].pid_creado = handler[d].pid_creado
      <4>1. CASE RecibirTam(c)
        BY <4>1 DEF RecibirTam, IndInv, Tipos, Handlers
      <4>2. CASE RecibirInstruccion(c)
        BY <4>2 DEF RecibirInstruccion, IndInv, Tipos, Handlers
      <4> QED BY <2>3, <4>1, <4>2
    <3>2. UNCHANGED <<avisada, ejecutadas>>
      BY <2>3 DEF RecibirTam, RecibirInstruccion, consola, historia
    <3>3. EjecutadasPor' = EjecutadasPor
      BY <3>1, <3>2 DEF EjecutadasPor
    <3> QED BY <3>2, <3>3, NadaParaConsolas
  <2>4. ASSUME \/ \E d \in Duraciones : EjecutarInstruccion(d)
               \/ EjecutarIO \/ EjecutarExit
        PROVE  Programa!Next
    <3>1. EnCiclo /\ Anotar /\ UNCHANGED <<handler, avisada>>
      BY <2>4 DEF EjecutarInstruccion, EjecutarIO, EjecutarExit, Entregar, recepcion, consola
    <3> QED BY <3>1, EjecutarImplementa DEF Programa!Next
  <2>5. ASSUME RecibirExit PROVE Programa!Next \/ UNCHANGED Programa!vars
    <3>1. CASE avisada' # avisada
      BY <2>5, <3>1, AvisarImplementa DEF Programa!Next
    <3>2. CASE avisada' = avisada
      <4>1. UNCHANGED <<handler, ejecutadas>>
        BY <2>5 DEF RecibirExit, recepcion, historia
      <4> QED BY <2>1, <3>2, <4>1
    <3> QED BY <3>1, <3>2
  <2>6. ASSUME \/ \E c \in Consolas : Consola(c) \/ Registrar(c)
               \/ \E p \in Pids : Admitir(p) \/ Despachar(p) \/ Desbloquear(p)
               \/ RecibirBloqueo \/ RecibirInterrumpido \/ Interrumpir \/ Recibir \/ Terminado
        PROVE  UNCHANGED Programa!vars
    <3>1. UNCHANGED <<handler, avisada, ejecutadas>>
      BY <2>6 DEF Consola, EnviarTamProceso, EnviarLineaDe, EnviarFin, Enviar, Registrar,
                  Admitir, Despachar, Desbloquear, RecibirBloqueo, RecibirInterrumpido, Interrumpir,
                  Recibir, Terminado, vars, consola, recepcion, historia
    <3> QED BY <2>1, <3>1
  <2> QED BY <2>3, <2>4, <2>5, <2>6, CrearImplementa
          DEF Next, Handler, Kernel, Planificar, Cpu
<1> QED BY <1>1, <1>2, Inductiva, PTL DEF Spec, ImplementaPrograma, Programa!Spec
=============================================================================

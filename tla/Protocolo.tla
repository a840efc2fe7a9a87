----------------------------- MODULE Protocolo -----------------------------
(***************************************************************************)
(* What travels between a console, the kernel and the CPU, word by word:   *)
(* a word is an integer, a double, or a struct Instruccion sent whole.     *)
(* Console to kernel: the instructions of a file (consola/parser.c and     *)
(* consola/utils.c), read back by kernel/instrucciones_handler.c.  Kernel  *)
(* to CPU and back: a pcb (kernel/planificador.c and cpu/utils.c have the  *)
(* same two functions each), alone or behind the words of a message.       *)
(*                                                                         *)
(* A line of a file is its first word and its numbers.                     *)
(*                                                                         *)
(* A definition with the comment "Variant" is a plausible bug in the       *)
(* definition that follows it.                                             *)
(***************************************************************************)
EXTENDS Integers, Sequences, SequencesExt

(* TipoInstruccion, and what ends the instructions of a console.           *)
NO_OP == 0
I_O == 1
READ == 2
WRITE == 3
COPY == 4
EXIT == 5
FIN == -1

(* mensaje_cpu.                                                            *)
PASAR_A_BLOQUEADO == 0
PASAR_A_READY == 1
PASAR_A_EXIT == 2
EJECUTAR == 3

Instruccion(tipo, a, b) == [tipo |-> tipo, params |-> <<a, b>>]

-----------------------------------------------------------------------------
(* The console.                                                            *)

(* enviar_instruccion: the type, and as many parameters as it has.         *)
EnviarInstruccion(ins) ==
  CASE ins.tipo \in {I_O, READ} -> <<ins.tipo, ins.params[1]>>
    [] ins.tipo \in {WRITE, COPY} -> <<ins.tipo>> \o ins.params
    [] OTHER -> <<ins.tipo>>

(* A line as fscanf reads it, and a file the parser reads to its end: EXIT *)
(* is its last line and only there, for after it the end of the file has   *)
(* to come, and without it the end of the file is taken for a character.   *)
Lineas ==
  [palabra : {"NO_OP", "I/O", "READ"}, numeros : [1 .. 1 -> Int]]
    \union [palabra : {"WRITE", "COPY"}, numeros : [1 .. 2 -> Int]]
    \union [palabra : {"EXIT"}, numeros : {<<>>}]
EsArchivo(a) ==
  /\ a \in Seq(Lineas) /\ a # <<>>
  /\ \A k \in DOMAIN a : a[k].palabra = "EXIT" <=> k = Len(a)

(* The chain of strcmp of leer_y_enviar_archivo_de_instrucciones.          *)
TipoDe(palabra) ==
  CASE palabra = "NO_OP" -> NO_OP
    [] palabra = "I/O" -> I_O
    [] palabra = "READ" -> READ
    [] palabra = "WRITE" -> WRITE
    [] palabra = "COPY" -> COPY
    [] palabra = "EXIT" -> EXIT

\* Variant.
ConUnaDeMas(n) == n
(* The for that sends a NO_OP n - 1 times before the one every line sends. *)
Repetidas(n) == IF n > 1 THEN n - 1 ELSE 0

(* The instructions a line is sent as: lectura_y_asignacion_parametros and *)
(* the enviar_instruccion that follows it.                                 *)
InstruccionesDe(linea) ==
  LET tipo == TipoDe(linea.palabra)
      n == linea.numeros
  IN  CASE tipo = NO_OP ->
             [k \in 1 .. Repetidas(n[1]) |-> Instruccion(NO_OP, 0, 0)]
               \o <<Instruccion(NO_OP, 0, 0)>>
        [] tipo \in {I_O, READ} -> <<Instruccion(tipo, n[1], 0)>>
        [] tipo \in {WRITE, COPY} -> <<Instruccion(tipo, n[1], n[2])>>
        [] tipo = EXIT -> <<Instruccion(EXIT, 0, 0)>>

EnviarLinea(linea) == FlattenSeq([k \in DOMAIN InstruccionesDe(linea) |->
                                    EnviarInstruccion(InstruccionesDe(linea)[k])])

-----------------------------------------------------------------------------
(* The handler of a console in the kernel: how many words the instruction  *)
(* whose type it has read takes, and the instruction.                      *)
PalabrasDe(tipo) ==
  CASE tipo \in {I_O, READ} -> 2
    [] tipo \in {WRITE, COPY} -> 3
    [] OTHER -> 1

LeerInstruccion(palabras) ==
  Instruccion(palabras[1],
              IF PalabrasDe(palabras[1]) >= 2 THEN palabras[2] ELSE 0,
              IF PalabrasDe(palabras[1]) = 3 THEN palabras[3] ELSE 0)

-----------------------------------------------------------------------------
(* A pcb between the kernel and the CPU.                                   *)

\* Variant.
SerializarCruzado(pcb) ==
  <<pcb.id, pcb.tabla_paginas, pcb.pc, pcb.rafaga, pcb.estimacion_anterior,
    pcb.tam_proceso, Len(pcb.instrucciones)>> \o pcb.instrucciones
SerializarPcb(pcb) ==
  <<pcb.id, pcb.tam_proceso, pcb.pc, pcb.rafaga, pcb.estimacion_anterior,
    pcb.tabla_paginas, Len(pcb.instrucciones)>> \o pcb.instrucciones

LeerPcb(palabras) ==
  [id |-> palabras[1], tam_proceso |-> palabras[2], pc |-> palabras[3],
   rafaga |-> palabras[4], estimacion_anterior |-> palabras[5],
   tabla_paginas |-> palabras[6],
   instrucciones |-> SubSeq(palabras, 8, 7 + palabras[7])]

(* What remains on the socket when n words and a pcb have been read.       *)
TrasPcb(palabras, n) == SubSeq(palabras, n + 8 + palabras[n + 7], Len(palabras))
Desde(palabras, n) == SubSeq(palabras, n, Len(palabras))

MensajeEjecutar(pcb) == <<EJECUTAR>> \o SerializarPcb(pcb)
MensajeBloqueo(pcb, tiempo_bloqueo, contador_rafaga) ==
  <<PASAR_A_BLOQUEADO, tiempo_bloqueo, contador_rafaga>> \o SerializarPcb(pcb)
MensajeInterrupcion(pcb, rafaga_actual) ==
  <<PASAR_A_READY, rafaga_actual>> \o SerializarPcb(pcb)
MensajeExit == <<PASAR_A_EXIT>>
=============================================================================

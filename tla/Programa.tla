------------------------------ MODULE Programa ------------------------------
(***************************************************************************)
(* What the system promises to whoever runs a console: the file is         *)
(* executed from its first instruction to its last, each exactly as often  *)
(* as it is written, in order, whatever else is executed, preempted or     *)
(* blocked in between, and then the console is told that its process       *)
(* ended.  Module Ejecucion implements it.                                 *)
(***************************************************************************)
EXTENDS Naturals, SequencesExt

CONSTANT
  Consolas

VARIABLES
  instrucciones,           \* what the file of each console says
  ejecutadas,              \* what has been executed of it
  avisada                  \* consoles that have been told

vars == <<instrucciones, ejecutadas, avisada>>

Init ==
  /\ ejecutadas = [c \in Consolas |-> <<>>]
  /\ avisada = [c \in Consolas |-> FALSE]

Ejecutar(c) ==
  /\ ~avisada[c]
  /\ Len(ejecutadas[c]) < Len(instrucciones[c])
  /\ ejecutadas' = [ejecutadas EXCEPT ![c] =
                      Append(@, instrucciones[c][Len(@) + 1])]
  /\ UNCHANGED <<instrucciones, avisada>>

(* finalizo_exitosamente, which the console waits for.                     *)
Avisar(c) ==
  /\ ~avisada[c]
  /\ ejecutadas[c] = instrucciones[c]
  /\ avisada' = [avisada EXCEPT ![c] = TRUE]
  /\ UNCHANGED <<instrucciones, ejecutadas>>

Next == \E c \in Consolas : Ejecutar(c) \/ Avisar(c)

Spec == Init /\ [][Next]_vars
=============================================================================

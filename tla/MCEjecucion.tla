---------------------------- MODULE MCEjecucion ----------------------------
(***************************************************************************)
(* Files for module Ejecucion: between them, every instruction, a NO_OP    *)
(* that is repeated and one of 0, a stretch that can be interrupted twice, *)
(* and a process that blocks between two bursts.                           *)
(***************************************************************************)
EXTENDS Ejecucion

Linea(palabra, numeros) == [palabra |-> palabra, numeros |-> numeros]

MCArchivos == {
  <<Linea("NO_OP", <<2>>), Linea("I/O", <<5>>), Linea("READ", <<4>>), Linea("EXIT", <<>>)>>,
  <<Linea("WRITE", <<4, 9>>), Linea("COPY", <<8, 4>>), Linea("I/O", <<2>>),
    Linea("NO_OP", <<0>>), Linea("EXIT", <<>>)>> }
=============================================================================

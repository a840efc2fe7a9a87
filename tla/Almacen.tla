------------------------------- MODULE Almacen -------------------------------
(***************************************************************************)
(* What the memory module promises a process: its own pages, empty when it *)
(* is created, each holding what was last written to it, until the process *)
(* is destroyed.  Only the write of the access under way changes a page:   *)
(* no page fault, replacement, suspension or return does.                  *)
(***************************************************************************)
EXTENDS Naturals

CONSTANTS Procesos, Paginas, Valores, Cero, Nada

VARIABLES
  contenido,               \* of each page of each process
  acceso                   \* the page the CPU has asked for

vars == <<contenido, acceso>>

Ninguno == [pid |-> Nada, pagina |-> 0]

Init ==
  /\ contenido = [p \in Procesos |-> [n \in Paginas |-> Nada]]
  /\ acceso = Ninguno

Crear(p) ==
  /\ \A n \in Paginas : contenido[p][n] = Nada
  /\ contenido' = [contenido EXCEPT ![p] = [n \in Paginas |-> Cero]]
  /\ UNCHANGED acceso

Pedir(p, n) ==
  /\ acceso = Ninguno
  /\ contenido[p][n] # Nada
  /\ acceso' = [pid |-> p, pagina |-> n]
  /\ UNCHANGED contenido

Leer ==
  /\ acceso # Ninguno
  /\ acceso' = Ninguno
  /\ UNCHANGED contenido

Escribir(v) ==
  /\ acceso # Ninguno
  /\ contenido' = [contenido EXCEPT ![acceso.pid][acceso.pagina] = v]
  /\ acceso' = Ninguno

Destruir(p) ==
  /\ acceso.pid # p
  /\ \A n \in Paginas : contenido[p][n] # Nada
  /\ contenido' = [contenido EXCEPT ![p] = [n \in Paginas |-> Nada]]
  /\ UNCHANGED acceso

Next ==
  \/ \E p \in Procesos : Crear(p) \/ Destruir(p) \/ \E n \in Paginas : Pedir(p, n)
  \/ Leer \/ \E v \in Valores : Escribir(v)

Spec == Init /\ [][Next]_vars
=============================================================================

----------------------------- MODULE CicloDeVida -----------------------------
(***************************************************************************)
(* What the kernel promises about the life of a process, whatever its      *)
(* threads do in between: the seven states of the lists of planificador.h, *)
(* the moves between them, one process on the CPU, and never more than     *)
(* LIMITE processes in main memory.  A suspended process that is ready has *)
(* priority over the new ones.                                             *)
(***************************************************************************)
EXTENDS Integers, FiniteSets

CONSTANTS Pid, LIMITE

VARIABLE estado            \* the state of each process

Estados == {"fuera", "new", "ready", "running", "bloqueado",
            "bloqueado_suspendido", "ready_suspendido", "exit"}

En(e) == {p \in Pid : estado[p] = e}
EnMemoria == En("ready") \union En("running") \union En("bloqueado")

Init == estado = [p \in Pid |-> "fuera"]

Mover(p, desde, hasta) ==
  /\ estado[p] = desde
  /\ estado' = [estado EXCEPT ![p] = hasta]

HayLugar == Cardinality(EnMemoria) < LIMITE

Crear(p) == Mover(p, "fuera", "new")
Admitir(p) == Mover(p, "new", "ready") /\ HayLugar /\ En("ready_suspendido") = {}
Despachar(p) == Mover(p, "ready", "running") /\ En("running") = {}
Desalojar(p) == Mover(p, "running", "ready")
Bloquear(p) == Mover(p, "running", "bloqueado")
Desbloquear(p) == Mover(p, "bloqueado", "ready")
Suspender(p) == Mover(p, "bloqueado", "bloqueado_suspendido")
TerminarBloqueo(p) == Mover(p, "bloqueado_suspendido", "ready_suspendido")
Readmitir(p) == Mover(p, "ready_suspendido", "ready") /\ HayLugar
Terminar(p) == Mover(p, "running", "exit")

Next ==
  \E p \in Pid :
    \/ Crear(p) \/ Admitir(p) \/ Despachar(p) \/ Desalojar(p) \/ Bloquear(p)
    \/ Desbloquear(p) \/ Suspender(p) \/ TerminarBloqueo(p) \/ Readmitir(p)
    \/ Terminar(p)

Spec == Init /\ [][Next]_estado
=============================================================================

------------------------------ MODULE Memoria ------------------------------
(***************************************************************************)
(* The memory module (memoria/memoria.c): page tables, the list of free    *)
(* frames, main memory, the swap files and the cursor of each process, and *)
(* its two threads: the main one, which serves one request of the CPU at a *)
(* time, and conexion_kernel_handler, which serves one of the kernel at a  *)
(* time.  They share marcos_disponibles without a lock; its list calls are *)
(* taken as atomic, and each of them is in an action of its own.           *)
(*                                                                         *)
(* The two levels of tables are one table of pages here (module Mmu has    *)
(* the arithmetic).  A page holds one value.  A page fault touches nothing *)
(* of another process but marcos_disponibles, and only once, so it is one  *)
(* action; a suspension and a destruction give the frames back one by one. *)
(*                                                                         *)
(* What the kernel may ask comes from kernel/planificador.c: one request   *)
(* per state of the process, never while the CPU executes it.              *)
(*                                                                         *)
(* A definition with the comment "Variant" is a plausible bug in the       *)
(* definition that follows it.                                             *)
(***************************************************************************)
EXTENDS Clock, FiniteSets, SequencesExt

CONSTANTS
  Procesos,                \* pids; each is created once
  PAGINAS,                 \* pages of a process
  MARCOS,                  \* TAM_MEMORIA / TAM_PAGINA
  ALGORITMO_REEMPLAZO,     \* of the memory module's config
  Valores,                 \* what a program writes in a page
  Cero,                    \* what a new swap file holds
  Nada                     \* no value, no process

ASSUME TamaniosAssumption == PAGINAS \in Nat \ {0} /\ MARCOS \in Nat \ {0}
ASSUME ReemplazoAssumption == ALGORITMO_REEMPLAZO \in Algoritmos
ASSUME ValoresAssumption == Cero \in Valores /\ Nada \notin Valores \union Procesos

Paginas == 0 .. PAGINAS - 1
Marcos == 0 .. MARCOS - 1
Entrada == [marco : Marcos, presencia : BOOLEAN, uso : BOOLEAN, modificado : BOOLEAN]

VARIABLES
  proceso,                 \* what the kernel has asked for each process
  tabla,                   \* second level entries, by process and page
  marcos_disponibles,
  base_memoria,            \* content of each frame
  swap,                    \* content of the swap file, by page
  posicion_cursor,         \* relaciones_proceso_cursor
  hilo_kernel,             \* the request of the kernel under way, and its page
  pedido,                  \* what the CPU knows between mmu and the access
  caida                    \* has the module dereferenced a NULL?

vars == <<proceso, tabla, marcos_disponibles, base_memoria, swap, posicion_cursor,
          hilo_kernel, pedido, caida>>

Libre == [accion |-> "ninguna", pid |-> Nada, pagina |-> 0]
Atendiendo(accion, p, n) == [accion |-> accion, pid |-> p, pagina |-> n]
SinPedido == [pid |-> Nada, pagina |-> 0, marco |-> 0]

EntradaVacia == [marco |-> 0, presencia |-> FALSE, uso |-> FALSE, modificado |-> FALSE]

Init ==
  /\ proceso = [p \in Procesos |-> "sin_estructuras"]
  /\ tabla = [p \in Procesos |-> [n \in Paginas |-> EntradaVacia]]
  /\ marcos_disponibles = [k \in 1 .. MARCOS |-> k - 1]
  /\ base_memoria = [m \in Marcos |-> Nada]
  /\ swap = [p \in Procesos |-> [n \in Paginas |-> Nada]]
  /\ posicion_cursor = [p \in Procesos |-> 0]
  /\ hilo_kernel = Libre
  /\ pedido = SinPedido
  /\ caida = FALSE

-----------------------------------------------------------------------------
(* conexion_kernel_handler.                                                *)

(* INICIALIZAR_ESTRUCTURAS: the tables, the cursor and the swap file.      *)
InicializarEstructuras(p) ==
  /\ hilo_kernel = Libre
  /\ proceso[p] = "sin_estructuras"
  /\ proceso' = [proceso EXCEPT ![p] = "en_memoria"]
  /\ swap' = [swap EXCEPT ![p] = [n \in Paginas |-> Cero]]
  /\ UNCHANGED <<tabla, marcos_disponibles, base_memoria, posicion_cursor, hilo_kernel,
                 pedido, caida>>

(* SUSPENDER: enviar_proceso_swap puts the cursor back to 0 and goes over  *)
(* the pages.                                                              *)
Suspender(p) ==
  /\ hilo_kernel = Libre
  /\ proceso[p] = "en_memoria"
  /\ pedido.pid # p
  /\ proceso' = [proceso EXCEPT ![p] = "suspendiendo"]
  /\ posicion_cursor' = [posicion_cursor EXCEPT ![p] = 0]
  /\ hilo_kernel' = Atendiendo("suspender", p, 0)
  /\ UNCHANGED <<tabla, marcos_disponibles, base_memoria, swap, pedido, caida>>

(* A modified page in memory is written to the swap file and its frame is  *)
(* given back; the others are left as they are.                            *)
EscribirYSoltar(p, n) ==
  /\ swap' = [swap EXCEPT ![p][n] = base_memoria[tabla[p][n].marco]]
  /\ tabla' = [tabla EXCEPT ![p][n].presencia = FALSE, ![p][n].modificado = FALSE]
  /\ marcos_disponibles' = Append(marcos_disponibles, tabla[p][n].marco)

EnviarPaginaSwap ==
  LET p == hilo_kernel.pid
      n == hilo_kernel.pagina
  IN  /\ hilo_kernel.accion = "suspender"
      /\ n \in Paginas
      /\ IF tabla[p][n].modificado /\ tabla[p][n].presencia
           THEN EscribirYSoltar(p, n)
           ELSE UNCHANGED <<swap, tabla, marcos_disponibles>>
      /\ hilo_kernel' = Atendiendo("suspender", p, n + 1)
      /\ UNCHANGED <<proceso, base_memoria, posicion_cursor, pedido, caida>>

ConfirmarSuspension ==
  /\ hilo_kernel.accion = "suspender"
  /\ hilo_kernel.pagina = PAGINAS
  /\ proceso' = [proceso EXCEPT ![hilo_kernel.pid] = "suspendido"]
  /\ hilo_kernel' = Libre
  /\ UNCHANGED <<tabla, marcos_disponibles, base_memoria, swap, posicion_cursor, pedido,
                 caida>>

(* The kernel moves a suspended process back to ready without telling the  *)
(* memory module.                                                          *)
Readmitir(p) ==
  /\ proceso[p] = "suspendido"
  /\ proceso' = [proceso EXCEPT ![p] = "en_memoria"]
  /\ UNCHANGED <<tabla, marcos_disponibles, base_memoria, swap, posicion_cursor,
                 hilo_kernel, pedido, caida>>

(* DESTRUIR_ESTRUCTURAS: the entries are freed in order, and each frame    *)
(* with them; then the cursor and the swap file go.  What has been freed is*)
(* written here with the values it had at first.                           *)
DestruirEstructuras(p) ==
  /\ hilo_kernel = Libre
  /\ proceso[p] = "en_memoria"
  /\ pedido.pid # p
  /\ proceso' = [proceso EXCEPT ![p] = "destruido"]
  /\ hilo_kernel' = Atendiendo("destruir", p, 0)
  /\ UNCHANGED <<tabla, marcos_disponibles, base_memoria, swap, posicion_cursor, pedido,
                 caida>>

\* Variant.
SoltarSiempre(p, n) == marcos_disponibles' = Append(marcos_disponibles, tabla[p][n].marco)
SoltarMarco(p, n) ==
  marcos_disponibles' = IF tabla[p][n].presencia
                          THEN Append(marcos_disponibles, tabla[p][n].marco)
                          ELSE marcos_disponibles

LiberarEntrada ==
  LET p == hilo_kernel.pid
      n == hilo_kernel.pagina
  IN  /\ hilo_kernel.accion = "destruir"
      /\ n \in Paginas
      /\ SoltarMarco(p, n)
      /\ tabla' = [tabla EXCEPT ![p][n] = EntradaVacia]
      /\ hilo_kernel' = Atendiendo("destruir", p, n + 1)
      /\ UNCHANGED <<proceso, base_memoria, swap, posicion_cursor, pedido, caida>>

ConfirmarDestruccion ==
  /\ hilo_kernel.accion = "destruir"
  /\ hilo_kernel.pagina = PAGINAS
  /\ LET p == hilo_kernel.pid IN
       /\ swap' = [swap EXCEPT ![p] = [n \in Paginas |-> Nada]]
       /\ posicion_cursor' = [posicion_cursor EXCEPT ![p] = 0]
  /\ hilo_kernel' = Libre
  /\ UNCHANGED <<proceso, tabla, marcos_disponibles, base_memoria, pedido, caida>>

HiloKernel ==
  \/ \E p \in Procesos : InicializarEstructuras(p) \/ Suspender(p) \/ DestruirEstructuras(p)
  \/ EnviarPaginaSwap \/ ConfirmarSuspension
  \/ LiberarEntrada \/ ConfirmarDestruccion

-----------------------------------------------------------------------------
(* The thread of the CPU: OBTENER_NUMERO_MARCO.                            *)

Presentes(p) == {n \in Paginas : tabla[p][n].presencia}

(* listado_memoria_actual_por_proceso, sorted by frame: the place of a     *)
(* page in it, and the page in a place.                                    *)
Lugar(p, n) == Cardinality({q \in Presentes(p) : tabla[p][q].marco < tabla[p][n].marco})
EnLugar(p, i) == CHOOSE n \in Presentes(p) : Lugar(p, n) = i

\* Variant.
HayMarcoDeMas(p) == Cardinality(Presentes(p)) <= MARCOS_POR_PROCESO
HayMarcoPropio(p) == Cardinality(Presentes(p)) < MARCOS_POR_PROCESO

(* The page is in memory: its frame is the answer.                         *)
MarcoPresente(p, n) ==
  /\ tabla[p][n].presencia
  /\ pedido' = [pid |-> p, pagina |-> n, marco |-> tabla[p][n].marco]
  /\ UNCHANGED <<proceso, tabla, marcos_disponibles, base_memoria, swap, posicion_cursor,
                 hilo_kernel, caida>>

(* Page fault, and the process may have one more frame: the first free one.*)
CargarEnMarcoLibre(p, n) ==
  /\ ~tabla[p][n].presencia
  /\ HayMarcoPropio(p)
  /\ marcos_disponibles # <<>>
  /\ LET m == Head(marcos_disponibles) IN
       /\ tabla' = [tabla EXCEPT ![p][n].marco = m, ![p][n].presencia = TRUE,
                                 ![p][n].uso = TRUE]
       /\ base_memoria' = [base_memoria EXCEPT ![m] = swap[p][n]]
       /\ pedido' = [pid |-> p, pagina |-> n, marco |-> m]
  /\ marcos_disponibles' = Tail(marcos_disponibles)
  /\ UNCHANGED <<proceso, swap, posicion_cursor, hilo_kernel, caida>>

(* list_remove of an empty list returns NULL, which is dereferenced.       *)
SinMarcoLibre(p, n) ==
  /\ ~tabla[p][n].presencia
  /\ HayMarcoPropio(p)
  /\ marcos_disponibles = <<>>
  /\ caida' = TRUE
  /\ UNCHANGED <<proceso, tabla, marcos_disponibles, base_memoria, swap, posicion_cursor,
                 hilo_kernel, pedido>>

\* Variant.
EscribirSiLimpia(p, v) ==
  swap' = IF tabla[p][v].modificado
            THEN swap
            ELSE [swap EXCEPT ![p][v] = base_memoria[tabla[p][v].marco]]
EscribirVictima(p, v) ==
  swap' = IF tabla[p][v].modificado
            THEN [swap EXCEPT ![p][v] = base_memoria[tabla[p][v].marco]]
            ELSE swap

(* Page fault with all the frames of the process taken: reemplazar_pagina  *)
(* and reemplazar_paginas.  The victim keeps its modified bit and the page *)
(* that comes in its old bits.                                             *)
ReemplazarPagina(p, n) ==
  /\ ~tabla[p][n].presencia
  /\ ~HayMarcoPropio(p)
  /\ LET bits == [i \in Posiciones |->
                    [uso |-> tabla[p][EnLugar(p, i)].uso,
                     modificado |-> tabla[p][EnLugar(p, i)].modificado]]
         r == Reemplazada(ALGORITMO_REEMPLAZO, bits, posicion_cursor[p])
         v == EnLugar(p, r.victima)
         m == tabla[p][v].marco
     IN  /\ tabla' = [tabla EXCEPT ![p] = [q \in Paginas |->
              CASE q = n -> [@[q] EXCEPT !.marco = m, !.presencia = TRUE]
                [] q = v -> [@[q] EXCEPT !.presencia = FALSE,
                                         !.uso = r.bits[Lugar(p, q)].uso]
                [] q \in Presentes(p) \ {v} -> [@[q] EXCEPT !.uso = r.bits[Lugar(p, q)].uso]
                [] OTHER -> @[q]]]
         /\ EscribirVictima(p, v)
         /\ base_memoria' = [base_memoria EXCEPT ![m] = swap[p][n]]
         /\ posicion_cursor' = [posicion_cursor EXCEPT ![p] = MoverCursor(r.victima)]
         /\ pedido' = [pid |-> p, pagina |-> n, marco |-> m]
  /\ UNCHANGED <<proceso, marcos_disponibles, hilo_kernel, caida>>

(* The CPU only executes processes the kernel believes to be in memory.    *)
ObtenerNumeroMarco(p, n) ==
  /\ pedido = SinPedido
  /\ proceso[p] = "en_memoria"
  /\ \/ MarcoPresente(p, n) \/ CargarEnMarcoLibre(p, n)
     \/ SinMarcoLibre(p, n) \/ ReemplazarPagina(p, n)

-----------------------------------------------------------------------------
(* The thread of the CPU: LEER and ESCRIBIR, at the frame and with the     *)
(* page the CPU sends.                                                     *)

EjecutarLectura ==
  /\ pedido # SinPedido
  /\ tabla' = [tabla EXCEPT ![pedido.pid][pedido.pagina].uso = TRUE]
  /\ pedido' = SinPedido
  /\ UNCHANGED <<proceso, marcos_disponibles, base_memoria, swap, posicion_cursor,
                 hilo_kernel, caida>>

\* Variant.
SinModificado == tabla' = [tabla EXCEPT ![pedido.pid][pedido.pagina].uso = TRUE]
MarcarModificado ==
  tabla' = [tabla EXCEPT ![pedido.pid][pedido.pagina].uso = TRUE,
                         ![pedido.pid][pedido.pagina].modificado = TRUE]

EjecutarEscritura(valor) ==
  /\ pedido # SinPedido
  /\ base_memoria' = [base_memoria EXCEPT ![pedido.marco] = valor]
  /\ MarcarModificado
  /\ pedido' = SinPedido
  /\ UNCHANGED <<proceso, marcos_disponibles, swap, posicion_cursor, hilo_kernel, caida>>

Acceso == EjecutarLectura \/ \E valor \in Valores : EjecutarEscritura(valor)

-----------------------------------------------------------------------------
(* Every process has been destroyed and the module waits for more, or it   *)
(* has died.                                                               *)
SinTrabajo ==
  /\ caida \/ \A p \in Procesos : proceso[p] = "destruido"
  /\ hilo_kernel = Libre \/ caida
  /\ UNCHANGED vars

(* The CPU asks for the frame of every page before it accesses it, as it   *)
(* does when its TLB misses; module Traduccion adds the TLB.               *)
HiloCpu ==
  \/ \E p \in Procesos, n \in Paginas : ObtenerNumeroMarco(p, n)
  \/ Acceso

Next ==
  \/ ~caida /\ HiloKernel
  \/ ~caida /\ HiloCpu
  \/ ~caida /\ \E p \in Procesos : Readmitir(p)
  \/ SinTrabajo

Spec == Init /\ [][Next]_vars

Simetria == Permutations(Procesos)
-----------------------------------------------------------------------------
TypeOK ==
  /\ proceso \in [Procesos -> {"sin_estructuras", "en_memoria", "suspendiendo",
                               "suspendido", "destruido"}]
  /\ tabla \in [Procesos -> [Paginas -> Entrada]]
  /\ marcos_disponibles \in Seq(Marcos)
  /\ base_memoria \in [Marcos -> Valores \union {Nada}]
  /\ swap \in [Procesos -> [Paginas -> Valores \union {Nada}]]
  /\ posicion_cursor \in [Procesos -> Posiciones]
  /\ hilo_kernel \in [accion : {"ninguna", "suspender", "destruir"},
                      pid : Procesos \union {Nada}, pagina : 0 .. PAGINAS]
  /\ pedido \in [pid : Procesos \union {Nada}, pagina : Paginas, marco : Marcos]
  /\ caida \in BOOLEAN

(* A frame is on the list of free frames, once, or holds one page of one   *)
(* process: neither replacement nor the loops that give frames back lose a *)
(* frame or share it, however the two threads alternate.                   *)
Ocupantes(m) == {pn \in Procesos \X Paginas : /\ tabla[pn[1]][pn[2]].presencia
                                              /\ tabla[pn[1]][pn[2]].marco = m}
MarcosRepartidos ==
  \A m \in Marcos :
    Cardinality({k \in 1 .. Len(marcos_disponibles) : marcos_disponibles[k] = m})
      + Cardinality(Ocupantes(m)) = 1

(* No process has more pages in memory than its frames.                    *)
MarcosAcotados == \A p \in Procesos : Cardinality(Presentes(p)) <= MARCOS_POR_PROCESO

(* A page whose modified bit is off may be dropped: the disk has it.       *)
LimpiaEnDisco ==
  \A p \in Procesos, n \in Paginas :
    tabla[p][n].presencia /\ ~tabla[p][n].modificado
      => base_memoria[tabla[p][n].marco] = swap[p][n]

(* The frame the CPU was told is still the page's when it uses it.         *)
PedidoVigente ==
  pedido # SinPedido =>
    /\ proceso[pedido.pid] = "en_memoria"
    /\ tabla[pedido.pid][pedido.pagina].presencia
    /\ tabla[pedido.pid][pedido.pagina].marco = pedido.marco

(* A page fault of a process with frames of its own to take finds a free   *)
(* one, if memory has a share for every process: what a suspended process, *)
(* or one that is being suspended, keeps is never more than its share.     *)
NuncaSinMarco == ~caida

(* A suspended process has left main memory.                               *)
SuspendidoEnDisco == \A p \in Procesos : proceso[p] = "suspendido" => Presentes(p) = {}

(* The memory module implements the pages it promises: a fault, a          *)
(* replacement or a suspension changes no page of any process.             *)
Contenido(p, n) ==
  CASE proceso[p] \in {"sin_estructuras", "destruido"} -> Nada
    [] proceso[p] \notin {"sin_estructuras", "destruido"} /\ tabla[p][n].presencia ->
         base_memoria[tabla[p][n].marco]
    [] OTHER -> swap[p][n]
Pagina == INSTANCE Almacen
            WITH contenido <- [p \in Procesos |-> [n \in Paginas |-> Contenido(p, n)]],
                 acceso <- [pid |-> pedido.pid, pagina |-> pedido.pagina]
ImplementaAlmacen == Pagina!Spec
=============================================================================

------------------------------- MODULE Tablas -------------------------------
(***************************************************************************)
(* The two levels of page tables of memoria/memoria.c, for all processes.  *)
(* A table is known by its position in a list: tabla_paginas, which the    *)
(* kernel keeps in the pcb and the CPU sends back, is a position in        *)
(* tablas_primer_nivel, whose entries are positions in tablas_segundo_nivel.*)
(* Nothing is ever taken out of these lists, so positions stay: what is    *)
(* destroyed is freed in its place, and is the empty table here.           *)
(*                                                                         *)
(* An entry of second level is the page it is of; its frame and its bits   *)
(* are in module Memoria.                                                  *)
(*                                                                         *)
(* A definition with the comment "Variant" is a plausible bug in the       *)
(* definition that follows it.                                             *)
(***************************************************************************)
EXTENDS Mmu, SequencesExt

CONSTANTS
  Procesos,
  Tamanios                 \* sizes the consoles ask for, in bytes

VARIABLES
  tablas_primer_nivel,
  tablas_segundo_nivel,
  tabla_paginas,           \* in the pcb of each process
  tam_proceso              \* in the pcb of each process

varsTablas == <<tablas_primer_nivel, tablas_segundo_nivel, tabla_paginas, tam_proceso>>

SinTabla == -1
Entradas == 0 .. ENTRADAS_POR_TABLA - 1

InitTablas ==
  /\ tablas_primer_nivel = <<>>
  /\ tablas_segundo_nivel = <<>>
  /\ tabla_paginas = [p \in Procesos |-> SinTabla]
  /\ tam_proceso = [p \in Procesos |-> 0]

(* The i-th table of second level of p.                                    *)
TablaSegundoNivel(p, i) == [j \in Entradas |-> [pid |-> p, pagina |-> PaginaDeEntrada(i, j)]]

(* inicializar_estructuras_proceso: the table of first level goes to the   *)
(* end of its list, then each of second level to the end of the other.     *)
CrearTablas(p, tam) ==
  LET n == TablasNecesarias(tam)
      primera == Len(tablas_segundo_nivel)
  IN  /\ tabla_paginas[p] = SinTabla
      /\ tabla_paginas' = [tabla_paginas EXCEPT ![p] = Len(tablas_primer_nivel)]
      /\ tam_proceso' = [tam_proceso EXCEPT ![p] = tam]
      /\ tablas_primer_nivel' =
           Append(tablas_primer_nivel, [i \in 1 .. n |-> primera + i - 1])
      /\ tablas_segundo_nivel' =
           tablas_segundo_nivel \o [i \in 1 .. n |-> TablaSegundoNivel(p, i - 1)]

(* liberar_entrada_primer_nivel of every entry of the table of p.          *)
LiberarSegundoNivel(p) ==
  LET ids == ToSet(tablas_primer_nivel[tabla_paginas[p] + 1])
  IN  tablas_segundo_nivel' = [k \in DOMAIN tablas_segundo_nivel |->
        IF k - 1 \in ids THEN <<>> ELSE tablas_segundo_nivel[k]]

\* Variant.
QuitarPrimerNivel(p) ==
  tablas_primer_nivel' = RemoveAt(tablas_primer_nivel, tabla_paginas[p] + 1)
(* list_destroy_and_destroy_elements frees the table, its place remains.   *)
LiberarPrimerNivel(p) ==
  tablas_primer_nivel' = [tablas_primer_nivel EXCEPT ![tabla_paginas[p] + 1] = <<>>]

(* destruir_estructuras; the kernel destroys the pcb as well.              *)
DestruirTablas(p) ==
  /\ tabla_paginas[p] # SinTabla
  /\ LiberarSegundoNivel(p)
  /\ LiberarPrimerNivel(p)
  /\ tabla_paginas' = [tabla_paginas EXCEPT ![p] = SinTabla]
  /\ UNCHANGED tam_proceso

NextTablas ==
  \E p \in Procesos : DestruirTablas(p) \/ \E tam \in Tamanios : CrearTablas(p, tam)

SpecTablas == InitTablas /\ [][NextTablas]_varsTablas
-----------------------------------------------------------------------------
(* OBTENER_TABLA_SEGUNDO_NIVEL and the search that begins                  *)
(* OBTENER_NUMERO_MARCO, LEER and ESCRIBIR.  list_get answers NULL past the*)
(* end of a list, and nothing looks whether it did.                        *)
NumeroTablaSegundoNivel(t, dir) == tablas_primer_nivel[t + 1][EntradaPrimerNivel(dir) + 1]

TieneEntrada(t, dir) ==
  /\ t + 1 \in DOMAIN tablas_primer_nivel
  /\ EntradaPrimerNivel(dir) + 1 \in DOMAIN tablas_primer_nivel[t + 1]
  /\ LET id == NumeroTablaSegundoNivel(t, dir)
     IN  /\ id + 1 \in DOMAIN tablas_segundo_nivel
         /\ EntradaSegundoNivel(dir) \in DOMAIN tablas_segundo_nivel[id + 1]

EntradaDe(t, dir) ==
  tablas_segundo_nivel[NumeroTablaSegundoNivel(t, dir) + 1][EntradaSegundoNivel(dir)]

(* However processes are created and destroyed, the number the kernel keeps*)
(* leads every address of a process, through positions in two lists, to an *)
(* entry that has not been freed, of that process and of the page of the   *)
(* address.                                                                *)
RutaDePagina ==
  \A p \in Procesos : tabla_paginas[p] # SinTabla =>
    \A dir \in 0 .. tam_proceso[p] - 1 :
      /\ TieneEntrada(tabla_paginas[p], dir)
      /\ EntradaDe(tabla_paginas[p], dir) = [pid |-> p, pagina |-> NumeroPagina(dir)]
=============================================================================

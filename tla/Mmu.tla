-------------------------------- MODULE Mmu --------------------------------
(***************************************************************************)
(* The arithmetic of addresses: how the CPU's mmu (cpu/cpu.c) takes a      *)
(* logical address apart and puts a physical one together, and how many    *)
(* tables memoria/memoria.c creates for a process of a size.  The doubles  *)
(* of the code hold integers here: floor of a quotient is \div.            *)
(*                                                                         *)
(* A definition with the comment "Variant" is a plausible bug in the       *)
(* definition that follows it.                                             *)
(***************************************************************************)
EXTENDS Integers

CONSTANTS
  TAM_PAGINA,              \* bytes of a page, and of a frame
  ENTRADAS_POR_TABLA       \* of a table of second level

ASSUME MmuAssumption == TAM_PAGINA \in Nat \ {0} /\ ENTRADAS_POR_TABLA \in Nat \ {0}

ANCHO == 4                 \* sizeof(unsigned int), what an access reads or writes

NumeroPagina(dir) == dir \div TAM_PAGINA
EntradaPrimerNivel(dir) == NumeroPagina(dir) \div ENTRADAS_POR_TABLA
EntradaSegundoNivel(dir) == NumeroPagina(dir) % ENTRADAS_POR_TABLA

\* Variant.
DesplazamientoEnTabla(dir) == dir - EntradaPrimerNivel(dir) * TAM_PAGINA
Desplazamiento(dir) == dir - NumeroPagina(dir) * TAM_PAGINA

DireccionFisica(marco, dir) == marco * TAM_PAGINA + Desplazamiento(dir)

(* calcular_cantidad_tablas_necesarias: the ceiling of the quotient.       *)
BytesPorTabla == ENTRADAS_POR_TABLA * TAM_PAGINA
TablasNecesarias(tam) == (tam + BytesPorTabla - 1) \div BytesPorTabla

(* The page numbers the two loops of inicializar_estructuras_proceso give  *)
(* out: entry j of table i, both from 0.                                   *)
PaginaDeEntrada(i, j) == i * ENTRADAS_POR_TABLA + j
=============================================================================

\* One process that uses two pages and has one frame, with a TLB for both: a page
\* that was replaced is still in the TLB.
SPECIFICATION SpecTraduccion
CONSTANTS
  Procesos = {p1}
  PAGINAS = 3
  MARCOS = 1
  MARCOS_POR_PROCESO = 1
  ALGORITMO_REEMPLAZO = "CLOCK"
  Valores = {v0}
  Cero = v0
  Nada = nada
  TAM_PAGINA = 8
  ENTRADAS_POR_TABLA = 2
  Tamanios = {24}
  Direcciones = {12, 16, 20}
  ENTRADAS_TLB = 2
  REEMPLAZO_TLB = "FIFO"
INVARIANTS
  PedidoVigente

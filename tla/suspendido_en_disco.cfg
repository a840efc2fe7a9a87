\* One process of two pages: a page it has only read is still in its frame
\* when the suspension is confirmed.
SPECIFICATION Spec
CONSTANTS
  Procesos = {p1}
  PAGINAS = 2
  MARCOS = 2
  MARCOS_POR_PROCESO = 2
  ALGORITMO_REEMPLAZO = "CLOCK"
  Valores = {v0, v1}
  Cero = v0
  Nada = nada
INVARIANTS
  SuspendidoEnDisco

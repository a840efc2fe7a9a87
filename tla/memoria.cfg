\* One process of three pages, two frames for it and one to spare: the victim is
\* chosen among two, and the order of the list of free frames matters.
SPECIFICATION Spec
CONSTANTS
  Procesos = {p1}
  PAGINAS = 3
  MARCOS = 3
  MARCOS_POR_PROCESO = 2
  ALGORITMO_REEMPLAZO = "CLOCK-M"
  Valores = {v0, v1}
  Cero = v0
  Nada = nada
INVARIANTS
  TypeOK
  MarcosAcotados
  LimpiaEnDisco
PROPERTIES
  ImplementaAlmacen

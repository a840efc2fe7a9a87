\* Two processes of 24 bytes, which use two of their pages, as many as their
\* frames: nothing is replaced, and frames for one process only, so that frames
\* are lost to suspensions only.  Pages 1 and 2 are in different tables, and the TLB
\* is full with one of them.
SPECIFICATION SpecTraduccion
CONSTANTS
  Procesos = {p1, p2}
  PAGINAS = 3
  MARCOS = 2
  MARCOS_POR_PROCESO = 2
  ALGORITMO_REEMPLAZO = "CLOCK"
  Valores = {v0}
  Cero = v0
  Nada = nada
  TAM_PAGINA = 8
  ENTRADAS_POR_TABLA = 2
  Tamanios = {24}
  Direcciones = {12, 16, 20}
  ENTRADAS_TLB = 1
  REEMPLAZO_TLB = "LRU"
SYMMETRY Simetria
INVARIANTS
  TlbCoherente
  TlbAcotada
  PedidoVigente
  MarcosRepartidos
  RutaDePagina
  AccesoEnSuMarco

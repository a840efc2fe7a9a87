\* Two processes block, and an I/O may end while memory is still swapping.
SPECIFICATION Spec
CONSTANTS
  MaxProcesos = 2
  MaxBloqueos = 1
  ALGORITMO = "FIFO"
  LIMITE = 2
  Rafagas = {1}
  ESTIMACION_INICIAL = 1
  ConexionesConcurrentes = FALSE
  SuspensionLenta = TRUE
INVARIANTS
  BloqueadoTieneHilo

\* SRT, one place in memory, two blocks per process, and memory may still be writing
\* the pages of a suspended one when its I/O ends.
SPECIFICATION SpecJusta
CONSTANTS
  MaxProcesos = 2
  MaxBloqueos = 2
  ALGORITMO = "SRT"
  LIMITE = 1
  Rafagas = {1}
  ESTIMACION_INICIAL = 1
  ConexionesConcurrentes = TRUE
  SuspensionLenta = TRUE
PROPERTIES
  TodosTerminan
  ImplementaCiclo
\* The kernel stops for good when a console is not registered in time, and a
\* process that lost its thread is in nobody's way.
CHECK_DEADLOCK FALSE

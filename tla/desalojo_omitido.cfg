\* A process enters ready while another is on its way to the CPU.
SPECIFICATION Spec
CONSTANTS
  MaxProcesos = 2
  MaxBloqueos = 1
  ALGORITMO = "SRT"
  LIMITE = 2
  Rafagas = {1, 2}
  ESTIMACION_INICIAL = 2
  ConexionesConcurrentes = FALSE
  SuspensionLenta = FALSE
INVARIANTS
  DesalojoEvaluado

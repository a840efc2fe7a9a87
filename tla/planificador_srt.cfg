\* SRT with preemption: three processes, two estimates.
SPECIFICATION Spec
CONSTANTS
  MaxProcesos = 3
  MaxBloqueos = 1
  ALGORITMO = "SRT"
  LIMITE = 2
  Rafagas = {1, 2}
  ESTIMACION_INICIAL = 2
  ConexionesConcurrentes = FALSE
  SuspensionLenta = FALSE
INVARIANTS
  CpuDeUnProceso
  ReadyContado
  ReadyOrdenada

\* Three consoles at once, FIFO, two places in memory, memory may be slow.
SPECIFICATION Spec
CONSTANTS
  MaxProcesos = 3
  MaxBloqueos = 1
  ALGORITMO = "FIFO"
  LIMITE = 2
  Rafagas = {1}
  ESTIMACION_INICIAL = 1
  ConexionesConcurrentes = TRUE
  SuspensionLenta = TRUE
INVARIANTS
  TypeOK
  CpuDeUnProceso
  ReadyContado
  PorAdmitirContado
  GradoConservado
  UnSoloLugar
  ReadyConTabla
  PrimeroDeNew
PROPERTIES
  ImplementaCiclo
\* The kernel stops for good when a console is not registered in time.
CHECK_DEADLOCK FALSE

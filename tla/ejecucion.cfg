\* Two consoles, each with either file; an instruction is the unit of time.
SPECIFICATION SpecJusta
CONSTANTS
  Consolas = {c1, c2}
  Archivos <- MCArchivos
  Tamanios = {64}
  Duraciones = {1}
  ESTIMACION_INICIAL = 10
  ALFA = 5
  Nadie = nadie
INVARIANTS
  TypeOK
  PcbConservado
  FetchEnRango
  RafagaDescontada
  RafagaInformada
PROPERTIES
  ImplementaPrograma
  TodaConsolaAvisada

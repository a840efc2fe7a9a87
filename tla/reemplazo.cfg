\* Both algorithms, with four frames as in most configs.
SPECIFICATION Spec
CONSTANTS
  MARCOS_POR_PROCESO = 4
INVARIANTS
  TypeOK
  CalculaReemplazada
  ClaseMinima
PROPERTIES
  FaultAtendido

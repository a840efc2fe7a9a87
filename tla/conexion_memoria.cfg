\* Two processes: the request of one meets the suspension of the other.
SPECIFICATION Spec
CONSTANTS
  Procesos = {1, 2}
  TAM = 64
INVARIANTS
  SuspensionConfirmada
CHECK_DEADLOCK FALSE

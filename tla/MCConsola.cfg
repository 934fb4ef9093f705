SPECIFICATION Spec
CONSTANTS
  Pids <- MCPids
  MaxRechazos = 2
INVARIANTS
  RespuestaPropia
  NoSeAbrazan
  UnHiloPorPid
  FinEnOtrasManos
\* The console may die, and its threads may all wait for ever.
CHECK_DEADLOCK FALSE

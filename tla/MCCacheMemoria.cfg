SPECIFICATION SpecMemoria
CONSTANTS
  MARCOS = 7
  MARCOS_SIZE = 100
  Pids <- MCPids
  Pedidos <- MCPedidos
  ENTRADAS_CACHE = 3
  CACHE_X_PROC = 2
  Accesos <- MCAccesos
INVARIANTS
  MutexSuelto
  IInv
  CacheAcotada
  SinRepetidas
PROPERTIES
  SoloElDuenioSuelta
  FinalizarBorraTodo
  SoloCaeElMenosUsado
\* The server stops for good when a search does not return.
CHECK_DEADLOCK FALSE

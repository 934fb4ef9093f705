SPECIFICATION SpecJusta
CONSTANTS
  Pids <- DosPids
  CPUs = {c1}
  GRADO_MULTIPROG = 1
  PaginasDeCodigo = 1
  TAM_PAGINA = 20
  ANCHO = 1000
  Tamanios <- MCTamanios
  MaxPedidos <- MCPedidos
  MaxDeMas = 1
INVARIANTS
  NadieEsperaDeMas
PROPERTIES
  EsperaTermina
  ReservaContestada
\* A kernel or a Memoria that stopped does not go on.
CHECK_DEADLOCK FALSE

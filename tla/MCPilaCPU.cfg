SPECIFICATION Spec
CONSTANTS
  BASURA = BASURA
  TAM_PAGINA = 8
  STACK_SIZE = 1
  QUANTUM = 2
  NOMBRES = {a, b}
  ARGUMENTOS = {0}
  VALORES = {0, 1}
  PCB_INICIAL <- MCPCBInicial
  SALTOS <- MCSaltos
  HOLGURA = 1
  MAX_VARIABLES = 3
  MAX_LLAMADAS = 1
  MAX_RAFAGAS = 4
CHECK_DEADLOCK FALSE
INVARIANTS
  TypeOK
  SinSolapar
PROPERTIES
  VariablesIntactas

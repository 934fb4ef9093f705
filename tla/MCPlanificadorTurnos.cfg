SPECIFICATION SpecJusta
CONSTANTS
  Pids <- CuatroPids
  CPUs = {c1}
  Semaforos <- MCSemaforos
  SEM_INIT <- MCInicialCero
  QUANTUM = 2
  GRADO_MULTIPROG = 2
  Lineas <- LineasSinFin
  Nombres <- MCSemaforos
  Comandos <- SinComandos
  ValorMax = 1
  MaxEnCanal = 2
  MaxRepetidas = 1
INVARIANT ListosAcotados
PROPERTY ListoEjecuta
\* A kernel that has died does not go on.
CHECK_DEADLOCK FALSE

SPECIFICATION Spec
CONSTANTS
  Pids <- DosPids
  CPUs = {c1}
  Semaforos <- MCSemaforos
  SEM_INIT <- MCInicialCero
  QUANTUM = 2
  GRADO_MULTIPROG = 1
  Lineas <- LineasSemaforo
  Nombres <- MCSemaforos
  Comandos <- Detener
  ValorMax = 1
  MaxEnCanal = 2
  MaxRepetidas = 1
INVARIANTS
  SinPerdidos
\* A kernel that has died does not go on.
CHECK_DEADLOCK FALSE

SPECIFICATION Spec
CONSTANTS
  Pids <- TresPids
  CPUs = {c1}
  Semaforos <- MCSemaforos
  SEM_INIT <- MCInicialUno
  QUANTUM <- MenosUno
  GRADO_MULTIPROG = 1
  Lineas <- LineasSemaforo
  Nombres <- MCNombres
  Comandos <- FinalizarYGrado
  ValorMax = 1
  MaxEnCanal = 2
  MaxRepetidas = 1
INVARIANTS
  EnUnSoloLugar
\* A kernel that has died does not go on.
CHECK_DEADLOCK FALSE

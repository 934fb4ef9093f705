SPECIFICATION Spec
CONSTANTS
  Pids <- DosPids
  CPUs = {c1, c2}
  Semaforos <- MCSemaforos
  SEM_INIT <- MCInicialCero
  QUANTUM <- MenosUno
  GRADO_MULTIPROG = 2
  Lineas <- LineasSemaforo
  Nombres <- MCSemaforos
  Comandos <- SinComandos
  ValorMax = 2
  MaxEnCanal = 3
  MaxRepetidas = 1
INVARIANT EjecutaUnaSola
PROPERTY SoloDescuadraElCruce
\* A kernel that has died does not go on.
CHECK_DEADLOCK FALSE

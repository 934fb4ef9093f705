--------------------------- MODULE MCPlanificador ---------------------------
(* One semaphore, and programs that also use a name that is not one.       *)
EXTENDS Planificador

DosPids == 1 .. 2
TresPids == 1 .. 3
CuatroPids == 1 .. 4

MCSemaforos == {"s"}
SoloInicial(valor) == [s \in MCSemaforos |-> valor]
MCInicialCero == SoloInicial(0)
MCInicialUno == SoloInicial(1)
MCNombres == {"s", "inexistente"}

(* Programs with semaphores, that may fail.                                *)
LineasSemaforo == {"wait", "signal", "finalizar", "aborta"}
(* Programs without end.                                                   *)
LineasSinFin == {"comun", "signal"}

MenosUno == -1

SinComandos == {}
Finalizar == {"finalizar"}
FinalizarYGrado == {"finalizar", "grado"}
Detener == {"detener", "reanudar", "SIGUSR1"}
=============================================================================
